----------------------------- MODULE MCProject ------------------------------
(* Small .proto and .conf files for Project.                                *)
EXTENDS Project

F(name, type) == [name |-> name, req |-> type, rsp |-> type]

P(service, methods) ==
    [valid |-> TRUE, package |-> "pkg",
     services |-> <<[name |-> service, methods |-> methods]>>]

MCLower == [s \in Services |-> IF s = "Text" THEN "text" ELSE "math"]

MCCapital == [s \in Services |-> IF s = "math" THEN "Math" ELSE s]

MCFirst == P("Math", <<F("Add", "T"), F("Sub", "T")>>)

MCProtos ==
    { MCFirst,
      P("Math", <<F("Sub", "T"), F("Add", "T")>>),
      P("math", <<F("Add", "T")>>),
      P("Math", <<F("Echo", "T")>>),
      P("Text", <<F("Add", "T")>>),
      [valid |-> FALSE, package |-> "pkg", services |-> << >>] }

\* What atoi makes of the numbers in the .conf files.
MCNumerals ==
    [text \in {"-1", "1", "2", "3", "5", "6", "9", "1024", "50060"} |->
       CASE text = "-1" -> -1   [] text = "1" -> 1   [] text = "2" -> 2
         [] text = "3" -> 3     [] text = "5" -> 5   [] text = "6" -> 6
         [] text = "9" -> 9     [] text = "1024" -> 1024
         [] text = "50060" -> 50060]

\* Two methods of different services have the same hash code.
MCHashCode(name) ==
    CASE name = <<"pkg", "Math", "Echo">> -> 1  [] name = <<"pkg", "Math", "Add">> -> 2
      [] name = <<"pkg", "Math", "Sub">> -> 3   [] name = <<"pkg", "math", "Echo">> -> 4
      [] name = <<"pkg", "math", "Add">> -> 3   [] name = <<"pkg", "Text", "Echo">> -> 5
      [] name = <<"pkg", "Text", "Add">> -> 6   [] OTHER -> 7

Sec(s) == [item |-> "section", name |-> s]
Ent(k, v) == [item |-> "entry", key |-> k, value |-> v]

ServerConf(loops, core, max, size) ==
    << Sec("Server"), Ent("IP", "0.0.0.0"), Ent("Port", "1"), Ent("EventLoopCnt", ToString(loops)),
       Ent("WorkerPoolCorePoolSize", ToString(core)), Ent("WorkerPoolMaxPoolSize", ToString(max)),
       Ent("WorkerPoolKeepAliveTimeSeconds", "0"), Ent("CircbufSize", ToString(size)),
       Sec("Log"), Ent("LogDir", "."), Ent("LogLevel", "1") >>

MCServerConfs ==
    { ServerConf(1, 0, -1, 5), ServerConf(2, 3, 1, 2),
      ServerConf(1, 1, 1, 2) \o <<Ent("LogLevel", "9")>>,
      <<Sec("Server"), Sec("Server")>>,
      <<Ent("IP", "0.0.0.0")>>, <<[item |-> "unrecognized"]>>,
      <<[item |-> "unclosed", name |-> "Server"]>> }

MCClientConfs ==
    { <<Sec("Server"), Ent("ServerCount", "2"), Sec("Server_0"), Ent("IP", "0.0.0.0"),
        Ent("Port", "1"), Sec("Server_1"), Ent("IP", "127.0.0.1")>>,
      <<Sec("Server"), Ent("ServerCount", "none")>> }
=============================================================================
