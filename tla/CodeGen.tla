------------------------------ MODULE CodeGen -------------------------------
(***************************************************************************)
(* The code generator (codegen/): ProtoParser reads the first service of a *)
(* .proto file into a SyntaxTree, and main in syntax.cpp writes fourteen   *)
(* files for it, one after the other.  Five of them are rewritten by every *)
(* run; the nine others belong to the developer once they exist, and are   *)
(* skipped then.  A file is truncated by fopen and holds its contents only *)
(* after fclose; the generator may be killed (or abort in an assert)       *)
(* anywhere in between.                                                    *)
(*                                                                         *)
(* The contents of a file are what it declares, defines and refers to.     *)
(* A function of the tree is a record [name, req, rsp] of its name and its *)
(* message types.  Lower and Capital are ToLower and the toupper of the    *)
(* first letter: services that differ in case only share their files.      *)
(***************************************************************************)
EXTENDS Config

CONSTANTS Services,       \* service names
          Lower, Capital, \* what NameGenerator makes of them
          First,          \* the .proto file the project starts with
          Protos,         \* the .proto files the developer may write
          MaxKills        \* how often the generator may be killed

ASSUME CaseAssumption ==
    /\ Lower \in [Services -> STRING]
    /\ Capital \in [Services -> STRING]

Echo == [name |-> "Echo", req |-> "StringValue", rsp |-> "StringValue"]

\* The functions of the .proto files.
Rpcs == UNION {ToSet(s.methods) : s \in UNION {ToSet(p.services) : p \in Protos}}

ASSUME ProtoAssumption ==
    /\ First \in Protos
    /\ \A p \in Protos : p.services \in Seq([name : Services, methods : Seq(Rpcs)])

VARIABLES
    proto,      \* the .proto file: FALSE in `valid` when protoc rejects it
    files,      \* the output directory: a function from paths to files
    tree,       \* the SyntaxTree of the running generator, or None
    step,       \* the block of main that is next, or being written
    open,       \* the file of that block is open for writing
    finished,   \* history: for each file base name the tree of the last
                \* run, None while it runs and after it was killed
    kills

genVars == <<proto, files, tree, step, open, finished, kills>>

----------------------------------------------------------------------------
(* proto_parser.cpp                                                         *)

\* The tree of the first service; the methods keep their order.
ParseProtoFile(p) ==
    IF ~p.valid \/ p.services = << >>
      THEN None
      ELSE [package |-> p.package,
            service |-> Head(p.services).name,
            func_list |-> Head(p.services).methods]

\* Echo goes in front, whether or not the service has one of its own.
AddEcho(t) == [t EXCEPT !.func_list = <<Echo>> \o @]

Parse(p) ==
    LET t == ParseProtoFile(p) IN IF t = None THEN None ELSE AddEcho(t)

----------------------------------------------------------------------------
(* name_generator.cpp                                                       *)

Bases == {Lower[s] : s \in Services}

FilePath(service, suffix) ==
    IF suffix = "Makefile" THEN <<"", suffix>> ELSE <<Lower[service], suffix>>

ClassName(service, suffix) == <<Capital[service], suffix>>

\* A message type pkg.T becomes the class ::pkg::T.
IDLClassName(type) == <<"::", type>>

MethodNames(t) ==
    [i \in DOMAIN t.func_list |-> <<t.package, t.service, t.func_list[i].name>>]

----------------------------------------------------------------------------
(* server_generator.cpp                                                     *)

ServiceFuncDeclaration(f) ==
    [name |-> f.name, req |-> IDLClassName(f.req), rsp |-> IDLClassName(f.rsp)]

\* No function is mistaken for None.
ASSUME NoneAssumption ==
    None \notin {ServiceFuncDeclaration(f) : f \in Rpcs \cup {Echo}}

ServiceFuncs(t) ==
    [i \in DOMAIN t.func_list |-> ServiceFuncDeclaration(t.func_list[i])]

GenerateServerMainCpp(t) ==
    [includes |-> FilePath(t.service, "service_impl.h"),
     class |-> ClassName(t.service, "ServiceImpl")]

GenerateServiceHpp(t) ==
    [includes |-> FilePath(t.service, "method_names.h"),
     class |-> <<t.package, ClassName(t.service, "Service")>>,
     declares |-> ServiceFuncs(t)]

\* The constructor adds one method per function, its name taken from the
\* array of method_names.h by position.
GenerateServiceCpp(t) ==
    [includes |-> FilePath(t.service, "service.h"),
     class |-> <<t.package, ClassName(t.service, "Service")>>,
     adds |-> [i \in DOMAIN t.func_list |-> [index |-> i, handler |-> ServiceFuncs(t)[i]]],
     defines |-> ServiceFuncs(t)]

\* Echo only; the other functions are left to the developer in a comment.
GenerateServiceImplHpp(t) ==
    [includes |-> FilePath(t.service, "service.h"),
     class |-> ClassName(t.service, "ServiceImpl"),
     base |-> <<t.package, ClassName(t.service, "Service")>>,
     overrides |-> {Head(ServiceFuncs(t))}]

GenerateServiceImplCpp(t) ==
    [includes |-> FilePath(t.service, "service_impl.h"),
     class |-> ClassName(t.service, "ServiceImpl"),
     defines |-> {Head(ServiceFuncs(t))}]

GenerateMethodNameHpp(t) == [package |-> t.package, names |-> MethodNames(t)]

GenerateServerConfigFile(t) ==
    << [item |-> "section", name |-> "Server"],
       [item |-> "entry", key |-> "IP", value |-> "127.0.0.1"],
       [item |-> "entry", key |-> "Port", value |-> "50060"],
       [item |-> "entry", key |-> "EventLoopCnt", value |-> "3"],
       [item |-> "entry", key |-> "WorkerPoolCorePoolSize", value |-> "6"],
       [item |-> "entry", key |-> "WorkerPoolMaxPoolSize", value |-> "9"],
       [item |-> "entry", key |-> "WorkerPoolKeepAliveTimeSeconds", value |-> "60"],
       [item |-> "entry", key |-> "CircbufSize", value |-> "1024"],
       [item |-> "section", name |-> "Log"],
       [item |-> "entry", key |-> "LogDir", value |-> "./log"],
       [item |-> "entry", key |-> "LogLevel", value |-> "3"],
       [item |-> "annotation"] >>

\* The Makefile is the one file whose name does not depend on the service.
GenerateMakefile(t) ==
    [server |-> {FilePath(t.service, s) : s \in {"server_main.cpp", "service.cpp",
                                                "service_impl.cpp"}},
     client |-> {FilePath(t.service, s) : s \in {"client_main.cpp", "client.cpp",
                                                "stub.cpp"}},
     name |-> Lower[t.service]]

----------------------------------------------------------------------------
(* client_generator.cpp                                                     *)

StubFuncDeclaration(f) ==
    [name |-> f.name, req |-> IDLClassName(f.req), rsp |-> IDLClassName(f.rsp)]

StubFuncs(t) ==
    [i \in DOMAIN t.func_list |-> StubFuncDeclaration(t.func_list[i])]

GenerateClientMainCpp(t) ==
    [includes |-> FilePath(t.service, "client.h"),
     class |-> <<t.package, ClassName(t.service, "Client")>>,
     conf |-> FilePath(t.service, "client.conf")]

GenerateClientHpp(t) ==
    [includes |-> FilePath(t.service, "stub.h"),
     class |-> <<t.package, ClassName(t.service, "Client")>>,
     stub |-> ClassName(t.service, "Stub")]

GenerateClientCpp(t) ==
    [includes |-> FilePath(t.service, "client.h"),
     class |-> <<t.package, ClassName(t.service, "Client")>>,
     calls |-> Head(StubFuncs(t))]

GenerateStubHpp(t) ==
    [class |-> <<t.package, ClassName(t.service, "Stub")>>,
     declares |-> StubFuncs(t)]

GenerateStubCpp(t) ==
    [includes |-> FilePath(t.service, "stub.h"),
     class |-> <<t.package, ClassName(t.service, "Stub")>>,
     methods |-> [i \in DOMAIN t.func_list |-> [index |-> i, func |-> StubFuncs(t)[i]]]]

GenerateClientConfigFile(t) ==
    << [item |-> "section", name |-> "Server"],
       [item |-> "entry", key |-> "ServerCount", value |-> "2"],
       [item |-> "section", name |-> "Server_0"],
       [item |-> "entry", key |-> "IP", value |-> "127.0.0.1"],
       [item |-> "entry", key |-> "Port", value |-> "50060"],
       [item |-> "section", name |-> "Server_1"],
       [item |-> "entry", key |-> "IP", value |-> "127.0.0.1"],
       [item |-> "entry", key |-> "Port", value |-> "50060"] >>

----------------------------------------------------------------------------
(* main of syntax.cpp                                                       *)

ServerBlocks ==
    << "server_main.cpp", "service.h", "service.cpp", "service_impl.h",
       "service_impl.cpp", "server.conf", "method_names.h" >>

ClientBlocks ==
    << "client_main.cpp", "client.h", "client.cpp", "client.conf",
       "stub.h", "stub.cpp", "Makefile" >>

Blocks == ServerBlocks \o ClientBlocks

\* Mutants: an access() test too many, and two too few.
RewrittenButNames == {"service.h", "service.cpp", "stub.h", "stub.cpp"}

RewrittenWithImpl ==
    {"service.h", "service.cpp", "method_names.h", "stub.h", "stub.cpp",
     "service_impl.h", "service_impl.cpp"}

\* The blocks of main without an access() test.
Rewritten == {"service.h", "service.cpp", "method_names.h", "stub.h", "stub.cpp"}

Generate(suffix, t) ==
    CASE suffix = "server_main.cpp"  -> GenerateServerMainCpp(t)
      [] suffix = "service.h"        -> GenerateServiceHpp(t)
      [] suffix = "service.cpp"      -> GenerateServiceCpp(t)
      [] suffix = "service_impl.h"   -> GenerateServiceImplHpp(t)
      [] suffix = "service_impl.cpp" -> GenerateServiceImplCpp(t)
      [] suffix = "server.conf"      -> GenerateServerConfigFile(t)
      [] suffix = "method_names.h"   -> GenerateMethodNameHpp(t)
      [] suffix = "client_main.cpp"  -> GenerateClientMainCpp(t)
      [] suffix = "client.h"         -> GenerateClientHpp(t)
      [] suffix = "client.cpp"       -> GenerateClientCpp(t)
      [] suffix = "client.conf"      -> GenerateClientConfigFile(t)
      [] suffix = "stub.h"           -> GenerateStubHpp(t)
      [] suffix = "stub.cpp"         -> GenerateStubCpp(t)
      [] suffix = "Makefile"         -> GenerateMakefile(t)

GenInit ==
    /\ proto = First
    /\ files = << >>
    /\ tree = None
    /\ step = 1
    /\ open = FALSE
    /\ finished = [base \in Bases |-> None]
    /\ kills = 0

\* From the options to the parsed tree.  A run without a usable .proto file or
\* output directory exits here and changes nothing.
StartGenerator ==
    /\ tree = None
    /\ Parse(proto) # None
    /\ tree' = Parse(proto)
    /\ step' = 1
    /\ finished' = [finished EXCEPT ![Lower[tree'.service]] = None]
    /\ UNCHANGED <<proto, files, open, kills>>

BlockPath == FilePath(tree.service, Blocks[step])

\* The next block of main; after the last one main returns.
NextBlock ==
    /\ step' = IF step = Len(Blocks) THEN 1 ELSE step + 1
    /\ tree' = IF step = Len(Blocks) THEN None ELSE tree
    /\ finished' = IF step = Len(Blocks)
                     THEN [finished EXCEPT ![Lower[tree.service]] = tree]
                     ELSE finished

Writes == Blocks[step] \in Rewritten \/ BlockPath \notin DOMAIN files

\* access(filename, F_OK) says that the developer's file is there.
Skip ==
    /\ tree # None
    /\ ~open
    /\ ~Writes
    /\ NextBlock
    /\ UNCHANGED <<proto, files, open, kills>>

Truncate ==
    /\ tree # None
    /\ ~open
    /\ Writes
    /\ open' = TRUE
    /\ files' = [path \in DOMAIN files \cup {BlockPath} |->
                   IF path = BlockPath THEN [whole |-> FALSE, text |-> << >>]
                                       ELSE files[path]]
    /\ UNCHANGED <<proto, tree, step, finished, kills>>

Close ==
    /\ open
    /\ open' = FALSE
    /\ files' = [files EXCEPT ![BlockPath] =
                    [whole |-> TRUE, text |-> Generate(Blocks[step], tree)]]
    /\ NextBlock
    /\ UNCHANGED <<proto, kills>>

Kill ==
    /\ tree # None
    /\ kills < MaxKills
    /\ kills' = kills + 1
    /\ tree' = None
    /\ step' = 1
    /\ open' = FALSE
    /\ UNCHANGED <<proto, files, finished>>

GenNext == StartGenerator \/ Skip \/ Truncate \/ Close \/ Kill
=============================================================================
