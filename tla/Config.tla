------------------------------- MODULE Config -------------------------------
(***************************************************************************)
(* What config_parser.cpp, server_config.cpp and client_config.cpp make of *)
(* the text of a .conf file, and what Server and ThreadPool make of the    *)
(* numbers.  The text is a sequence of items, one per turn of the loop of  *)
(* ParseConfig:                                                            *)
(*                                                                         *)
(*   [item |-> "annotation"]                   a # line                    *)
(*   [item |-> "section", name |-> s]          [s]                         *)
(*   [item |-> "unclosed", name |-> s]         [s  without its bracket     *)
(*   [item |-> "entry", key |-> k, value |-> v]   k = v                    *)
(*   [item |-> "unrecognized"]                 anything else               *)
(*                                                                         *)
(* A value is a text; GetItem into an int hands it to atoi.  None stands   *)
(* for a read that fails, and for an endpoint not found.                   *)
(***************************************************************************)
EXTENDS Util, Sequences, SequencesExt, TLC

CONSTANTS None, Junk,
          Numerals  \* the texts that are numbers, with the numbers they are

ASSUME NumeralAssumption ==
    \A text \in DOMAIN Numerals : Numerals[text] \in Int /\ Numerals[text] <= Pow2[Bits]

----------------------------------------------------------------------------
(* config_parser.cpp                                                        *)

NothingParsed == [config_kv |-> << >>, section |-> "", ok |-> TRUE]

\* A section is entered into config_kv_ before its ']' is looked for.
ParseSection(p, item) ==
    IF item.name \in DOMAIN p.config_kv
      THEN [p EXCEPT !.ok = FALSE]
      ELSE [config_kv |-> (item.name :> << >>) @@ p.config_kv,
            section |-> item.name,
            ok |-> item.item = "section"]

\* A repeated key replaces the earlier value.
ParseEntry(p, item) ==
    IF p.section = ""
      THEN [p EXCEPT !.ok = FALSE]
      ELSE [p EXCEPT !.config_kv[p.section] = (item.key :> item.value) @@ @]

ParseItem(p, item) ==
    CASE ~p.ok -> p
      [] p.ok /\ item.item = "annotation" -> p
      [] p.ok /\ item.item \in {"section", "unclosed"} -> ParseSection(p, item)
      [] p.ok /\ item.item = "entry" -> ParseEntry(p, item)
      [] p.ok /\ item.item = "unrecognized" -> [p EXCEPT !.ok = FALSE]

ParseConfig(contents) == FoldLeft(ParseItem, NothingParsed, contents)

\* The directory is a function from paths to files; a file that was opened
\* for writing and not closed is empty, which ReadFile reads without error.
ReadFile(directory, path) ==
    IF path \in DOMAIN directory THEN directory[path].text ELSE None

ParserInit(directory, path) ==
    IF ReadFile(directory, path) = None
      THEN [NothingParsed EXCEPT !.ok = FALSE]
      ELSE ParseConfig(ReadFile(directory, path))

HasItem(p, section, key) ==
    section \in DOMAIN p.config_kv /\ key \in DOMAIN p.config_kv[section]

GetItem(p, section, key) == p.config_kv[section][key]

atoi(text) == IF text \in DOMAIN Numerals THEN Numerals[text] ELSE 0

GetInt(p, section, key) == atoi(GetItem(p, section, key))

----------------------------------------------------------------------------
(* server_config.cpp                                                        *)

ServerKeys == {"IP", "Port", "EventLoopCnt", "WorkerPoolCorePoolSize",
               "WorkerPoolMaxPoolSize", "WorkerPoolKeepAliveTimeSeconds",
               "CircbufSize"}

\* The keys that are looked up, and the values ReadConfigFile returns false
\* for.  (It stops at the first one; main returns, so no later code sees the
\* fields that were set by then.)
ServerConfigRejected(p) ==
    \/ ~p.ok
    \/ \E key \in ServerKeys : ~HasItem(p, "Server", key)
    \/ \E key \in {"LogDir", "LogLevel"} : ~HasItem(p, "Log", key)
    \/ GetInt(p, "Server", "Port") <= 0
    \/ GetInt(p, "Server", "EventLoopCnt") <= 0
    \/ GetInt(p, "Server", "CircbufSize") < 2
    \/ GetInt(p, "Log", "LogLevel") \notin 1 .. 4

CorePoolSize(core, hardware) == IF core <= 0 THEN hardware \div 2 ELSE core

MaxPoolSize(max, core) == IF max < core THEN core ELSE max

ServerReadConfigFile(directory, path, hardware) ==
    LET p == ParserInit(directory, path)
        core == CorePoolSize(GetInt(p, "Server", "WorkerPoolCorePoolSize"), hardware)
    IN  IF ServerConfigRejected(p)
          THEN None
          ELSE [ip |-> GetItem(p, "Server", "IP"),
                port |-> GetInt(p, "Server", "Port"),
                loops |-> GetInt(p, "Server", "EventLoopCnt"),
                core |-> core,
                max |-> MaxPoolSize(GetInt(p, "Server", "WorkerPoolMaxPoolSize"), core),
                circbuf |-> GetInt(p, "Server", "CircbufSize"),
                level |-> GetInt(p, "Log", "LogLevel")]

\* ServerConfig::set_log_level, called with the -l option when that is > 0.
SetLogLevel(config, option) ==
    IF option <= 0 THEN config
    ELSE [config EXCEPT !.level = IF option \in 1 .. 4 THEN option ELSE 4]

----------------------------------------------------------------------------
(* The pool and the ring that Server::Start builds from the configuration   *)

\* Mutant: the ring takes the configured size as it is.
RingSizeUnrounded(circbuf) == circbuf

RingSize(circbuf) ==
    LET size == RoundUpPowOfTwo(circbuf)
    IN  CASE size = 0 -> 1024 [] size = 1 -> 2 [] OTHER -> size

ThreadPoolSizes(core, max, hardware) ==
    LET c == IF core <= 0 THEN (IF hardware > 1 THEN hardware ELSE 1) ELSE core
    IN  [core |-> c, max |-> IF max <= 0 \/ max < c THEN c ELSE max]

PoolAndRing(config, hardware) ==
    LET pool == ThreadPoolSizes(config.core, config.max, hardware)
    IN  [ip |-> config.ip, port |-> config.port, loops |-> config.loops,
         core |-> pool.core, max |-> pool.max,
         ring |-> RingSize(config.circbuf),
         production |-> IF config.loops > 1 THEN "MUTIL_THREADS" ELSE "SINGLE_THREAD",
         level |-> config.level]

----------------------------------------------------------------------------
(* client_config.cpp                                                        *)

\* The sections Server_0, Server_1, ... that give both an address and a port;
\* the others are skipped with a warning.
ServerSection(i) == "Server_" \o ToString(i)

CompleteSections(p, count) ==
    SelectSeq([i \in 1 .. count |-> ServerSection(i - 1)],
              LAMBDA s : HasItem(p, s, "IP") /\ HasItem(p, s, "Port"))

\* Every Endpoint keeps ip.c_str() of the one local string `ip`, which the
\* next section overwrites and the return destroys.  What it reads afterwards
\* is the last address that was looked up, while the memory lasts, or Junk.
AddressesRead(p, count) ==
    SelectSeq([i \in 1 .. count |-> ServerSection(i - 1)],
              LAMBDA s : HasItem(p, s, "IP"))

DanglingIp(p, count) ==
    {GetItem(p, Last(AddressesRead(p, count)), "IP"), Junk}

ClientConfigRejected(p) ==
    \/ ~p.ok
    \/ ~HasItem(p, "Server", "ServerCount")
    \/ GetInt(p, "Server", "ServerCount") <= 0
    \/ CompleteSections(p, GetInt(p, "Server", "ServerCount")) = << >>

\* The endpoints' ports, and the addresses any of them may turn out to have.
ClientReadConfigFile(directory, path) ==
    LET p == ParserInit(directory, path)
        count == GetInt(p, "Server", "ServerCount")
        sections == CompleteSections(p, count)
    IN  IF ClientConfigRejected(p)
          THEN None
          ELSE [ports |-> [i \in DOMAIN sections |-> GetInt(p, sections[i], "Port")],
                ips |-> DanglingIp(p, count)]

GetEndpointAt(config, i) ==
    IF i \in DOMAIN config.ports THEN config.ports[i] ELSE None

GetEndpointRandom(config) ==
    {GetEndpointAt(config, i) : i \in DOMAIN config.ports}
=============================================================================
