------------------------------ MODULE Project -------------------------------
(***************************************************************************)
(* The life of a generated project: the developer edits the .proto file,   *)
(* implements functions, edits the .conf files and removes files; the      *)
(* generator runs (CodeGen) and may be killed; make builds the server and  *)
(* the client from whatever the directory holds; both are started with     *)
(* their .conf files (Config) and the client calls a function.             *)
(*                                                                         *)
(* Executables outlive the files they were made from, so a call may join a *)
(* client and a server of different generations.  make is left to allow    *)
(* more than the compiler does (it does not look at the message types), so *)
(* the invariants hold for at least the executables that can exist.        *)
(* Object files are not kept: every run rewrites service.h, service.cpp    *)
(* and stub.cpp, from which the Makefile's rules remake all objects.  The  *)
(* programs are made and run while the generator does not run: a kill      *)
(* leaves every directory that they could find while it does.              *)
(***************************************************************************)
EXTENDS CodeGen

CONSTANTS ServerConfs, ClientConfs, \* what the developer writes into them
          Removable,                \* suffixes of the files removed at times
          Hardware,                 \* values of hardware_concurrency()
          LogOptions,               \* values of the server's -l option
          LocalIps,                 \* addresses the host can listen on
          HashCode(_),              \* murmur_hash3 of a method's name, 32 bits
          MaxEdits                  \* how many edits the developer makes

ASSUME HostAssumption == Hardware \subseteq Nat /\ LogOptions \subseteq Int

VARIABLES
    edits,
    written,    \* history: the functions the developer has implemented, as
                \* pairs of file base name and function
    server,     \* the server executable, or None
    client,     \* the client executable, or None
    process,    \* the settings the server runs with, or None
    session     \* the call that a client has just made, or None

devVars == <<edits, written>>
exeVars == <<server, client>>
projectVars == <<genVars, devVars, exeVars, process, session>>

Whole(path) == path \in DOMAIN files /\ files[path].whole

Text(base, suffix) == files[<<base, suffix>>].text

----------------------------------------------------------------------------
(* The developer, who works while the generator does not run                *)

Edit ==
    /\ tree = None
    /\ edits < MaxEdits
    /\ edits' = edits + 1
    /\ session' = None
    /\ UNCHANGED <<tree, step, open, finished, kills, exeVars, process>>

EditProto ==
    /\ Edit
    /\ proto' \in Protos \ {proto}
    /\ UNCHANGED <<files, written>>

\* The commented declaration and definition of a function are put to use.
Implement(base, f) ==
    /\ Edit
    /\ \A s \in {"service_impl.h", "service_impl.cpp"} : Whole(<<base, s>>)
    /\ f \notin Text(base, "service_impl.h").overrides
    /\ files' = [files EXCEPT ![<<base, "service_impl.h">>].text.overrides = @ \cup {f},
                              ![<<base, "service_impl.cpp">>].text.defines = @ \cup {f}]
    /\ written' = written \cup {<<base, f>>}
    /\ UNCHANGED proto

EditConf(base, suffix, text) ==
    /\ Edit
    /\ <<base, suffix>> \in DOMAIN files
    /\ files' = [files EXCEPT ![<<base, suffix>>] = [whole |-> TRUE, text |-> text]]
    /\ UNCHANGED <<proto, written>>

RemoveFile(path) ==
    /\ Edit
    /\ files' = [p \in DOMAIN files \ {path} |-> files[p]]
    /\ written' = IF path[2] \in {"service_impl.h", "service_impl.cpp"}
                    THEN {w \in written : w[1] # path[1]}
                    ELSE written
    /\ UNCHANGED proto

Developer ==
    \/ EditProto
    \/ \E base \in Bases :
         \/ \E f \in Rpcs : Implement(base, ServiceFuncDeclaration(f))
         \/ \E text \in ServerConfs : EditConf(base, "server.conf", text)
         \/ \E text \in ClientConfs : EditConf(base, "client.conf", text)
    \/ \E path \in DOMAIN files : path[2] \in Removable /\ RemoveFile(path)

----------------------------------------------------------------------------
(* make, with the Makefile that main writes from EMOSKIT_MAKEFILE_TEMPLATE  *)

MakefilePath == <<"", "Makefile">>

Base == files[MakefilePath].text.name

OneFunctionPerName(funcs) ==
    \A i, j \in DOMAIN funcs : funcs[i].name = funcs[j].name => i = j

\* A position past the end of the array that was compiled in names nothing.
NameAt(names, i) == IF i \in DOMAIN names THEN names[i] ELSE Junk

ServerLinks ==
    LET hpp == Text(Base, "service.h")
        cpp == Text(Base, "service.cpp")
        impl_hpp == Text(Base, "service_impl.h")
        impl_cpp == Text(Base, "service_impl.cpp")
    IN  /\ Whole(MakefilePath) /\ proto.valid
        /\ \A path \in files[MakefilePath].text.server : Whole(path)
        /\ \A s \in {"service.h", "service_impl.h", "method_names.h"} : Whole(<<Base, s>>)
        /\ Text(Base, "server_main.cpp").class = impl_hpp.class
        /\ impl_cpp.class = impl_hpp.class
        /\ impl_hpp.base = hpp.class
        /\ cpp.class = hpp.class
        /\ Text(Base, "method_names.h").package = hpp.class[1]
        /\ cpp.defines = hpp.declares
        /\ OneFunctionPerName(hpp.declares)
        /\ impl_hpp.overrides \subseteq ToSet(hpp.declares)
        /\ impl_cpp.defines = impl_hpp.overrides

\* A server that runs is stopped for the new one.
MakeServer ==
    /\ tree = None
    /\ ServerLinks
    /\ LET adds == Text(Base, "service.cpp").adds
           names == Text(Base, "method_names.h").names
           overrides == Text(Base, "service_impl.h").overrides
       IN  server' = [name |-> Base,
                      methods |-> [i \in DOMAIN adds |->
                                     [name |-> NameAt(names, adds[i].index),
                                      handler |-> adds[i].handler,
                                      implemented |-> adds[i].handler \in overrides]],
                      written |-> {w[2] : w \in {v \in written : v[1] = Base}},
                      tree |-> finished[Base]]
    /\ process' = None
    /\ session' = None
    /\ UNCHANGED <<genVars, devVars, client>>

ClientLinks ==
    LET main == Text(Base, "client_main.cpp")
        hpp == Text(Base, "client.h")
        cpp == Text(Base, "client.cpp")
        stub_hpp == Text(Base, "stub.h")
        stub_cpp == Text(Base, "stub.cpp")
    IN  /\ Whole(MakefilePath) /\ proto.valid
        /\ \A path \in files[MakefilePath].text.client : Whole(path)
        /\ \A s \in {"client.h", "stub.h", "method_names.h"} : Whole(<<Base, s>>)
        /\ main.class = hpp.class
        /\ cpp.class = hpp.class
        /\ <<hpp.class[1], hpp.stub>> = stub_hpp.class
        /\ stub_cpp.class = stub_hpp.class
        /\ Text(Base, "method_names.h").package = stub_hpp.class[1]
        /\ [i \in DOMAIN stub_cpp.methods |-> stub_cpp.methods[i].func] = stub_hpp.declares
        /\ OneFunctionPerName(stub_hpp.declares)
        /\ cpp.calls \in ToSet(stub_hpp.declares)

MakeClient ==
    /\ tree = None
    /\ ClientLinks
    /\ LET methods == Text(Base, "stub.cpp").methods
           names == Text(Base, "method_names.h").names
       IN  client' = [methods |-> [i \in DOMAIN methods |->
                                     [name |-> NameAt(names, methods[i].index),
                                      func |-> methods[i].func]],
                      conf |-> Text(Base, "client_main.cpp").conf,
                      tree |-> finished[Base]]
    /\ session' = None
    /\ UNCHANGED <<genVars, devVars, server, process>>

----------------------------------------------------------------------------
(* The generated main functions                                             *)

\* Service::AddMethod exits when a hash code is registered twice.
AddMethodExits(methods) ==
    \E i, j \in DOMAIN methods :
      i # j /\ HashCode(methods[i].name) = HashCode(methods[j].name)

\* The server is started, or restarted, with the .conf file of its own name;
\* it exits if that is rejected, if a hash code is registered twice, or if no
\* address can be bound.
RunServer ==
    /\ tree = None
    /\ server # None
    /\ \E hardware \in Hardware, option \in LogOptions :
         LET read == ServerReadConfigFile(files, <<server.name, "server.conf">>, hardware)
         IN  process' =
               IF \/ read = None
                  \/ AddMethodExits(server.methods)
                  \/ read.ip \notin LocalIps
                 THEN None
                 ELSE PoolAndRing(SetLogLevel(read, option), hardware)
    /\ session' = None
    /\ UNCHANGED <<genVars, devVars, exeVars>>

\* The handler Service::CallMethod finds by the hash code, the method_id of the
\* request, or None for METHOD_NOT_EXIST.
CallMethod(exe, method_id) ==
    LET found == {i \in DOMAIN exe.methods : HashCode(exe.methods[i].name) = method_id}
    IN  IF found = {} THEN None ELSE exe.methods[CHOOSE i \in found : TRUE].handler

\* The client reads its .conf file, connects to an endpoint of its choice and
\* calls a function; a client that cannot connect exits.
RunClient ==
    /\ tree = None
    /\ client # None
    /\ process # None
    /\ LET read == ClientReadConfigFile(files, client.conf)
       IN  /\ read # None
           /\ \E ip \in read.ips, port \in GetEndpointRandom(read) :
                <<ip, port>> = <<process.ip, process.port>>
    /\ \E i \in DOMAIN client.methods :
         session' = [func |-> client.methods[i].func,
                     reached |-> CallMethod(server, HashCode(client.methods[i].name)),
                     from |-> client.tree,
                     at |-> server.tree]
    /\ UNCHANGED <<genVars, devVars, exeVars, process>>

----------------------------------------------------------------------------
ProjectInit ==
    /\ GenInit
    /\ edits = 0
    /\ written = {}
    /\ server = None
    /\ client = None
    /\ process = None
    /\ session = None

ProjectNext ==
    \/ GenNext /\ process' = None /\ session' = None /\ UNCHANGED <<devVars, exeVars>>
    \/ Developer
    \/ MakeServer
    \/ MakeClient
    \/ RunServer
    \/ RunClient

ProjectSpec == ProjectInit /\ [][ProjectNext]_projectVars

----------------------------------------------------------------------------
(* Properties                                                               *)

\* A call of a function that the server has reaches that function: names are
\* compiled in by position on both sides (GenerateServiceCpp, GenerateStubCpp),
\* from an array written between the two, and the executables may come from
\* different runs of the generator.  A call of a function that the server does
\* not have is answered METHOD_NOT_EXIST, or reaches the one function of the
\* server whose name has the same hash code: AddMethod refuses equal codes
\* within one server only.  It is claimed for executables made after a run that
\* was not killed; one made from a half-rewritten directory may call anything.
RightFunction ==
    session # None /\ session.from # None /\ session.at # None =>
      LET NameOf(t, f) == <<t.package, t.service, f.name>>
          name == NameOf(session.from, session.func)
          funcs == ToSet(ServiceFuncs(session.at))
          named == {f \in funcs : NameOf(session.at, f) = name}
          alike == {f \in funcs : HashCode(NameOf(session.at, f)) = HashCode(name)}
      IN  /\ named # {} => named = {session.reached}
          /\ IF session.reached = None THEN alike = {} ELSE alike = {session.reached}

\* No run of the generator, finished or killed, takes the developer's
\* implementations away: a server that make builds dispatches every function
\* implemented so far, and not removed, to the developer's code rather than to
\* the UNIMPLEMENTED body that GenerateServiceCpp writes for it.
DevelopersCodeRuns ==
    server # None =>
      \A f \in server.written :
        \E i \in DOMAIN server.methods :
          server.methods[i].handler = f /\ server.methods[i].implemented

\* Whatever .conf file a server starts with, on whatever hardware, its rings
\* and its pool are built as CircBuf and ThreadPool assume them: a ring whose
\* size is a power of two and at least 2, at least one core thread, no fewer
\* threads at most than at least, and the single-producer strategy only with
\* one event loop.
StartsLegal ==
    process # None =>
      LET s == process
      IN  /\ s.ring >= 2 /\ \E k \in 1 .. Bits : s.ring = Pow2[k]
          /\ 1 <= s.core /\ s.core <= s.max
          /\ s.loops >= 1
          /\ s.production = "SINGLE_THREAD" <=> s.loops = 1
          /\ s.level \in 1 .. 4

----------------------------------------------------------------------------
(* The inductive invariant: what the files say about the runs that wrote    *)
(* them, and the executables about the files they were made from            *)

\* What the generator can be running with.
Trees == {Parse(p) : p \in Protos} \ {None}

GeneratorOK ==
    /\ proto \in Protos
    /\ tree \in Trees \cup {None}
    /\ step \in 1 .. Len(Blocks)
    /\ open \in BOOLEAN
    /\ finished \in [Bases -> Trees \cup {None}]

\* The file that is being written is not whole.
BeingWritten ==
    open => /\ tree # None
            /\ BlockPath \in DOMAIN files
            /\ ~files[BlockPath].whole

\* A file is a record; the header of the implementation has its overrides,
\* and a whole service.cpp or Makefile is as some run has written it.
FilesOK ==
    \A path \in DOMAIN files :
      /\ files[path] = [whole |-> files[path].whole, text |-> files[path].text]
      /\ files[path].whole \in BOOLEAN
      /\ files[path].whole =>
           /\ path[2] = "service_impl.h" => "overrides" \in DOMAIN files[path].text
           /\ path[2] \in {"service.cpp", "Makefile"} =>
                \E t \in Trees : files[path].text = Generate(path[2], t)

\* The files that every run rewrites, if whole, come from the given tree.
From(t, suffixes) ==
    \A s \in suffixes \cap Rewritten :
      Whole(<<Lower[t.service], s>>) => Text(Lower[t.service], s) = Generate(s, t)

FinishedRuns ==
    \A base \in Bases :
      finished[base] # None => /\ Lower[finished[base].service] = base
                              /\ From(finished[base], Rewritten)

RunningRun ==
    tree # None => /\ finished[Lower[tree.service]] = None
                   /\ From(tree, {Blocks[j] : j \in 1 .. step - 1})

\* What the developer has implemented is there.
WrittenKept ==
    \A w \in written :
      /\ w = <<w[1], w[2]>>
      /\ Whole(<<w[1], "service_impl.h">>)
      /\ w[2] \in Text(w[1], "service_impl.h").overrides

\* An executable made after a finished run has the functions of its tree,
\* each under its own name.
ServerMatches ==
    server # None /\ server.tree # None =>
      LET t == server.tree
      IN  /\ t \in Trees /\ OneFunctionPerName(ServiceFuncs(t))
          /\ DOMAIN server.methods = DOMAIN t.func_list
          /\ \A i \in DOMAIN t.func_list :
               /\ server.methods[i].name = MethodNames(t)[i]
               /\ server.methods[i].handler = ServiceFuncs(t)[i]

ClientMatches ==
    client # None /\ client.tree # None =>
      LET t == client.tree
      IN  /\ t \in Trees
          /\ DOMAIN client.methods = DOMAIN t.func_list
          /\ \A i \in DOMAIN t.func_list :
               /\ client.methods[i].name = MethodNames(t)[i]
               /\ client.methods[i].func = StubFuncs(t)[i]

\* A server that runs has registered its methods.
ProcessOfServer ==
    process # None => server # None /\ ~AddMethodExits(server.methods)

DirectoryInv ==
    GeneratorOK /\ BeingWritten /\ FilesOK /\ FinishedRuns /\ RunningRun /\ WrittenKept

ProgramsInv ==
    /\ ServerMatches /\ ClientMatches /\ ProcessOfServer
    /\ RightFunction /\ DevelopersCodeRuns /\ StartsLegal

ProjectInv == DirectoryInv /\ ProgramsInv
=============================================================================
