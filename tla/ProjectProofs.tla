--------------------------- MODULE ProjectProofs ----------------------------
(***************************************************************************)
(* What holds of every generated project, whatever .proto and .conf files  *)
(* its developer writes and however often the generator is killed: calls   *)
(* reach the function they are made for, implementations survive, and a    *)
(* server that starts has legal rings and a legal pool.  (The lemmas on    *)
(* rounding are those of ResponseProofs.)                                  *)
(***************************************************************************)
EXTENDS Project, ResponseProofs

-----------------------------------------------------------------------------
(* main of syntax.cpp has fourteen blocks, all different, and the files    *)
(* that every run rewrites are among them.                                 *)
LEMMA BlocksAre ==
    /\ Len(Blocks) = 14
    /\ Blocks[1] = "server_main.cpp" /\ Blocks[2] = "service.h" /\ Blocks[3] = "service.cpp"
    /\ Blocks[4] = "service_impl.h" /\ Blocks[5] = "service_impl.cpp"
    /\ Blocks[6] = "server.conf" /\ Blocks[7] = "method_names.h"
    /\ Blocks[8] = "client_main.cpp" /\ Blocks[9] = "client.h" /\ Blocks[10] = "client.cpp"
    /\ Blocks[11] = "client.conf" /\ Blocks[12] = "stub.h" /\ Blocks[13] = "stub.cpp"
    /\ Blocks[14] = "Makefile"
  BY DEF Blocks, ServerBlocks, ClientBlocks

LEMMA BlocksDiffer ==
    /\ \A i, j \in 1 .. Len(Blocks) : Blocks[i] = Blocks[j] => i = j
    /\ Rewritten \subseteq {Blocks[j] : j \in 1 .. Len(Blocks)}
  BY BlocksAre DEF Rewritten

LEMMA HeadIn == ASSUME NEW S, NEW s \in Seq(S), s # << >> PROVE Head(s) \in S
  OBVIOUS

(* A tree names a service and lists its functions. *)
LEMMA TreesAre ==
    ASSUME NEW t \in Trees
    PROVE  /\ t.service \in Services /\ Lower[t.service] \in Bases
           /\ t.func_list \in Seq(Rpcs \cup {Echo})
<1>1. PICK p \in Protos : t = Parse(p) /\ Parse(p) # None
  BY DEF Trees
<1>2. /\ p.services \in Seq([name : Services, methods : Seq(Rpcs)])
      /\ p.services # << >>
  BY <1>1, ProtoAssumption DEF Parse, ParseProtoFile
<1>3. Head(p.services) \in [name : Services, methods : Seq(Rpcs)]
  BY <1>2, HeadIn
<1>4. t = [package |-> p.package, service |-> Head(p.services).name,
           func_list |-> <<Echo>> \o Head(p.services).methods]
  BY <1>1, <1>2 DEF Parse, ParseProtoFile, AddEcho
<1>5. <<Echo>> \o Head(p.services).methods \in Seq(Rpcs \cup {Echo})
  BY <1>3
<1> QED
  BY <1>3, <1>4, <1>5 DEF Bases

(* What main writes into the files it rewrites, and into three others. *)
LEMMA GenerateIs ==
    ASSUME NEW t
    PROVE  /\ Generate("service.h", t) = GenerateServiceHpp(t)
           /\ Generate("service.cpp", t) = GenerateServiceCpp(t)
           /\ Generate("method_names.h", t) = GenerateMethodNameHpp(t)
           /\ Generate("stub.h", t) = GenerateStubHpp(t)
           /\ Generate("stub.cpp", t) = GenerateStubCpp(t)
           /\ Generate("Makefile", t) = GenerateMakefile(t)
           /\ Generate("service_impl.h", t) = GenerateServiceImplHpp(t)
  BY DEF Generate

-----------------------------------------------------------------------------
(* The directory                                                           *)

LEMMA InitDirectory == ProjectInit => DirectoryInv
<1> SUFFICES ASSUME ProjectInit PROVE DirectoryInv
  OBVIOUS
<1> USE DEF ProjectInit, GenInit
<1>1. DOMAIN files = {}
  OBVIOUS
<1>2. GeneratorOK
  <2>1. step \in 1 .. Len(Blocks)
    BY BlocksAre
  <2>2. finished \in [Bases -> Trees \cup {None}]
    OBVIOUS
  <2> QED
    BY <2>1, <2>2, ProtoAssumption DEF GeneratorOK
<1>3. BeingWritten /\ RunningRun /\ WrittenKept
  BY DEF BeingWritten, RunningRun, WrittenKept
<1>4. FilesOK
  BY <1>1 DEF FilesOK
<1>5. FinishedRuns
  BY DEF FinishedRuns
<1> QED
  BY <1>2, <1>3, <1>4, <1>5 DEF DirectoryInv

(* Rewritten files that a step leaves alone, or takes away, still come     *)
(* from the tree they came from.                                           *)
LEMMA FromKept ==
    ASSUME NEW t, NEW S, From(t, S),
           \A s \in S \cap Rewritten :
             Whole(<<Lower[t.service], s>>)' =>
               /\ Whole(<<Lower[t.service], s>>)
               /\ files'[<<Lower[t.service], s>>] = files[<<Lower[t.service], s>>]
    PROVE  From(t, S)'
  BY DEF From, Text

(* Where the block that is next writes. *)
LEMMA BlockPathIs ==
    ASSUME GeneratorOK, tree # None
    PROVE  /\ BlockPath = <<BlockPath[1], Blocks[step]>>
           /\ Blocks[step] \in Rewritten => BlockPath[1] = Lower[tree.service]
           /\ tree \in Trees /\ Lower[tree.service] \in Bases
  BY TreesAre DEF BlockPath, FilePath, GeneratorOK, Rewritten

(* The end of a block: what it has rewritten comes from the tree, and      *)
(* after the last block the run is finished.                               *)
LEMMA BlockDone ==
    ASSUME DirectoryInv, tree # None, NextBlock,
           NEW t, t = tree, NEW S, S = {Blocks[j] : j \in 1 .. step}, From(t, S)',
           \A u \in Trees : From(u, Rewritten) /\ Lower[u.service] # Lower[t.service]
                              => From(u, Rewritten)'
    PROVE  /\ tree' \in Trees \cup {None} /\ step' \in 1 .. Len(Blocks)
           /\ finished' \in [Bases -> Trees \cup {None}]
           /\ FinishedRuns' /\ RunningRun'
<1> DEFINE base == Lower[tree.service]
<1>0. /\ tree \in Trees /\ base \in Bases
      /\ step \in 1 .. Len(Blocks) /\ Len(Blocks) = 14
      /\ finished \in [Bases -> Trees \cup {None}]
      /\ finished[base] = None
  BY BlockPathIs, BlocksAre DEF DirectoryInv, GeneratorOK, RunningRun
<1>3. ASSUME NEW b \in Bases, b # base, finished[b] # None, NEW u, u = finished[b]
      PROVE  From(u, Rewritten)' /\ Lower[u.service] = b
  BY <1>0, <1>3 DEF DirectoryInv, FinishedRuns
<1>4. CASE step = Len(Blocks)
  <2>1. tree' = None /\ step' = 1 /\ finished' = [finished EXCEPT ![base] = tree]
    BY <1>4 DEF NextBlock
  <2>2. From(t, Rewritten)'
    <3>1. Rewritten \subseteq S
      BY <1>4, BlocksDiffer
    <3> QED
      BY <3>1 DEF From
  <2>3. ASSUME NEW b \in Bases, finished'[b] # None, NEW u, u = finished'[b]
        PROVE  Lower[u.service] = b /\ From(u, Rewritten)'
    BY <1>0, <1>3, <2>1, <2>2, <2>3
  <2>4. FinishedRuns'
    <3> SUFFICES ASSUME NEW b \in Bases, finished'[b] # None
                 PROVE  Lower[finished'[b].service] = b /\ From(finished[b], Rewritten)'
      BY DEF FinishedRuns
    <3> QED
      BY <2>3 DEF From, Whole, Text
  <2> QED
    BY <1>0, <2>1, <2>4 DEF RunningRun
<1>5. CASE step # Len(Blocks)
  <2>1. tree' = tree /\ step' = step + 1 /\ finished' = finished
    BY <1>5 DEF NextBlock
  <2>2. FinishedRuns'
    <3> SUFFICES ASSUME NEW b \in Bases, finished[b] # None
                 PROVE  Lower[finished[b].service] = b /\ From(finished[b], Rewritten)'
      BY <2>1 DEF FinishedRuns
    <3>1. b # base
      BY <1>0
    <3> QED
      BY <1>3, <2>1, <3>1 DEF From, Whole, Text
  <2>3. RunningRun'
    <3>1. 1 .. step' - 1 = 1 .. step
      BY <1>0, <2>1
    <3>2. {Blocks[j] : j \in 1 .. step' - 1} = S
      BY <3>1
    <3> QED
      BY <1>0, <2>1, <3>2 DEF RunningRun, From, Whole, Text
  <2> QED
    BY <1>0, <1>5, <2>1, <2>2, <2>3
<1> QED
  BY <1>4, <1>5

(* The generator starts: nothing is written, and no run is finished for    *)
(* the service's files.                                                    *)
LEMMA StartDirectory == ASSUME DirectoryInv, StartGenerator, UNCHANGED devVars PROVE DirectoryInv'
<1> USE DEF StartGenerator, DirectoryInv, devVars
<1>1. tree' \in Trees /\ Lower[tree'.service] \in Bases
  <2>1. tree' \in Trees
    BY DEF GeneratorOK, Trees
  <2> QED
    BY <2>1, TreesAre
<1>2. GeneratorOK'
  <2>1. step' \in 1 .. Len(Blocks)
    BY BlocksAre
  <2>2. finished' \in [Bases -> Trees \cup {None}]
    BY DEF GeneratorOK
  <2> QED
    BY <1>1, <2>1, <2>2 DEF GeneratorOK
<1>3. BeingWritten'
  BY DEF BeingWritten
<1>4. FilesOK' /\ WrittenKept'
  BY DEF FilesOK, WrittenKept, Whole, Text
<1>5. FinishedRuns'
  <2> SUFFICES ASSUME NEW b \in Bases, finished'[b] # None
               PROVE  Lower[finished'[b].service] = b /\ From(finished[b], Rewritten)'
    BY DEF FinishedRuns
  <2>1. finished'[b] = finished[b]
    BY DEF GeneratorOK
  <2> QED
    BY <2>1 DEF FinishedRuns, From, Whole, Text
<1>6. RunningRun'
  <2>1. 1 .. step' - 1 = {}
    OBVIOUS
  <2>2. {Blocks[j] : j \in 1 .. step' - 1} = {}
    BY <2>1
  <2>3. finished'[Lower[tree'.service]] = None
    BY <1>1 DEF GeneratorOK
  <2> QED
    BY <2>2, <2>3 DEF RunningRun, From
<1> QED
  BY <1>2, <1>3, <1>4, <1>5, <1>6

(* A file of the developer's is there and is left alone. *)
LEMMA SkipDirectory == ASSUME DirectoryInv, Skip, UNCHANGED devVars PROVE DirectoryInv'
<1> USE DEF Skip, devVars
<1> DEFINE S == {Blocks[j] : j \in 1 .. step}
<1>1. Blocks[step] \notin Rewritten /\ step \in 1 .. Len(Blocks) /\ Len(Blocks) = 14
  BY BlocksAre DEF Writes, DirectoryInv, GeneratorOK
<1>2. S \cap Rewritten \subseteq {Blocks[j] : j \in 1 .. step - 1}
  BY <1>1
<1> HIDE DEF S
<1>3. PICK t : t = tree
  OBVIOUS
<1>4. PICK D : D = S
  OBVIOUS
<1>5. From(t, D)'
  <2>1. From(t, {Blocks[j] : j \in 1 .. step - 1})
    BY <1>3 DEF DirectoryInv, RunningRun
  <2> QED
    BY <1>2, <1>4, <2>1 DEF From, Whole, Text
<1>6. \A u \in Trees : From(u, Rewritten) => From(u, Rewritten)'
  BY DEF From, Whole, Text
<1>7. /\ tree' \in Trees \cup {None} /\ step' \in 1 .. Len(Blocks)
      /\ finished' \in [Bases -> Trees \cup {None}]
      /\ FinishedRuns' /\ RunningRun'
  BY <1>3, <1>4, <1>5, <1>6, BlockDone DEF S
<1>8. GeneratorOK' /\ BeingWritten'
  BY <1>7 DEF DirectoryInv, GeneratorOK, BeingWritten
<1>9. FilesOK' /\ WrittenKept'
  BY DEF DirectoryInv, FilesOK, WrittenKept, Whole, Text
<1> QED
  BY <1>7, <1>8, <1>9 DEF DirectoryInv

(* fopen empties a file that is rewritten, or makes one that is not there: *)
(* never one of the developer's.                                           *)
LEMMA TruncateDirectory == ASSUME DirectoryInv, Truncate, UNCHANGED devVars PROVE DirectoryInv'
<1> USE DEF Truncate, devVars
<1>1. ASSUME NEW path
      PROVE  Whole(path)' => path # BlockPath /\ Whole(path) /\ files'[path] = files[path]
  BY DEF Whole
<1>2. ASSUME NEW path, Whole(path), path # BlockPath
      PROVE  Whole(path)' /\ files'[path] = files[path]
  BY <1>2 DEF Whole
<1>3. GeneratorOK'
  BY DEF DirectoryInv, GeneratorOK
<1>4. BeingWritten'
  <2>1. BlockPath' = BlockPath
    BY DEF BlockPath
  <2> QED
    BY <2>1 DEF BeingWritten
<1>5. FilesOK'
  <2> SUFFICES ASSUME NEW path \in DOMAIN files'
               PROVE  /\ files'[path] = [whole |-> files'[path].whole, text |-> files'[path].text]
                      /\ files'[path].whole \in BOOLEAN
                      /\ files'[path].whole =>
                           /\ path[2] = "service_impl.h" => "overrides" \in DOMAIN files'[path].text
                           /\ path[2] \in {"service.cpp", "Makefile"} =>
                                \E t \in Trees : files'[path].text = Generate(path[2], t)
    BY DEF FilesOK
  <2>1. CASE path = BlockPath
    BY <2>1
  <2>2. CASE path # BlockPath
    <3>1. path \in DOMAIN files /\ files'[path] = files[path]
      BY <2>2
    <3> QED
      BY <3>1 DEF DirectoryInv, FilesOK
  <2> QED
    BY <2>1, <2>2
<1>6. \A u \in Trees : From(u, Rewritten) => From(u, Rewritten)'
  BY <1>1, FromKept
<1>7. FinishedRuns'
  <2> SUFFICES ASSUME NEW b \in Bases, finished[b] # None
               PROVE  Lower[finished[b].service] = b /\ From(finished[b], Rewritten)'
    BY DEF FinishedRuns
  <2>1. finished[b] \in Trees /\ finished' = finished
    BY DEF DirectoryInv, GeneratorOK
  <2> QED
    BY <1>6, <2>1 DEF DirectoryInv, FinishedRuns, From, Whole, Text
<1>8. RunningRun'
  <2>1. PICK t : t = tree
    OBVIOUS
  <2>2. PICK D : D = {Blocks[j] : j \in 1 .. step - 1}
    OBVIOUS
  <2>3. From(t, D)'
    BY <1>1, <2>1, <2>2, FromKept DEF DirectoryInv, RunningRun
  <2> QED
    BY <2>1, <2>2, <2>3 DEF DirectoryInv, RunningRun, From, Whole, Text
<1>9. WrittenKept'
  <2> SUFFICES ASSUME NEW w \in written
               PROVE  /\ w = <<w[1], w[2]>> /\ Whole(<<w[1], "service_impl.h">>)'
                      /\ w[2] \in files'[<<w[1], "service_impl.h">>].text.overrides
    BY DEF WrittenKept, Text
  <2>1. /\ w = <<w[1], w[2]>> /\ Whole(<<w[1], "service_impl.h">>)
        /\ w[2] \in files[<<w[1], "service_impl.h">>].text.overrides
    BY DEF DirectoryInv, WrittenKept, Text
  <2>2. <<w[1], "service_impl.h">> # BlockPath
    BY <2>1, BlockPathIs DEF DirectoryInv, Writes, Rewritten, Whole
  <2> QED
    BY <1>2, <2>1, <2>2
<1> QED
  BY <1>3, <1>4, <1>5, <1>7, <1>8, <1>9 DEF DirectoryInv

(* fclose: the file holds what main generates from the tree. *)
LEMMA CloseDirectory == ASSUME DirectoryInv, Close, UNCHANGED devVars PROVE DirectoryInv'
<1> USE DEF Close, devVars
<1>1. /\ tree # None /\ tree \in Trees /\ BlockPath \in DOMAIN files /\ ~files[BlockPath].whole
      /\ BlockPath = <<BlockPath[1], Blocks[step]>>
      /\ Blocks[step] \in Rewritten => BlockPath[1] = Lower[tree.service]
      /\ step \in 1 .. Len(Blocks) /\ Len(Blocks) = 14
  BY BlockPathIs, BlocksAre DEF DirectoryInv, GeneratorOK, BeingWritten
<1>2. /\ DOMAIN files' = DOMAIN files
      /\ files'[BlockPath] = [whole |-> TRUE, text |-> Generate(Blocks[step], tree)]
      /\ \A path \in DOMAIN files : path # BlockPath => files'[path] = files[path]
  BY <1>1
<1>3. ASSUME NEW path, path # BlockPath
      PROVE  (Whole(path)' <=> Whole(path)) /\ (Whole(path) => files'[path] = files[path])
  BY <1>2, <1>3 DEF Whole
<1>4. FilesOK'
  <2> SUFFICES ASSUME NEW path \in DOMAIN files'
               PROVE  /\ files'[path] = [whole |-> files'[path].whole, text |-> files'[path].text]
                      /\ files'[path].whole \in BOOLEAN
                      /\ files'[path].whole =>
                           /\ path[2] = "service_impl.h" => "overrides" \in DOMAIN files'[path].text
                           /\ path[2] \in {"service.cpp", "Makefile"} =>
                                \E t \in Trees : files'[path].text = Generate(path[2], t)
    BY DEF FilesOK
  <2>1. CASE path = BlockPath
    <3>1. path[2] = Blocks[step] /\ files'[path].text = Generate(path[2], tree)
      BY <1>1, <1>2, <2>1
    <3>2. "overrides" \in DOMAIN Generate("service_impl.h", tree)
      BY GenerateIs DEF GenerateServiceImplHpp
    <3> QED
      BY <1>1, <1>2, <2>1, <3>1, <3>2
  <2>2. CASE path # BlockPath
    <3>1. path \in DOMAIN files /\ files'[path] = files[path]
      BY <1>2, <2>2
    <3> QED
      BY <3>1 DEF DirectoryInv, FilesOK
  <2> QED
    BY <2>1, <2>2
<1>5. PICK t : t = tree
  OBVIOUS
<1>6. PICK S : S = {Blocks[j] : j \in 1 .. step}
  OBVIOUS
<1>7. From(t, S)'
  <2> SUFFICES ASSUME NEW s \in S \cap Rewritten, Whole(<<Lower[t.service], s>>)'
               PROVE  files'[<<Lower[t.service], s>>].text = Generate(s, t)
    BY DEF From, Text
  <2>1. CASE s = Blocks[step]
    <3>1. <<Lower[t.service], s>> = BlockPath
      BY <1>1, <1>5, <2>1
    <3> QED
      BY <1>2, <1>5, <2>1, <3>1
  <2>2. CASE s # Blocks[step]
    <3>1. s \in {Blocks[j] : j \in 1 .. step - 1}
      BY <1>1, <1>6, <2>2
    <3>2. <<Lower[t.service], s>> # BlockPath
      BY <1>1, <2>2
    <3>3. Whole(<<Lower[t.service], s>>) => files[<<Lower[t.service], s>>].text = Generate(s, t)
      BY <1>1, <1>5, <3>1 DEF DirectoryInv, RunningRun, From, Text
    <3> QED
      BY <1>3, <3>2, <3>3
  <2> QED
    BY <2>1, <2>2
<1>8. ASSUME NEW u \in Trees, From(u, Rewritten), Lower[u.service] # Lower[t.service]
      PROVE  From(u, Rewritten)'
  <2>1. \A s \in Rewritten : <<Lower[u.service], s>> # BlockPath
    BY <1>1, <1>5, <1>8
  <2> QED
    BY <1>3, <1>8, <2>1, FromKept
<1>9. /\ tree' \in Trees \cup {None} /\ step' \in 1 .. Len(Blocks)
      /\ finished' \in [Bases -> Trees \cup {None}]
      /\ FinishedRuns' /\ RunningRun'
  BY <1>1, <1>5, <1>6, <1>7, <1>8, BlockDone
<1>10. GeneratorOK' /\ BeingWritten'
  BY <1>9 DEF DirectoryInv, GeneratorOK, BeingWritten
<1>11. WrittenKept'
  <2> SUFFICES ASSUME NEW w \in written
               PROVE  /\ w = <<w[1], w[2]>> /\ Whole(<<w[1], "service_impl.h">>)'
                      /\ w[2] \in files'[<<w[1], "service_impl.h">>].text.overrides
    BY DEF WrittenKept, Text
  <2>1. /\ w = <<w[1], w[2]>> /\ Whole(<<w[1], "service_impl.h">>)
        /\ w[2] \in files[<<w[1], "service_impl.h">>].text.overrides
    BY DEF DirectoryInv, WrittenKept, Text
  <2>2. <<w[1], "service_impl.h">> # BlockPath
    BY <1>1, <2>1 DEF Whole
  <2> QED
    BY <1>3, <2>1, <2>2
<1> QED
  BY <1>4, <1>9, <1>10, <1>11 DEF DirectoryInv

(* A killed run is not finished, whatever it has written. *)
LEMMA KillDirectory == ASSUME DirectoryInv, Kill, UNCHANGED devVars PROVE DirectoryInv'
<1> USE DEF Kill, DirectoryInv, devVars
<1>1. GeneratorOK' /\ BeingWritten' /\ RunningRun'
  <2>1. step' \in 1 .. Len(Blocks)
    BY BlocksAre
  <2> QED
    BY <2>1 DEF GeneratorOK, BeingWritten, RunningRun
<1>2. FilesOK' /\ WrittenKept' /\ FinishedRuns'
  BY DEF FilesOK, WrittenKept, FinishedRuns, From, Whole, Text
<1> QED
  BY <1>1, <1>2

(* An edit while the generator does not run: it may touch any file but the *)
(* rewritten ones, service.cpp and the Makefile, which it can only remove. *)
LEMMA EditKeeps ==
    ASSUME DirectoryInv, Edit, proto' \in Protos, FilesOK', WrittenKept',
           \A b, s : s \in Rewritten /\ Whole(<<b, s>>)' =>
             Whole(<<b, s>>) /\ files'[<<b, s>>] = files[<<b, s>>]
    PROVE  DirectoryInv'
<1> USE DEF Edit
<1>1. GeneratorOK' /\ BeingWritten' /\ RunningRun'
  BY DEF DirectoryInv, GeneratorOK, BeingWritten, RunningRun
<1>2. FinishedRuns'
  <2> SUFFICES ASSUME NEW b \in Bases, finished[b] # None
               PROVE  Lower[finished[b].service] = b /\ From(finished[b], Rewritten)'
    BY DEF FinishedRuns
  <2>1. PICK t : t = finished[b] /\ From(t, Rewritten) /\ Lower[t.service] = b
    BY DEF DirectoryInv, FinishedRuns
  <2>2. From(t, Rewritten)'
    BY <2>1, FromKept
  <2> QED
    BY <2>1, <2>2 DEF From, Whole, Text
<1> QED
  BY <1>1, <1>2 DEF DirectoryInv

LEMMA EditProtoDirectory == ASSUME DirectoryInv, EditProto PROVE DirectoryInv'
<1>1. Edit /\ proto' \in Protos /\ files' = files /\ written' = written
  BY DEF EditProto
<1>2. FilesOK' /\ WrittenKept'
  BY <1>1 DEF DirectoryInv, FilesOK, WrittenKept, Whole, Text
<1>3. \A b, s : Whole(<<b, s>>)' => Whole(<<b, s>>) /\ files'[<<b, s>>] = files[<<b, s>>]
  BY <1>1 DEF Whole
<1> QED
  BY <1>1, <1>2, <1>3, EditKeeps

LEMMA ImplementDirectory ==
    ASSUME DirectoryInv, NEW base \in Bases, NEW f, Implement(base, f) PROVE DirectoryInv'
<1> DEFINE h == <<base, "service_impl.h">>
           k == <<base, "service_impl.cpp">>
<1>1. /\ Edit /\ proto' = proto /\ Whole(h) /\ Whole(k) /\ h # k
      /\ written' = written \cup {<<base, f>>}
      /\ files' = [files EXCEPT ![h].text.overrides = @ \cup {f},
                                ![k].text.defines = @ \cup {f}]
  BY DEF Implement
<1>2. \A path \in DOMAIN files :
        /\ files[path] = [whole |-> files[path].whole, text |-> files[path].text]
        /\ files[path].whole \in BOOLEAN
  BY DEF DirectoryInv, FilesOK
<1>3. h \in DOMAIN files /\ k \in DOMAIN files /\ "overrides" \in DOMAIN files[h].text
  BY <1>1 DEF DirectoryInv, FilesOK, Whole
<1>4. /\ DOMAIN files' = DOMAIN files
      /\ \A path \in DOMAIN files : path # h /\ path # k => files'[path] = files[path]
  BY <1>1
<1>5. files'[h] = [whole |-> files[h].whole,
                   text |-> [files[h].text EXCEPT !.overrides = @ \cup {f}]]
  <2>1. files'[h] = [files[h] EXCEPT !.text.overrides = @ \cup {f}]
    BY <1>1, <1>3
  <2>2. PICK r, x : r = files[h] /\ x = files[h].text
    OBVIOUS
  <2>3. files'[h] = [r EXCEPT !.text = [x EXCEPT !.overrides = @ \cup {f}]]
    BY <2>1, <2>2
  <2>4. r = [whole |-> files[h].whole, text |-> x]
    BY <1>2, <1>3, <2>2
  <2> QED
    BY <2>2, <2>3, <2>4
<1>6. files'[k] = [whole |-> files[k].whole,
                   text |-> [files[k].text EXCEPT !.defines = @ \cup {f}]]
  <2>1. files'[k] = [files[k] EXCEPT !.text.defines = @ \cup {f}]
    BY <1>1, <1>3
  <2>2. PICK r, x : r = files[k] /\ x = files[k].text
    OBVIOUS
  <2>3. files'[k] = [r EXCEPT !.text = [x EXCEPT !.defines = @ \cup {f}]]
    BY <2>1, <2>2
  <2>4. r = [whole |-> files[k].whole, text |-> x]
    BY <1>2, <1>3, <2>2
  <2> QED
    BY <2>2, <2>3, <2>4
<1>7. /\ DOMAIN files'[h].text = DOMAIN files[h].text
      /\ files'[h].text.overrides = files[h].text.overrides \cup {f}
  BY <1>3, <1>5
<1>8. ASSUME NEW path PROVE Whole(path)' <=> Whole(path)
  BY <1>3, <1>4, <1>5, <1>6 DEF Whole
<1> HIDE DEF h, k
<1>9. FilesOK'
  <2> SUFFICES ASSUME NEW path \in DOMAIN files
               PROVE  /\ files'[path] = [whole |-> files'[path].whole, text |-> files'[path].text]
                      /\ files'[path].whole \in BOOLEAN
                      /\ files'[path].whole =>
                           /\ path[2] = "service_impl.h" => "overrides" \in DOMAIN files'[path].text
                           /\ path[2] \in {"service.cpp", "Makefile"} =>
                                \E t \in Trees : files'[path].text = Generate(path[2], t)
    BY <1>4 DEF FilesOK
  <2>1. CASE path = h
    <3>1. path[2] = "service_impl.h"
      BY <2>1 DEF h
    <3> QED
      BY <1>2, <1>3, <1>5, <1>7, <2>1, <3>1
  <2>2. CASE path = k
    <3>1. path[2] = "service_impl.cpp"
      BY <2>2 DEF k
    <3> QED
      BY <1>2, <1>3, <1>6, <2>2, <3>1
  <2>3. CASE path # h /\ path # k
    BY <1>4, <2>3 DEF DirectoryInv, FilesOK
  <2> QED
    BY <2>1, <2>2, <2>3
<1>10. WrittenKept'
  <2> SUFFICES ASSUME NEW w \in written'
               PROVE  /\ w = <<w[1], w[2]>> /\ Whole(<<w[1], "service_impl.h">>)'
                      /\ w[2] \in files'[<<w[1], "service_impl.h">>].text.overrides
    BY DEF WrittenKept, Text
  <2>1. CASE w = <<base, f>>
    <3>1. <<w[1], "service_impl.h">> = h /\ w[2] = f /\ w = <<w[1], w[2]>>
      BY <2>1 DEF h
    <3> QED
      BY <1>1, <1>7, <1>8, <3>1
  <2>2. CASE w \in written
    <3>1. /\ w = <<w[1], w[2]>> /\ Whole(<<w[1], "service_impl.h">>)
          /\ w[2] \in files[<<w[1], "service_impl.h">>].text.overrides
      BY <2>2 DEF DirectoryInv, WrittenKept, Text
    <3>2. <<w[1], "service_impl.h">> # k /\ <<w[1], "service_impl.h">> \in DOMAIN files
      BY <3>1 DEF k, Whole
    <3> QED
      BY <1>4, <1>7, <1>8, <3>1, <3>2
  <2> QED
    BY <1>1, <2>1, <2>2
<1>11. ASSUME NEW b, NEW s, s \in Rewritten, Whole(<<b, s>>)'
       PROVE  Whole(<<b, s>>) /\ files'[<<b, s>>] = files[<<b, s>>]
  <2>1. <<b, s>> # h /\ <<b, s>> # k
    BY <1>11 DEF h, k, Rewritten
  <2>2. Whole(<<b, s>>) /\ <<b, s>> \in DOMAIN files
    BY <1>8, <1>11 DEF Whole
  <2> QED
    BY <1>4, <2>1, <2>2
<1>12. proto' \in Protos
  BY <1>1 DEF DirectoryInv, GeneratorOK
<1> QED
  BY <1>1, <1>9, <1>10, <1>11, <1>12, EditKeeps

LEMMA EditConfDirectory ==
    ASSUME DirectoryInv, NEW base \in Bases, NEW suffix \in {"server.conf", "client.conf"},
           NEW text, EditConf(base, suffix, text)
    PROVE  DirectoryInv'
<1> DEFINE c == <<base, suffix>>
<1>1. /\ Edit /\ proto' = proto /\ written' = written /\ c \in DOMAIN files
      /\ DOMAIN files' = DOMAIN files
      /\ files'[c] = [whole |-> TRUE, text |-> text]
      /\ \A path \in DOMAIN files : path # c => files'[path] = files[path]
  BY DEF EditConf
<1>2. FilesOK'
  <2> SUFFICES ASSUME NEW path \in DOMAIN files
               PROVE  /\ files'[path] = [whole |-> files'[path].whole, text |-> files'[path].text]
                      /\ files'[path].whole \in BOOLEAN
                      /\ files'[path].whole =>
                           /\ path[2] = "service_impl.h" => "overrides" \in DOMAIN files'[path].text
                           /\ path[2] \in {"service.cpp", "Makefile"} =>
                                \E t \in Trees : files'[path].text = Generate(path[2], t)
    BY <1>1 DEF FilesOK
  <2>1. CASE path = c
    <3>1. path[2] # "service_impl.h" /\ path[2] \notin {"service.cpp", "Makefile"}
      BY <2>1
    <3>2. files'[path] = [whole |-> TRUE, text |-> text]
      BY <1>1, <2>1
    <3> HIDE DEF c
    <3> QED
      BY <3>1, <3>2
  <2>2. CASE path # c
    <3>1. files'[path] = files[path]
      BY <1>1, <2>2
    <3> QED
      BY <3>1 DEF DirectoryInv, FilesOK
  <2> QED
    BY <2>1, <2>2
<1>3. ASSUME NEW b, NEW s, s \notin {"server.conf", "client.conf"}
      PROVE  /\ Whole(<<b, s>>)' <=> Whole(<<b, s>>)
             /\ Whole(<<b, s>>) => files'[<<b, s>>] = files[<<b, s>>]
  BY <1>1, <1>3 DEF Whole
<1>4. WrittenKept'
  <2> SUFFICES ASSUME NEW w \in written
               PROVE  /\ w = <<w[1], w[2]>> /\ Whole(<<w[1], "service_impl.h">>)'
                      /\ w[2] \in files'[<<w[1], "service_impl.h">>].text.overrides
    BY <1>1 DEF WrittenKept, Text
  <2>1. /\ w = <<w[1], w[2]>> /\ Whole(<<w[1], "service_impl.h">>)
        /\ w[2] \in files[<<w[1], "service_impl.h">>].text.overrides
    BY DEF DirectoryInv, WrittenKept, Text
  <2> QED
    BY <1>3, <2>1
<1>5. proto' \in Protos
  BY <1>1 DEF DirectoryInv, GeneratorOK
<1>6. \A b, s : s \in Rewritten /\ Whole(<<b, s>>)' =>
        Whole(<<b, s>>) /\ files'[<<b, s>>] = files[<<b, s>>]
  BY <1>3 DEF Rewritten
<1> QED
  BY <1>1, <1>2, <1>4, <1>5, <1>6, EditKeeps

LEMMA RemoveDirectory ==
    ASSUME DirectoryInv, NEW path \in DOMAIN files, RemoveFile(path) PROVE DirectoryInv'
<1>1. /\ Edit /\ proto' = proto
      /\ DOMAIN files' = DOMAIN files \ {path}
      /\ \A p \in DOMAIN files \ {path} : files'[p] = files[p]
      /\ written' \subseteq written
      /\ path[2] = "service_impl.h" => \A w \in written' : w[1] # path[1]
  BY DEF RemoveFile
<1>2. FilesOK'
  BY <1>1 DEF DirectoryInv, FilesOK
<1>3. ASSUME NEW p
      PROVE  /\ Whole(p)' <=> Whole(p) /\ p # path
             /\ Whole(p)' => files'[p] = files[p]
  BY <1>1 DEF Whole
<1>4. WrittenKept'
  <2> SUFFICES ASSUME NEW w \in written'
               PROVE  /\ w = <<w[1], w[2]>> /\ Whole(<<w[1], "service_impl.h">>)'
                      /\ w[2] \in files'[<<w[1], "service_impl.h">>].text.overrides
    BY DEF WrittenKept, Text
  <2>1. /\ w = <<w[1], w[2]>> /\ Whole(<<w[1], "service_impl.h">>)
        /\ w[2] \in files[<<w[1], "service_impl.h">>].text.overrides
    BY <1>1 DEF DirectoryInv, WrittenKept, Text
  <2>2. <<w[1], "service_impl.h">> # path
    BY <1>1
  <2> QED
    BY <1>3, <2>1, <2>2
<1>5. proto' \in Protos
  BY <1>1 DEF DirectoryInv, GeneratorOK
<1> QED
  BY <1>1, <1>2, <1>3, <1>4, <1>5, EditKeeps

LEMMA DeveloperDirectory == ASSUME DirectoryInv, Developer PROVE DirectoryInv'
  BY EditProtoDirectory, ImplementDirectory, EditConfDirectory, RemoveDirectory DEF Developer

-----------------------------------------------------------------------------
(* The programs                                                            *)

(* Nothing that leaves the executables alone, ends the call and keeps or   *)
(* stops the server harms them.                                            *)
LEMMA ProgramsKept ==
    ASSUME ProgramsInv, UNCHANGED exeVars, process' = process \/ process' = None, session' = None
    PROVE  ProgramsInv'
<1> USE DEF exeVars
<1>1. ServerMatches' /\ ClientMatches' /\ DevelopersCodeRuns'
  BY DEF ProgramsInv, ServerMatches, ClientMatches, DevelopersCodeRuns
<1>2. ProcessOfServer' /\ RightFunction' /\ StartsLegal'
  BY DEF ProgramsInv, ProcessOfServer, AddMethodExits, RightFunction, StartsLegal
<1> QED
  BY <1>1, <1>2 DEF ProgramsInv

(* The Makefile names the files of one service. *)
LEMMA MakefileIs ==
    ASSUME DirectoryInv, Whole(MakefilePath)
    PROVE  /\ Base \in Bases
           /\ <<Base, "service.cpp">> \in files[MakefilePath].text.server
           /\ <<Base, "stub.cpp">> \in files[MakefilePath].text.client
<1>1. MakefilePath \in DOMAIN files /\ files[MakefilePath].whole /\ MakefilePath[2] = "Makefile"
  BY DEF Whole, MakefilePath
<1>2. PICK t \in Trees : files[MakefilePath].text = GenerateMakefile(t)
  BY <1>1, GenerateIs DEF DirectoryInv, FilesOK
<1> QED
  BY <1>2, TreesAre DEF Base, GenerateMakefile, FilePath

(* A server that make builds has the functions of the finished run, and    *)
(* dispatches what the developer has implemented to him.                   *)
LEMMA MakeServerPrograms ==
    ASSUME DirectoryInv, ProgramsInv, MakeServer PROVE ProgramsInv'
<1> DEFINE hpp == Text(Base, "service.h")
           cpp == Text(Base, "service.cpp")
           names == Text(Base, "method_names.h").names
           overrides == Text(Base, "service_impl.h").overrides
<1>1. /\ Whole(MakefilePath) /\ \A path \in files[MakefilePath].text.server : Whole(path)
      /\ Whole(<<Base, "service.h">>) /\ Whole(<<Base, "method_names.h">>)
      /\ cpp.defines = hpp.declares /\ OneFunctionPerName(hpp.declares)
      /\ overrides \subseteq ToSet(hpp.declares)
  BY DEF MakeServer, ServerLinks
<1>2. Base \in Bases /\ Whole(<<Base, "service.cpp">>)
  BY <1>1, MakefileIs
<1>3. server' = [name |-> Base,
                 methods |-> [i \in DOMAIN cpp.adds |->
                                [name |-> NameAt(names, cpp.adds[i].index),
                                 handler |-> cpp.adds[i].handler,
                                 implemented |-> cpp.adds[i].handler \in overrides]],
                 written |-> {w[2] : w \in {v \in written : v[1] = Base}},
                 tree |-> finished[Base]]
  BY DEF MakeServer
<1>4. process' = None /\ session' = None /\ client' = client
  BY DEF MakeServer
<1> HIDE DEF names, overrides
<1>5. ServerMatches'
  <2> SUFFICES ASSUME finished[Base] # None, NEW t, t = finished[Base]
               PROVE  /\ t \in Trees /\ OneFunctionPerName(ServiceFuncs(t))
                      /\ DOMAIN server'.methods = DOMAIN t.func_list
                      /\ \A i \in DOMAIN t.func_list :
                           /\ server'.methods[i].name = MethodNames(t)[i]
                           /\ server'.methods[i].handler = ServiceFuncs(t)[i]
    BY <1>3 DEF ServerMatches
  <2>1. t \in Trees /\ Lower[t.service] = Base /\ From(t, Rewritten)
    BY <1>2 DEF DirectoryInv, GeneratorOK, FinishedRuns
  <2>2. /\ hpp = GenerateServiceHpp(t) /\ cpp = GenerateServiceCpp(t)
        /\ names = MethodNames(t)
    <3>1. "service.h" \in Rewritten /\ "service.cpp" \in Rewritten /\ "method_names.h" \in Rewritten
      BY DEF Rewritten
    <3>2. Text(Base, "method_names.h") = GenerateMethodNameHpp(t)
      BY <1>1, <2>1, <3>1, GenerateIs DEF From
    <3> QED
      BY <1>1, <1>2, <2>1, <3>1, <3>2, GenerateIs DEF From, GenerateMethodNameHpp, names
  <2>3. /\ cpp.adds = [i \in DOMAIN t.func_list |-> [index |-> i, handler |-> ServiceFuncs(t)[i]]]
        /\ hpp.declares = ServiceFuncs(t)
    BY <2>2 DEF GenerateServiceCpp, GenerateServiceHpp
  <2> HIDE DEF hpp, cpp
  <2>4. ASSUME NEW i \in DOMAIN t.func_list PROVE NameAt(names, i) = MethodNames(t)[i]
    BY <2>2 DEF NameAt, MethodNames
  <2> QED
    BY <1>1, <1>3, <2>1, <2>3, <2>4
<1>6. DevelopersCodeRuns'
  <2> SUFFICES ASSUME NEW f \in server'.written
               PROVE  \E i \in DOMAIN server'.methods :
                        server'.methods[i].handler = f /\ server'.methods[i].implemented
    BY DEF DevelopersCodeRuns
  <2>1. PICK w \in written : w[1] = Base /\ w[2] = f
    BY <1>3
  <2>2. f \in overrides
    BY <2>1 DEF DirectoryInv, WrittenKept, overrides
  <2>3. PICK t \in Trees : cpp = GenerateServiceCpp(t)
    <3>1. /\ <<Base, "service.cpp">>[2] = "service.cpp" /\ <<Base, "service.cpp">> \in DOMAIN files
          /\ files[<<Base, "service.cpp">>].whole
      BY <1>2 DEF Whole
    <3> QED
      BY <3>1, GenerateIs DEF DirectoryInv, FilesOK, Text
  <2>4. /\ cpp.adds = [i \in DOMAIN t.func_list |-> [index |-> i, handler |-> ServiceFuncs(t)[i]]]
        /\ cpp.defines = ServiceFuncs(t) /\ DOMAIN ServiceFuncs(t) = DOMAIN t.func_list
    BY <2>3 DEF GenerateServiceCpp, ServiceFuncs
  <2> HIDE DEF hpp, cpp
  <2>5. f \in ToSet(ServiceFuncs(t))
    BY <1>1, <2>2, <2>4
  <2>6. PICK i \in DOMAIN t.func_list : ServiceFuncs(t)[i] = f
    BY <2>4, <2>5 DEF ToSet
  <2>7. i \in DOMAIN server'.methods /\ server'.methods[i].handler = f
        /\ server'.methods[i].implemented = (f \in overrides)
    BY <1>3, <2>4, <2>6
  <2> QED
    BY <2>2, <2>7
<1>7. ClientMatches' /\ ProcessOfServer' /\ RightFunction' /\ StartsLegal'
  BY <1>4 DEF ProgramsInv, ClientMatches, ProcessOfServer, RightFunction, StartsLegal
<1> QED
  BY <1>5, <1>6, <1>7 DEF ProgramsInv

(* A client that make builds has the functions of the finished run. *)
LEMMA MakeClientPrograms ==
    ASSUME DirectoryInv, ProgramsInv, MakeClient PROVE ProgramsInv'
<1> DEFINE cpp == Text(Base, "stub.cpp")
           names == Text(Base, "method_names.h").names
<1>1. /\ Whole(MakefilePath) /\ \A path \in files[MakefilePath].text.client : Whole(path)
      /\ Whole(<<Base, "method_names.h">>)
  BY DEF MakeClient, ClientLinks
<1>2. Base \in Bases /\ Whole(<<Base, "stub.cpp">>)
  BY <1>1, MakefileIs
<1>3. client' = [methods |-> [i \in DOMAIN cpp.methods |->
                                [name |-> NameAt(names, cpp.methods[i].index),
                                 func |-> cpp.methods[i].func]],
                 conf |-> Text(Base, "client_main.cpp").conf,
                 tree |-> finished[Base]]
  BY DEF MakeClient
<1>4. session' = None /\ server' = server /\ process' = process
  BY DEF MakeClient
<1> HIDE DEF names
<1>5. ClientMatches'
  <2> SUFFICES ASSUME finished[Base] # None, NEW t, t = finished[Base]
               PROVE  /\ t \in Trees
                      /\ DOMAIN client'.methods = DOMAIN t.func_list
                      /\ \A i \in DOMAIN t.func_list :
                           /\ client'.methods[i].name = MethodNames(t)[i]
                           /\ client'.methods[i].func = StubFuncs(t)[i]
    BY <1>3 DEF ClientMatches
  <2>1. t \in Trees /\ Lower[t.service] = Base /\ From(t, Rewritten)
    BY <1>2 DEF DirectoryInv, GeneratorOK, FinishedRuns
  <2>2. cpp = GenerateStubCpp(t) /\ names = MethodNames(t)
    <3>1. "stub.cpp" \in Rewritten /\ "method_names.h" \in Rewritten
      BY DEF Rewritten
    <3>2. Text(Base, "method_names.h") = GenerateMethodNameHpp(t)
      BY <1>1, <2>1, <3>1, GenerateIs DEF From
    <3> QED
      BY <1>2, <2>1, <3>1, <3>2, GenerateIs DEF From, GenerateMethodNameHpp, names
  <2>3. cpp.methods = [i \in DOMAIN t.func_list |-> [index |-> i, func |-> StubFuncs(t)[i]]]
    BY <2>2 DEF GenerateStubCpp
  <2> HIDE DEF cpp
  <2>4. ASSUME NEW i \in DOMAIN t.func_list PROVE NameAt(names, i) = MethodNames(t)[i]
    BY <2>2 DEF NameAt, MethodNames
  <2> QED
    BY <1>3, <2>1, <2>3, <2>4
<1>6. /\ ServerMatches' /\ ProcessOfServer' /\ RightFunction'
      /\ DevelopersCodeRuns' /\ StartsLegal'
  BY <1>4 DEF ProgramsInv, ServerMatches, ProcessOfServer, AddMethodExits, RightFunction, DevelopersCodeRuns,
              StartsLegal
<1> QED
  BY <1>5, <1>6 DEF ProgramsInv

(* The size CircBuf's constructor makes of a configured size. *)
LEMMA RingSizeIs ==
    ASSUME NEW n \in Int, n >= 2, n <= Pow2[Bits]
    PROVE  RingSize(n) >= 2 /\ \E k \in 1 .. Bits : RingSize(n) = Pow2[k]
<1>1. PICK m \in 0 .. Bits : RoundUpPowOfTwo(n) = Pow2[m]
  BY RoundUpEnough
<1>2. RoundUpPowOfTwo(n) \in Nat /\ RoundUpPowOfTwo(n) >= 2
  <2>1. n \in Nat /\ n # 0
    OBVIOUS
  <2> QED
    BY <2>1, RoundUpEnough
<1>3. Pow2[0] = 1
  BY Pow2Def
<1>4. m # 0
  BY <1>1, <1>2, <1>3
<1>5. RingSize(n) = Pow2[m] /\ RingSize(n) >= 2
  BY <1>1, <1>2 DEF RingSize
<1>6. m \in 1 .. Bits
  BY <1>4, BitsAssumption
<1> QED
  BY <1>5, <1>6

(* atoi returns a number, whatever it is given. *)
LEMMA AtoiInt == ASSUME NEW text PROVE atoi(text) \in Int /\ atoi(text) <= Pow2[Bits]
<1>1. Pow2[Bits] \in Nat
  BY Pow2Def, BitsAssumption
<1> QED
  BY <1>1, NumeralAssumption DEF atoi

(* What Server::Start builds from a configuration that was not rejected.   *)
LEMMA StartBuilds ==
    ASSUME NEW path, NEW hardware \in Nat, NEW option \in Int, NEW read,
           read = ServerReadConfigFile(files, path, hardware), read # None,
           NEW s, s = PoolAndRing(SetLogLevel(read, option), hardware)
    PROVE  /\ s.ring >= 2 /\ \E k \in 1 .. Bits : s.ring = Pow2[k]
           /\ 1 <= s.core /\ s.core <= s.max
           /\ s.loops >= 1
           /\ s.production = "SINGLE_THREAD" <=> s.loops = 1
           /\ s.level \in 1 .. 4
<1>1. PICK p : p = ParserInit(files, path)
  OBVIOUS
<1> DEFINE loops == GetInt(p, "Server", "EventLoopCnt")
           size == GetInt(p, "Server", "CircbufSize")
           level == GetInt(p, "Log", "LogLevel")
           core == CorePoolSize(GetInt(p, "Server", "WorkerPoolCorePoolSize"), hardware)
           max == MaxPoolSize(GetInt(p, "Server", "WorkerPoolMaxPoolSize"), core)
<1>2. /\ read.loops = loops /\ read.circbuf = size /\ read.level = level
      /\ read.core = core /\ read.max = max
      /\ read = [ip |-> read.ip, port |-> read.port, loops |-> read.loops, core |-> read.core,
                 max |-> read.max, circbuf |-> read.circbuf, level |-> read.level]
      /\ ~ServerConfigRejected(p)
  BY <1>1 DEF ServerReadConfigFile
<1>3. ~(loops <= 0) /\ ~(size < 2) /\ level \in 1 .. 4
  BY <1>2 DEF ServerConfigRejected
<1>4. /\ loops \in Int /\ size \in Int /\ size <= Pow2[Bits]
      /\ GetInt(p, "Server", "WorkerPoolCorePoolSize") \in Int
      /\ GetInt(p, "Server", "WorkerPoolMaxPoolSize") \in Int
  BY AtoiInt DEF GetInt
<1>5. core \in Int
  BY <1>4 DEF CorePoolSize
<1>6. max \in Int
  BY <1>4, <1>5 DEF MaxPoolSize
<1> HIDE DEF loops, size, level, core, max
<1>7. PICK r : r = SetLogLevel(read, option)
  OBVIOUS
<1>8. /\ r.loops = loops /\ r.circbuf = size /\ r.core = core /\ r.max = max
      /\ r.level \in 1 .. 4
  BY <1>2, <1>3, <1>7 DEF SetLogLevel
<1>9. LET pool == ThreadPoolSizes(core, max, hardware)
      IN  1 <= pool.core /\ pool.core <= pool.max
  BY <1>5, <1>6 DEF ThreadPoolSizes
<1>10. /\ s.core = ThreadPoolSizes(core, max, hardware).core
       /\ s.max = ThreadPoolSizes(core, max, hardware).max
       /\ s.loops = loops /\ s.ring = RingSize(size) /\ s.level = r.level
       /\ s.production = IF loops > 1 THEN "MUTIL_THREADS" ELSE "SINGLE_THREAD"
  BY <1>7, <1>8 DEF PoolAndRing
<1>11. s.ring >= 2 /\ \E k \in 1 .. Bits : s.ring = Pow2[k]
  BY <1>3, <1>4, <1>10, RingSizeIs
<1>12. s.loops >= 1 /\ (s.production = "SINGLE_THREAD" <=> s.loops = 1)
  BY <1>3, <1>4, <1>10
<1> QED
  BY <1>8, <1>9, <1>10, <1>11, <1>12

LEMMA RunServerPrograms == ASSUME ProgramsInv, RunServer PROVE ProgramsInv'
<1>1. /\ server # None /\ server' = server /\ client' = client /\ session' = None
  BY DEF RunServer, exeVars
<1>2. StartsLegal'
  <2> SUFFICES ASSUME process' # None, NEW s, s = process'
               PROVE  /\ s.ring >= 2 /\ \E k \in 1 .. Bits : s.ring = Pow2[k]
                      /\ 1 <= s.core /\ s.core <= s.max
                      /\ s.loops >= 1
                      /\ s.production = "SINGLE_THREAD" <=> s.loops = 1
                      /\ s.level \in 1 .. 4
    BY DEF StartsLegal
  <2>1. PICK hardware \in Hardware, option \in LogOptions :
          LET read == ServerReadConfigFile(files, <<server.name, "server.conf">>, hardware)
          IN  process' =
                IF \/ read = None
                   \/ AddMethodExits(server.methods)
                   \/ read.ip \notin LocalIps
                  THEN None
                  ELSE PoolAndRing(SetLogLevel(read, option), hardware)
    BY DEF RunServer
  <2>2. PICK read : read = ServerReadConfigFile(files, <<server.name, "server.conf">>, hardware)
    OBVIOUS
  <2>3. read # None /\ s = PoolAndRing(SetLogLevel(read, option), hardware)
    BY <2>1, <2>2
  <2>4. hardware \in Nat /\ option \in Int
    BY HostAssumption
  <2> QED
    BY <2>2, <2>3, <2>4, StartBuilds
<1>3. ServerMatches' /\ ClientMatches' /\ RightFunction' /\ DevelopersCodeRuns'
  BY <1>1 DEF ProgramsInv, ServerMatches, ClientMatches, RightFunction, DevelopersCodeRuns
<1>4. AddMethodExits(server.methods) => process' = None
  BY DEF RunServer
<1>5. ProcessOfServer'
  BY <1>1, <1>4 DEF ProcessOfServer, AddMethodExits
<1> QED
  BY <1>2, <1>3, <1>5 DEF ProgramsInv

(* A call goes by the hash code of the name that both executables took     *)
(* from their own array at the position of the function; no two methods of *)
(* a server that runs have the same.                                       *)
LEMMA RunClientPrograms == ASSUME ProgramsInv, RunClient PROVE ProgramsInv'
<1>1. /\ client # None /\ process # None
      /\ server' = server /\ client' = client /\ process' = process
  BY DEF RunClient, exeVars
<1>2. RightFunction'
  <2>1. PICK c \in DOMAIN client.methods :
          session' = [func |-> client.methods[c].func,
                      reached |-> CallMethod(server, HashCode(client.methods[c].name)),
                      from |-> client.tree, at |-> server.tree]
    BY DEF RunClient
  <2>2. PICK t, u, name : /\ t = client.tree /\ u = server.tree
                          /\ name = <<t.package, t.service, client.methods[c].func.name>>
    OBVIOUS
  <2> DEFINE NameOf(f) == <<u.package, u.service, f.name>>
             named == {f \in ToSet(ServiceFuncs(u)) : NameOf(f) = name}
             alike == {f \in ToSet(ServiceFuncs(u)) : HashCode(NameOf(f)) = HashCode(name)}
             reached == CallMethod(server, HashCode(client.methods[c].name))
             found == {i \in DOMAIN server.methods :
                         HashCode(server.methods[i].name) = HashCode(client.methods[c].name)}
  <2> SUFFICES ASSUME t # None, u # None
               PROVE  /\ named # {} => named = {reached}
                      /\ IF reached = None THEN alike = {} ELSE alike = {reached}
    BY <2>1, <2>2 DEF RightFunction
  <2>3. /\ t \in Trees /\ c \in DOMAIN t.func_list
        /\ client.methods[c].name = MethodNames(t)[c]
        /\ client.methods[c].func = StubFuncs(t)[c]
    BY <1>1, <2>1, <2>2 DEF ProgramsInv, ClientMatches
  <2>4. /\ u \in Trees
        /\ DOMAIN server.methods = DOMAIN u.func_list
        /\ \A i \in DOMAIN u.func_list :
             /\ server.methods[i].name = MethodNames(u)[i]
             /\ server.methods[i].handler = ServiceFuncs(u)[i]
    BY <1>1, <2>2 DEF ProgramsInv, ProcessOfServer, ServerMatches
  <2>5. client.methods[c].name = name
    BY <2>2, <2>3 DEF MethodNames, StubFuncs, StubFuncDeclaration
  <2>6. /\ DOMAIN ServiceFuncs(u) = DOMAIN u.func_list
        /\ \A i \in DOMAIN u.func_list : MethodNames(u)[i] = NameOf(ServiceFuncs(u)[i])
    BY DEF MethodNames, ServiceFuncs, ServiceFuncDeclaration
  <2>7. \A i \in DOMAIN u.func_list : ServiceFuncs(u)[i] # None
    <3> SUFFICES ASSUME NEW i \in DOMAIN u.func_list PROVE ServiceFuncs(u)[i] # None
      OBVIOUS
    <3>1. u.func_list[i] \in Rpcs \cup {Echo}
      BY <2>4, TreesAre
    <3> QED
      BY <3>1, NoneAssumption DEF ServiceFuncs
  <2> HIDE DEF NameOf
  <2>8. \A i \in DOMAIN u.func_list : server.methods[i].name = NameOf(ServiceFuncs(u)[i])
    BY <2>4, <2>6
  <2>9. alike = {ServiceFuncs(u)[i] : i \in found}
    BY <2>4, <2>5, <2>6, <2>8 DEF ToSet
  <2>10. \A i, j \in found : i = j
    BY <1>1 DEF ProgramsInv, ProcessOfServer, AddMethodExits
  <2>11. reached = IF found = {} THEN None
                   ELSE server.methods[CHOOSE i \in found : TRUE].handler
    BY DEF CallMethod
  <2>12. named \subseteq alike
    OBVIOUS
  <2>13. found \subseteq DOMAIN u.func_list
    BY <2>4
  <2> HIDE DEF found, named, alike, reached
  <2>14. CASE found = {}
    BY <2>9, <2>11, <2>12, <2>14
  <2>15. CASE found # {}
    <3>1. PICK i : i = CHOOSE j \in found : TRUE
      OBVIOUS
    <3>2. i \in found /\ i \in DOMAIN u.func_list
      BY <2>13, <2>15, <3>1
    <3>3. reached = ServiceFuncs(u)[i] /\ reached # None
      BY <2>4, <2>7, <2>11, <2>15, <3>1, <3>2
    <3>4. alike = {reached}
      BY <2>9, <2>10, <3>2, <3>3
    <3> QED
      BY <2>12, <3>3, <3>4
  <2> QED
    BY <2>14, <2>15
<1>3. /\ ServerMatches' /\ ClientMatches' /\ ProcessOfServer'
      /\ DevelopersCodeRuns' /\ StartsLegal'
  BY <1>1 DEF ProgramsInv, ServerMatches, ClientMatches, ProcessOfServer, AddMethodExits,
              DevelopersCodeRuns, StartsLegal
<1> QED
  BY <1>2, <1>3 DEF ProgramsInv

-----------------------------------------------------------------------------
(* Directory and programs keep their invariant, whatever the developer     *)
(* edits and removes and wherever the generator is killed.                 *)
THEOREM ProjectInvariance == ProjectSpec => []ProjectInv
<1>1. ProjectInit => ProjectInv
  <2> SUFFICES ASSUME ProjectInit PROVE ProgramsInv
    BY InitDirectory DEF ProjectInv
  <2> QED
    BY DEF ProjectInit, ProgramsInv, ServerMatches, ClientMatches, ProcessOfServer,
           RightFunction, DevelopersCodeRuns, StartsLegal
<1>2. ProjectInv /\ [ProjectNext]_projectVars => ProjectInv'
  <2> SUFFICES ASSUME DirectoryInv, ProgramsInv, [ProjectNext]_projectVars
               PROVE  DirectoryInv' /\ ProgramsInv'
    BY DEF ProjectInv
  <2>1. CASE GenNext /\ process' = None /\ session' = None /\ UNCHANGED <<devVars, exeVars>>
    <3>1. DirectoryInv'
      BY <2>1, StartDirectory, SkipDirectory, TruncateDirectory, CloseDirectory, KillDirectory
         DEF GenNext
    <3> QED
      BY <2>1, <3>1, ProgramsKept
  <2>2. CASE Developer
    <3>1. UNCHANGED exeVars /\ process' = process /\ session' = None
      BY <2>2 DEF Developer, EditProto, Implement, EditConf, RemoveFile, Edit
    <3> QED
      BY <2>2, <3>1, DeveloperDirectory, ProgramsKept
  <2>3. ASSUME UNCHANGED <<genVars, devVars>> PROVE DirectoryInv'
    BY <2>3 DEF genVars, devVars, DirectoryInv, GeneratorOK, BeingWritten, BlockPath, FilesOK,
                FinishedRuns, RunningRun, WrittenKept, From, Whole, Text
  <2>4. CASE MakeServer
    BY <2>3, <2>4, MakeServerPrograms DEF MakeServer
  <2>5. CASE MakeClient
    BY <2>3, <2>5, MakeClientPrograms DEF MakeClient
  <2>6. CASE RunServer
    BY <2>3, <2>6, RunServerPrograms DEF RunServer
  <2>7. CASE RunClient
    BY <2>3, <2>7, RunClientPrograms DEF RunClient
  <2>8. CASE UNCHANGED projectVars
    <3>1. UNCHANGED <<genVars, devVars>> /\ UNCHANGED <<exeVars, process, session>>
      BY <2>8 DEF projectVars
    <3>2. ProgramsInv'
      BY <3>1 DEF exeVars, ProgramsInv, ServerMatches, ClientMatches, ProcessOfServer,
                  AddMethodExits, RightFunction, DevelopersCodeRuns, StartsLegal
    <3> QED
      BY <2>3, <3>1, <3>2
  <2> QED
    BY <2>1, <2>2, <2>4, <2>5, <2>6, <2>7, <2>8 DEF ProjectNext
<1> QED
  BY <1>1, <1>2, PTL DEF ProjectSpec

(* Whatever the hash function, a call between executables of finished runs *)
(* reaches the function of its name if the server has one, and otherwise   *)
(* METHOD_NOT_EXIST or the one function whose name has the same hash code  *)
(* (Service::CallMethod and AddMethod, with the names GenerateServiceCpp   *)
(* and GenerateStubCpp take by position).                                  *)
THEOREM CallsReachTheirFunction == ProjectSpec => []RightFunction
<1>1. ProjectInv => RightFunction
  BY DEF ProjectInv, ProgramsInv
<1> QED
  BY <1>1, ProjectInvariance, PTL

(* No run of the generator, finished or killed, takes an implementation    *)
(* away: main skips service_impl.h and service_impl.cpp once they exist.   *)
THEOREM ImplementationsSurvive == ProjectSpec => []DevelopersCodeRuns
<1>1. ProjectInv => DevelopersCodeRuns
  BY DEF ProjectInv, ProgramsInv
<1> QED
  BY <1>1, ProjectInvariance, PTL

(* Whatever .conf file a server starts with, on whatever hardware, its     *)
(* rings and its pool are as CircBuf and ThreadPool assume them            *)
(* (ServerConfig::ReadConfigFile and the constructors' defaults).          *)
THEOREM StartedServersLegal == ProjectSpec => []StartsLegal
<1>1. ProjectInv => StartsLegal
  BY DEF ProjectInv, ProgramsInv
<1> QED
  BY <1>1, ProjectInvariance, PTL
=============================================================================
