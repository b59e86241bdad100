---------------------------- MODULE ArtifactsProofs ----------------------------
(* Proofs about Artifacts, for every value of its constants. *)
EXTENDS Artifacts, SumProofs, SequenceTheorems, TLAPS

-----------------------------------------------------------------------------
(* The inductive invariant.                                                 *)

Inode == [len : Nat, data : 0 .. 1, links : 0 .. 2, blocks : Nat]
Written == [len : Nat, data : 0 .. 1]
Reports == [output : DOMAIN outputs, content : Written]

Phases == {"plan", "stageInput", "copy", "stageOutput", "validate", "stat", "open", "mount",
           "guest", "inspect", "hash", "read", "done", "refused"}
Refusals == {"none", "plan", "limit", "source", "collision", "aborted", "native", "alarm",
             "collect"}

\* What the other process does.
Hows == {"replaced", "written", "source", "unseen", "loosened"}

TypeInv ==
    /\ request \in Requests
    /\ phase \in Phases /\ refusal \in Refusals /\ (phase = "refused" <=> refusal # "none")
    /\ item \in Nat \ {0}
    /\ \A p \in DOMAIN tree : tree[p] \in {Dir, Symlink} \cup 1 .. Len(file)
    /\ file \in Seq(Inode)
    /\ source \in Seq(Nat) /\ source # <<>>
    /\ copy \in [len : Nat, size : Nat, from : SUBSET Nat, edited : BOOLEAN]
    /\ taken \in Seq([len : Nat, from : SUBSET Nat])
    /\ pinned \in Seq(1 .. Len(file)) /\ mounted \in Seq(1 .. Len(file))
    /\ fsize \in Nat
    /\ left \in [DOMAIN outputs -> Written]
    /\ manifest \in Seq(Reports) /\ delivered \in Seq(Reports)
    /\ meddled \in Seq(Hows)

\* How far each phase has come.
ItemInv ==
    /\ phase \in {"plan", "validate"} => item = 1
    /\ phase \in {"stageInput"} => item <= Len(inputs) + 1
    /\ phase \in {"copy"} => item <= Len(inputs)
    /\ phase \in {"stageOutput", "stat", "mount", "hash"} => item <= Len(outputs) + 1
    /\ phase = "open" => item <= Len(outputs)
    /\ phase \in {"guest", "inspect"} => item = 1
    /\ phase \in {"read", "done"} => item <= Len(manifest) + 1
    /\ phase = "hash" => Len(manifest) < item
    /\ Len(manifest) <= Len(outputs)
    /\ item <= 1 + Len(inputs) + Len(outputs)
    /\ phase \notin {"plan", "refused"} => PlanAccepts

\* The copy under way is of an edit of the source that is still there.
SourceInv ==
    /\ phase = "plan" => taken = <<>>
    /\ phase \in {"stageInput", "copy"} => Len(taken) = item - 1
    /\ phase = "copy" =>
          /\ \E v \in 1 .. Len(source) :
                /\ copy.size = source[v] /\ copy.from \subseteq v .. Len(source)
                /\ v = Len(source) \/ copy.edited \/ Meddled({"unseen"})
          /\ FromFile => copy.len <= copy.size

\* The outputs that have been created.
Declared ==
    CASE phase \in {"plan", "stageInput", "copy", "refused"} -> {}
      [] phase = "stageOutput" -> {n \in DOMAIN outputs : n < item}
      [] OTHER -> DOMAIN outputs

\* An inode is at one path, which is a link to it; outputs have paths of their own.
TreeInv ==
    /\ phase \notin {"plan", "refused"} =>
          <<"output">> \in DOMAIN tree /\ tree[<<"output">>] = Dir
    /\ \A p \in DOMAIN tree : tree[p] > 0 =>
          /\ file[tree[p]].links > 0
          /\ \A q \in DOMAIN tree : tree[q] = tree[p] => q = p
    /\ \A n \in Declared :
          /\ HostPath(n) \in DOMAIN tree /\ tree[HostPath(n)] # Dir
          /\ \A m \in Declared : HostPath(m) = HostPath(n) => m = n

\* What was pinned or mounted is nowhere but at the path of its output, and what lost that
\* path never comes back.
PinInv ==
    /\ Len(mounted) <= Len(pinned) /\ Len(pinned) <= Len(outputs)
    /\ phase \in {"plan", "stageInput", "copy", "stageOutput", "validate"} => pinned = <<>>
    /\ phase \in {"stat", "open"} => Len(pinned) = item - 1 /\ mounted = <<>>
    /\ phase = "mount" => Len(pinned) = Len(outputs) /\ Len(mounted) = item - 1
    /\ phase \in {"guest", "inspect", "hash", "read", "done"} => Len(mounted) = Len(outputs)
    /\ \A n \in DOMAIN mounted : mounted[n] = pinned[n]
    /\ phase # "refused" => \A n \in DOMAIN pinned :
          /\ \A p \in DOMAIN tree : tree[p] = pinned[n] => p = HostPath(n)
          /\ \A m \in DOMAIN pinned : pinned[m] = pinned[n] => m = n

\* A file of no length has no content; what is mounted was empty; from then on an output
\* holds what the guest left, unless someone else writes it.
ContentInv ==
    /\ \A n \in DOMAIN file : file[n].len = 0 => file[n].data = 0
    /\ phase \notin {"guest", "inspect", "hash", "read", "done", "refused"} =>
          \A n \in DOMAIN left : left[n] = Content(Empty)
    /\ phase = "mount" /\ ~Meddled({"written"}) =>
          /\ \A n \in DOMAIN pinned : tree[HostPath(n)] = pinned[n] => file[pinned[n]].len = 0
          /\ \A n \in DOMAIN mounted : file[mounted[n]].len = 0
    /\ phase \in {"guest", "inspect", "hash", "read", "done"} /\ ~Meddled({"written"}) =>
          \A n \in DOMAIN mounted : Content(file[mounted[n]]) = left[n]

\* The manifest reports what the outputs hold, and leaves out only what may be left out;
\* Node delivers the manifest.
ReportInv ==
    /\ phase \in {"plan", "stageInput", "copy", "stageOutput", "validate", "stat", "open",
                  "mount", "guest", "inspect"} => manifest = <<>>
    /\ phase \notin {"read", "done", "refused"} => delivered = <<>>
    /\ phase \in {"hash", "read", "done"} /\ ~Meddled({"written"}) =>
          /\ \A k \in DOMAIN manifest : manifest[k].content = left[manifest[k].output]
          /\ \A n \in DOMAIN outputs : (phase = "hash" => n < item) =>
                \/ \E k \in DOMAIN manifest : manifest[k].output = n
                \/ ~outputs[n].required /\ left[n].len = 0
    /\ phase = "read" => Len(delivered) = item - 1
    /\ phase = "done" => Len(delivered) = Len(manifest)
    /\ phase \in {"read", "done"} =>
          \A k \in DOMAIN delivered : k \in DOMAIN manifest /\ delivered[k] = manifest[k]

IInv ==
    /\ TypeInv /\ ItemInv /\ SourceInv /\ TreeInv /\ PinInv /\ ContentInv /\ ReportInv
    /\ InputsWhole

-----------------------------------------------------------------------------
(* Sequences and arithmetic.                                                *)

LEMMA Appended ==
    ASSUME NEW S, NEW q \in Seq(S), NEW x \in S
    PROVE  /\ Append(q, x) \in Seq(S) /\ Len(Append(q, x)) = Len(q) + 1
           /\ Append(q, x)[Len(q) + 1] = x
           /\ \A n \in 1 .. Len(q) : Append(q, x)[n] = q[n]
           /\ DOMAIN Append(q, x) = 1 .. Len(q) + 1 /\ DOMAIN q = 1 .. Len(q) /\ Len(q) \in Nat
OBVIOUS

LEMMA Updated ==
    ASSUME NEW S, NEW q \in Seq(S), NEW k \in DOMAIN q, NEW x \in S
    PROVE  /\ [q EXCEPT ![k] = x] \in Seq(S) /\ Len([q EXCEPT ![k] = x]) = Len(q)
           /\ [q EXCEPT ![k] = x][k] = x
           /\ \A n \in DOMAIN q : n # k => [q EXCEPT ![k] = x][n] = q[n]
           /\ DOMAIN [q EXCEPT ![k] = x] = DOMAIN q
OBVIOUS

LEMMA Elements ==
    ASSUME NEW S, NEW q \in Seq(S)
    PROVE  /\ Len(q) \in Nat /\ DOMAIN q = 1 .. Len(q) /\ \A n \in DOMAIN q : q[n] \in S
OBVIOUS

LEMMA AppendLen ==
    ASSUME NEW S, NEW q \in Seq(S), NEW x
    PROVE  Len(Append(q, x)) = Len(q) + 1 /\ DOMAIN Append(q, x) = 1 .. Len(q) + 1
<1>1. q \in Seq(S \cup {x})
  OBVIOUS
<1> QED BY <1>1

LEMMA WiderSeq ==
    ASSUME NEW S, NEW T, S \subseteq T, NEW q \in Seq(S)
    PROVE  q \in Seq(T)
OBVIOUS

LEMMA LastIs ==
    ASSUME NEW S, NEW q \in Seq(S), q # <<>>
    PROVE  Last(q) = q[Len(q)] /\ Last(q) \in S /\ Len(q) \in DOMAIN q /\ Len(q) \in Nat \ {0}
BY DEF Last

LEMMA BlocksBound ==
    ASSUME NEW len \in Nat
    PROVE  /\ BlocksOf(len) \in Nat
           /\ len <= BlocksOf(len) /\ BlocksOf(len) <= len + (Block - 1)
BY ArtifactsAssumption DEF BlocksOf

LEMMA RequestType ==
    ASSUME TypeInv
    PROVE  /\ inputs \in Seq(Inputs) /\ outputs \in Seq(Outputs) /\ limits \in Limits
           /\ DOMAIN inputs = 1 .. Len(inputs) /\ Len(inputs) \in Nat
           /\ DOMAIN outputs = 1 .. Len(outputs) /\ Len(outputs) \in Nat
           /\ \A n \in DOMAIN outputs : /\ Maximum(outputs[n]) \in Nat \ {0}
                                        /\ outputs[n].required \in BOOLEAN
                                        /\ outputs[n].path \in Paths
           /\ \A n \in DOMAIN inputs : inputs[n].target \in Paths
<1>1. request \in [inputs : Seq(Inputs), outputs : Seq(Outputs), limits : Limits]
  BY ArtifactsAssumption DEF TypeInv
<1>2. inputs \in Seq(Inputs) /\ outputs \in Seq(Outputs) /\ limits \in Limits
  BY <1>1 DEF inputs, outputs, limits
<1>3. /\ DOMAIN inputs = 1 .. Len(inputs) /\ Len(inputs) \in Nat
      /\ DOMAIN outputs = 1 .. Len(outputs) /\ Len(outputs) \in Nat
      /\ \A n \in DOMAIN outputs : outputs[n] \in Outputs
      /\ \A n \in DOMAIN inputs : inputs[n] \in Inputs
  BY <1>2, Elements
<1>4. limits.outputFileBytes \in Nat \ {0}
  BY <1>2 DEF Limits
<1>5. \A n \in DOMAIN outputs : outputs[n].max \in Nat /\ outputs[n].required \in BOOLEAN
                                /\ outputs[n].path \in Paths
  BY <1>3 DEF Outputs
<1>6. \A n \in DOMAIN inputs : inputs[n].target \in Paths
  BY <1>3 DEF Inputs
<1>7. \A n \in DOMAIN outputs : Maximum(outputs[n]) \in Nat \ {0}
  BY <1>4, <1>5 DEF Maximum
<1> QED BY <1>2, <1>3, <1>5, <1>6, <1>7

LEMMA InodeTypes ==
    /\ Empty \in Inode
    /\ \A f \in Inode : Content(f) \in Written
    /\ \A f \in Inode, len \in Nat : Grow(f, len) \in Inode
    /\ Contents \subseteq Written
<1>1. Empty \in Inode
  BY DEF Empty, Inode
<1>2. ASSUME NEW f \in Inode PROVE Content(f) \in Written
  BY DEF Content, Written, Inode
<1>3. ASSUME NEW f \in Inode, NEW len \in Nat PROVE Grow(f, len) \in Inode
  <2>1. BlocksOf(len) \in Nat
    BY BlocksBound
  <2> QED BY <2>1 DEF Grow, Inode
<1>4. Contents \subseteq Written
  BY ArtifactsAssumption DEF Contents, Written
<1> QED BY <1>1, <1>2, <1>3, <1>4

\* What is in the tree is a file while its links are counted.
LEMMA UnlinkedType ==
    ASSUME TypeInv, TreeInv, NEW p
    PROVE  /\ Unlinked(p) \in Seq(Inode) /\ Len(Unlinked(p)) = Len(file)
           /\ \A n \in DOMAIN file : /\ Content(Unlinked(p)[n]) = Content(file[n])
                                     /\ Unlinked(p)[n].blocks = file[n].blocks
                                     /\ Unlinked(p)[n].len = file[n].len
                                     /\ Unlinked(p)[n].data = file[n].data
                                     /\ ~(p \in DOMAIN tree /\ tree[p] = n)
                                          => Unlinked(p)[n] = file[n]
<1>1. file \in Seq(Inode) /\ DOMAIN file = 1 .. Len(file) /\ Len(file) \in Nat
      /\ \A n \in DOMAIN file : file[n] \in Inode
  BY Elements DEF TypeInv
<1>0. tree[p] > 0 /\ p \in DOMAIN tree => file[tree[p]].links > 0
  BY DEF TreeInv
<1>2. CASE ~(p \in DOMAIN tree /\ tree[p] > 0)
  <2>1. Unlinked(p) = file
    BY <1>2 DEF Unlinked
  <2> QED BY <1>1, <1>2, <2>1
<1>3. CASE p \in DOMAIN tree /\ tree[p] > 0
  <2> DEFINE i == tree[p]
             f == [file[i] EXCEPT !.links = @ - 1]
  <2>1. i \in DOMAIN file /\ file[i].links \in 1 .. 2 /\ file[i] \in Inode
    <3>0. i \in {0, -1} \cup 1 .. Len(file)
      BY <1>3 DEF TypeInv, Dir, Symlink
    <3>1. i \in DOMAIN file
      BY <1>1, <1>3, <3>0
    <3> QED BY <1>0, <1>1, <1>3, <3>1 DEF Inode
  <2>2. f \in Inode /\ f.len = file[i].len /\ f.data = file[i].data /\ f.blocks = file[i].blocks
    BY <2>1 DEF Inode
  <2>3. Unlinked(p) = [file EXCEPT ![i] = f]
    BY <1>3 DEF Unlinked
  <2> HIDE DEF i, f
  <2>4. /\ Unlinked(p) \in Seq(Inode) /\ Len(Unlinked(p)) = Len(file)
        /\ Unlinked(p)[i] = f /\ \A n \in DOMAIN file : n # i => Unlinked(p)[n] = file[n]
    BY <1>1, <2>1, <2>2, <2>3, Updated
  <2>5. ASSUME NEW n \in DOMAIN file
        PROVE  Unlinked(p)[n].len = file[n].len /\ Unlinked(p)[n].data = file[n].data
               /\ Unlinked(p)[n].blocks = file[n].blocks
    BY <2>2, <2>4
  <2> QED BY <1>3, <2>4, <2>5 DEF Content, i
<1> QED BY <1>2, <1>3

-----------------------------------------------------------------------------
(* Types.                                                                   *)

\* What the actions do to the files: none goes away.
LEMMA FileSteps ==
    ASSUME TypeInv, TreeInv, PinInv, [Next]_vars
    PROVE  /\ file' \in Seq(Inode) /\ Len(file) <= Len(file') /\ Len(file') \in Nat
           /\ \A p \in DOMAIN tree' : tree'[p] \in {Dir, Symlink} \cup 1 .. Len(file')
<1>0. /\ file \in Seq(Inode) /\ Len(file) \in Nat /\ DOMAIN file = 1 .. Len(file)
      /\ \A n \in DOMAIN file : file[n] \in Inode
      /\ \A p \in DOMAIN tree : tree[p] \in {Dir, Symlink} \cup 1 .. Len(file)
  BY Elements DEF TypeInv
<1> USE DEF vars, nodeVars, nativeVars, Dir, Symlink
<1>1. CASE tree' = tree /\ file' = file
  BY <1>0, <1>1
<1>2. CASE tree' = <<>> /\ file' = file
  BY <1>0, <1>2
<1>3. CASE Plan
  BY <1>0, <1>3 DEF Plan
<1>4. ASSUME NEW at, Create(at), file' = Append(file, Empty)
      PROVE  /\ file' \in Seq(Inode) /\ Len(file) <= Len(file') /\ Len(file') \in Nat
             /\ \A p \in DOMAIN tree' : tree'[p] \in {Dir, Symlink} \cup 1 .. Len(file')
  <2>1. file' \in Seq(Inode) /\ Len(file') = Len(file) + 1
    BY <1>0, <1>4, Appended, InodeTypes
  <2>2. \A p \in DOMAIN tree' : tree'[p] = Len(file) + 1 \/ tree'[p] = Dir
                                \/ (p \in DOMAIN tree /\ tree'[p] = tree[p])
    BY <1>4 DEF Create
  <2> QED BY <1>0, <2>1, <2>2
<1>5. CASE CopyChunk
  <2>1. file # <<>> => Len(file) \in DOMAIN file
    BY <1>0
  <2>2. CASE file = <<>>
    <3>1. file' = file /\ tree' = tree
      BY <1>5, <2>2 DEF CopyChunk
    <3> QED BY <1>1, <3>1
  <2>3. CASE file # <<>>
    <3>1. copy.len + 1 \in Nat
      BY DEF TypeInv
    <3>2. Grow(file[Len(file)], copy.len + 1) \in Inode
      BY <1>0, <2>1, <2>3, <3>1, InodeTypes
    <3>3. file' = [file EXCEPT ![Len(file)] = Grow(file[Len(file)], copy.len + 1)] /\ tree' = tree
      BY <1>5 DEF CopyChunk
    <3>4. file' \in Seq(Inode) /\ Len(file') = Len(file)
      BY <1>0, <2>1, <2>3, <3>2, <3>3, Updated
    <3> QED BY <1>0, <3>3, <3>4
  <2> QED BY <2>2, <2>3
<1>6. ASSUME NEW k \in DOMAIN file, NEW f \in Inode, file' = [file EXCEPT ![k] = f], tree' = tree
      PROVE  /\ file' \in Seq(Inode) /\ Len(file) <= Len(file') /\ Len(file') \in Nat
             /\ \A p \in DOMAIN tree' : tree'[p] \in {Dir, Symlink} \cup 1 .. Len(file')
  BY <1>0, <1>6, Updated
<1>7. ASSUME NEW n \in DOMAIN mounted, GuestWrites(n) \/ GuestPreallocates(n)
      PROVE  \/ file' = file /\ tree' = tree
             \/ \E f \in Inode : file' = [file EXCEPT ![mounted[n]] = f] /\ tree' = tree
  <2>1. mounted[n] \in DOMAIN file /\ file[mounted[n]] \in Inode
    BY <1>0, Elements DEF TypeInv
  <2>2. CASE GuestWrites(n)
    <3>1. PICK c \in Contents, sparse \in BOOLEAN :
            Wrote([file EXCEPT ![mounted[n]] =
                      [@ EXCEPT !.len = c.len, !.data = c.data,
                                !.blocks = IF sparse THEN 0 ELSE BlocksOf(c.len)]])
      BY <2>2 DEF GuestWrites
    <3>2. c \in Written
      BY InodeTypes
    <3>3. (IF sparse THEN 0 ELSE BlocksOf(c.len)) \in Nat
      BY <3>2, BlocksBound DEF Written
    <3>4. [file[mounted[n]] EXCEPT !.len = c.len, !.data = c.data,
                                   !.blocks = IF sparse THEN 0 ELSE BlocksOf(c.len)] \in Inode
      BY <2>1, <3>2, <3>3 DEF Inode, Written
    <3> QED BY <3>1, <3>4 DEF Wrote
  <2>3. CASE GuestPreallocates(n)
    <3>1. limits.outputBytes + 2 * Block \in Nat
      BY RequestType, ArtifactsAssumption DEF Limits
    <3>2. [file[mounted[n]] EXCEPT !.blocks = limits.outputBytes + 2 * Block] \in Inode
      BY <2>1, <3>1 DEF Inode
    <3>3. \/ file' = file
          \/ file' = [file EXCEPT ![mounted[n]] =
                         [file[mounted[n]] EXCEPT !.blocks = limits.outputBytes + 2 * Block]]
      BY <2>3 DEF GuestPreallocates, Wrote
    <3>4. tree' = tree
      BY <2>3 DEF GuestPreallocates, Wrote
    <3> QED BY <3>2, <3>3, <3>4
  <2> QED BY <1>7, <2>2, <2>3
<1>8. ASSUME NEW p, HostReplaces(p)
      PROVE  /\ file' \in Seq(Inode) /\ Len(file) <= Len(file') /\ Len(file') \in Nat
             /\ \A q \in DOMAIN tree' : tree'[q] \in {Dir, Symlink} \cup 1 .. Len(file')
  <2>1. Unlinked(p) \in Seq(Inode) /\ Len(Unlinked(p)) = Len(file)
    BY UnlinkedType
  <2>2. CASE PutAt(p, Symlink) /\ file' = Unlinked(p)
    BY <1>0, <2>1, <2>2 DEF PutAt
  <2>3. ASSUME NEW c \in Contents, NEW l \in {1, 2}, PutAt(p, Len(file) + 1),
               file' = Append(Unlinked(p), [len |-> c.len, data |-> c.data, links |-> l,
                                            blocks |-> BlocksOf(c.len)])
        PROVE  /\ file' \in Seq(Inode) /\ Len(file) <= Len(file') /\ Len(file') \in Nat
               /\ \A q \in DOMAIN tree' : tree'[q] \in {Dir, Symlink} \cup 1 .. Len(file')
    <3>1. c \in Written
      BY InodeTypes
    <3>2. BlocksOf(c.len) \in Nat
      BY <3>1, BlocksBound DEF Written
    <3>3. [len |-> c.len, data |-> c.data, links |-> l, blocks |-> BlocksOf(c.len)] \in Inode
      BY <3>1, <3>2 DEF Inode, Written
    <3>4. file' \in Seq(Inode) /\ Len(file') = Len(file) + 1
      BY <2>1, <2>3, <3>3, Appended
    <3>5. \A q \in DOMAIN tree' : tree'[q] = Len(file) + 1
                                  \/ (q \in DOMAIN tree /\ tree'[q] = tree[q])
      BY <2>3 DEF PutAt
    <3> QED BY <1>0, <3>4, <3>5
  <2> QED BY <1>8, <2>2, <2>3 DEF HostReplaces
<1>9. ASSUME NEW p \in DOMAIN tree, HostWrites(p)
      PROVE  tree' = tree /\ \E k \in DOMAIN file, f \in Inode : file' = [file EXCEPT ![k] = f]
  <2>1. tree[p] \in DOMAIN file /\ file[tree[p]] \in Inode
    BY <1>0, <1>9 DEF HostWrites
  <2>2. PICK c \in Contents :
          file' = [file EXCEPT ![tree[p]] = [@ EXCEPT !.len = c.len, !.data = c.data,
                                                      !.blocks = BlocksOf(c.len)]]
    BY <1>9 DEF HostWrites
  <2>3. c \in Written
    BY InodeTypes
  <2>4. BlocksOf(c.len) \in Nat
    BY <2>3, BlocksBound DEF Written
  <2>5. [file[tree[p]] EXCEPT !.len = c.len, !.data = c.data, !.blocks = BlocksOf(c.len)] \in Inode
    BY <2>1, <2>3, <2>4 DEF Inode, Written
  <2> QED BY <1>9, <2>1, <2>2, <2>5 DEF HostWrites
<1>10. ASSUME NEW why, Refuse(why) PROVE file' = file /\ tree' \in {tree, <<>>}
  BY <1>10 DEF Refuse
<1>11. Files("output") \subseteq DOMAIN tree
  BY DEF Files
<1>12. mounted \in Seq(1 .. Len(file))
  BY DEF TypeInv
<1>13. \A n \in DOMAIN mounted : mounted[n] \in DOMAIN file
  BY <1>0, <1>12, Elements
<1>14. CASE Node
  <2>1. CASE BeginInput
    BY <1>4, <2>1 DEF BeginInput
  <2>2. CASE StageOutput
    BY <1>1, <1>2, <1>4, <1>10, <2>2 DEF StageOutput
  <2> QED BY <1>1, <1>2, <1>3, <1>5, <1>10, <1>14, <2>1, <2>2 DEF Node, PlanRefuses,
     InputCollides, InputTooLarge, SourceShrank, ChunkTooLarge, EndInput, InputTaken,
     InputsStaged, Staged, Aborted, ReadArtifact, Deliver, Collected, Skip
<1>15. CASE Native
  BY <1>1, <1>2, <1>10, <1>15 DEF Native, ValidateInputs, StatOutput, OpenOutput,
     OutputsPinned, MountOutput, Harden, ScanFile, ScanFolder, Alarm, ScanDone, ScanGoesOn, InspectOutputs, HashOutput,
     Answered, Skip
<1>16. CASE GuestEnds \/ SourceEdited \/ HostLoosens \/ UNCHANGED vars
  BY <1>1, <1>16 DEF GuestEnds, SourceEdited, HostLoosens, Skip
<1> QED
  BY <1>1, <1>6, <1>7, <1>8, <1>9, <1>11, <1>13, <1>14, <1>15, <1>16 DEF Next

\* The steps that only go on to another phase or item, fail, or touch the files.
Passing ==
    /\ UNCHANGED <<request, source, copy, taken, pinned, mounted, fsize, left, manifest, delivered>>
    /\ meddled' = meddled
        \/ (\E how \in {"replaced", "written", "loosened"} : meddled' = Append(meddled, how))

LEMMA PassingSteps ==
    ASSUME [Next]_vars
    PROVE  \/ Passing
           \/ BeginInput \/ CopyChunk \/ (EndInput /\ InputTaken) \/ OpenOutput \/ MountOutput \/ Harden
           \/ \E n \in DOMAIN mounted : GuestWrites(n)
           \/ HashOutput \/ ReadArtifact \/ SourceEdited
<1> USE DEF vars, nodeVars, nativeVars, Go, Refuse, Skip
<1>1. CASE Node
  BY <1>1 DEF Node, Passing, Plan, PlanRefuses, InputCollides, InputTooLarge, SourceShrank,
     ChunkTooLarge, EndInput, InputsStaged, StageOutput, Staged, Aborted, Collected
<1>2. CASE Native
  BY <1>2 DEF Native, Passing, ValidateInputs, StatOutput, OutputsPinned, ScanFile, ScanFolder, Alarm,
     ScanDone, ScanGoesOn, InspectOutputs, Answered
<1>3. ASSUME NEW n \in DOMAIN mounted, GuestPreallocates(n) PROVE Passing
  BY <1>3 DEF Passing, GuestPreallocates, Wrote
<1>4. ASSUME NEW p, HostReplaces(p) \/ HostWrites(p) PROVE Passing
  BY <1>4 DEF Passing, HostReplaces, HostWrites, Meddle
<1>5. CASE GuestEnds \/ HostLoosens \/ UNCHANGED vars
  BY <1>5 DEF Passing, GuestEnds, HostLoosens, Meddle
<1> QED BY <1>1, <1>2, <1>3, <1>4, <1>5 DEF Next

\* The phases go on, or the run fails.
LEMMA PhaseSteps ==
    ASSUME TypeInv, ItemInv, [Next]_vars
    PROVE  /\ request' = request
           /\ phase' \in Phases /\ refusal' \in Refusals
           /\ (phase' = "refused" <=> refusal' # "none")
           /\ item' \in Nat \ {0}
<1>0. /\ phase \in Phases /\ refusal \in Refusals /\ (phase = "refused" <=> refusal # "none")
      /\ item \in Nat \ {0} /\ item + 1 \in Nat \ {0}
  BY DEF TypeInv
<1> USE DEF vars, nodeVars, nativeVars, Go, Skip, Phases, Refusals
<1>1. CASE UNCHANGED <<request, phase, item, refusal>>
  BY <1>0, <1>1
<1>2. ASSUME NEW why \in Refusals \ {"none"}, Refuse(why)
      PROVE  /\ request' = request
             /\ phase' \in Phases /\ refusal' \in Refusals
             /\ (phase' = "refused" <=> refusal' # "none")
             /\ item' \in Nat \ {0}
  BY <1>0, <1>2 DEF Refuse
<1>3. ASSUME NEW to \in Phases \ {"refused"}, NEW n \in Nat \ {0}, Go(to, n), phase # "refused"
      PROVE  /\ request' = request
             /\ phase' \in Phases /\ refusal' \in Refusals
             /\ (phase' = "refused" <=> refusal' # "none")
             /\ item' \in Nat \ {0}
  BY <1>0, <1>3
<1> HIDE DEF Go
<1>4. CASE Node
  <2>1. CASE Plan \/ PlanRefuses \/ InputCollides \/ InputTooLarge \/ BeginInput \/ CopyChunk
    BY <1>0, <1>2, <1>3, <2>1 DEF Plan, PlanRefuses, InputCollides, InputTooLarge, BeginInput,
       CopyChunk, Staging
  <2>2. CASE SourceShrank \/ ChunkTooLarge \/ EndInput \/ InputsStaged \/ Staged \/ Aborted
    BY <1>0, <1>2, <1>3, <2>2 DEF SourceShrank, ChunkTooLarge, EndInput, InputTaken,
       InputsStaged, Staged, Aborted, Staging
  <2>3. CASE StageOutput \/ ReadArtifact \/ Collected
    BY <1>0, <1>2, <1>3, <2>3 DEF StageOutput, ReadArtifact, Deliver, Collected
  <2> QED BY <1>4, <2>1, <2>2, <2>3 DEF Node
<1>5. CASE Native
  <2>1. CASE ValidateInputs \/ StatOutput \/ OpenOutput \/ OutputsPinned \/ MountOutput \/ Harden
    BY <1>0, <1>2, <1>3, <2>1 DEF ValidateInputs, StatOutput, OpenOutput, OutputsPinned,
       MountOutput, Harden
  <2>2. ASSUME NEW p, ScanFile(p) \/ ScanFolder(p)
        PROVE UNCHANGED <<request, phase, item, refusal>> \/ Alarm
    BY <2>2 DEF ScanFile, ScanFolder, ScanGoesOn
  <2>3. CASE Alarm
    BY <1>0, <2>3 DEF Alarm
  <2>4. CASE ScanDone
    BY <1>1, <2>4 DEF ScanDone, ScanGoesOn
  <2>5. CASE InspectOutputs \/ HashOutput \/ Answered
    BY <1>0, <1>2, <1>3, <2>5 DEF InspectOutputs, HashOutput, Answered
  <2> QED BY <1>1, <1>5, <2>1, <2>2, <2>3, <2>4, <2>5 DEF Native
<1>6. CASE GuestEnds
  BY <1>0, <1>3, <1>6 DEF GuestEnds
<1> QED
  BY <1>1, <1>4, <1>5, <1>6 DEF Next, GuestWrites, GuestPreallocates, Wrote, HostReplaces,
     HostWrites, SourceEdited, HostLoosens, Meddle

LEMMA SameRequest ==
    ASSUME request' = request
    PROVE  /\ inputs' = inputs /\ outputs' = outputs /\ limits' = limits
           /\ Reports' = Reports /\ PlanAccepts' = PlanAccepts
           /\ \A n : HostPath(n)' = HostPath(n)
BY DEF inputs, outputs, limits, Reports, PlanAccepts, HostPath, Maximum

LEMMA NextType ==
    ASSUME TypeInv, ItemInv, TreeInv, PinInv, [Next]_vars
    PROVE  TypeInv'
<1>0. /\ request \in Requests /\ source \in Seq(Nat) /\ source # <<>>
      /\ copy \in [len : Nat, size : Nat, from : SUBSET Nat, edited : BOOLEAN]
      /\ taken \in Seq([len : Nat, from : SUBSET Nat])
      /\ pinned \in Seq(1 .. Len(file)) /\ mounted \in Seq(1 .. Len(file))
      /\ fsize \in Nat /\ left \in [DOMAIN outputs -> Written]
      /\ manifest \in Seq(Reports) /\ delivered \in Seq(Reports)
      /\ meddled \in Seq(Hows)
  BY DEF TypeInv
<1>1. /\ request' = request /\ outputs' = outputs /\ Reports' = Reports
      /\ phase' \in Phases /\ refusal' \in Refusals
      /\ (phase' = "refused" <=> refusal' # "none")
      /\ item' \in Nat \ {0}
      /\ file' \in Seq(Inode) /\ Len(file) <= Len(file') /\ Len(file') \in Nat
      /\ \A p \in DOMAIN tree' : tree'[p] \in {Dir, Symlink} \cup 1 .. Len(file')
  BY PhaseSteps, FileSteps, SameRequest
<1>2. 1 .. Len(file) \subseteq 1 .. Len(file') /\ DOMAIN file = 1 .. Len(file) /\ Len(file) \in Nat
      /\ \A p \in DOMAIN tree : tree[p] \in {0, -1} \cup 1 .. Len(file)
  BY <1>1, Elements DEF TypeInv, Dir, Symlink
<1> DEFINE Rest ==
      /\ source' \in Seq(Nat) /\ source' # <<>>
      /\ copy' \in [len : Nat, size : Nat, from : SUBSET Nat, edited : BOOLEAN]
      /\ taken' \in Seq([len : Nat, from : SUBSET Nat])
      /\ pinned' \in Seq(1 .. Len(file)) /\ mounted' \in Seq(1 .. Len(file))
      /\ fsize' \in Nat /\ left' \in [DOMAIN outputs -> Written]
      /\ manifest' \in Seq(Reports) /\ delivered' \in Seq(Reports)
      /\ meddled' \in Seq(Hows)
<1> USE DEF nodeVars, nativeVars, Go
<1>3. ASSUME Passing PROVE Rest
  <2>1. meddled' \in Seq(Hows)
    <3>1. ASSUME NEW how \in {"replaced", "written", "loosened"}, meddled' = Append(meddled, how)
          PROVE  meddled' \in Seq(Hows)
      BY <1>0, <3>1, Appended DEF Hows
    <3> QED BY <1>0, <1>3, <3>1 DEF Passing
  <2> QED BY <1>0, <1>3, <2>1 DEF Passing
<1>4. Last(source) \in Nat /\ Len(source) \in Nat
  BY <1>0, LastIs
<1>5. ASSUME BeginInput PROVE Rest
  BY <1>0, <1>4, <1>5 DEF BeginInput
<1>6. ASSUME CopyChunk PROVE Rest
  <2>1. copy.len + 1 \in Nat /\ copy.from \cup {Len(source)} \in SUBSET Nat
    BY <1>0, <1>4
  <2>2. copy' = [copy EXCEPT !.len = copy.len + 1, !.from = copy.from \cup {Len(source)}]
    BY <1>6 DEF CopyChunk
  <2>3. copy' \in [len : Nat, size : Nat, from : SUBSET Nat, edited : BOOLEAN]
    BY <1>0, <2>1, <2>2
  <2> QED BY <1>0, <1>6, <2>3 DEF CopyChunk
<1>7. ASSUME InputTaken PROVE Rest
  <2>1. [len |-> copy.len, from |-> copy.from] \in [len : Nat, from : SUBSET Nat]
    BY <1>0
  <2>2. taken' \in Seq([len : Nat, from : SUBSET Nat])
    BY <1>0, <1>7, <2>1, Appended DEF InputTaken
  <2> QED BY <1>0, <1>7, <2>2 DEF InputTaken
<1>8. ASSUME OpenOutput PROVE Rest
  <2>1. CASE UNCHANGED pinned
    BY <1>0, <1>8, <2>1 DEF OpenOutput, Refuse
  <2>2. CASE tree[HostPath(item)] > 0 /\ pinned' = Append(pinned, tree[HostPath(item)])
    <3>1. HostPath(item) \in DOMAIN tree
      BY <1>8, RequestType DEF OpenOutput, TreeInv, Declared, ItemInv, TypeInv
    <3>2. tree[HostPath(item)] \in 1 .. Len(file)
      BY <1>2, <2>2, <3>1
    <3>3. pinned' \in Seq(1 .. Len(file))
      BY <1>0, <2>2, <3>2, Appended
    <3> QED BY <1>0, <1>8, <3>3 DEF OpenOutput, Refuse
  <2> QED BY <1>8, <2>1, <2>2 DEF OpenOutput, Refuse
<1>9. ASSUME MountOutput PROVE Rest
  <2>1. CASE UNCHANGED mounted
    BY <1>0, <1>9, <2>1 DEF MountOutput, Refuse
  <2>2. CASE mounted' = Append(mounted, pinned[item])
    <3>1. item \in DOMAIN pinned
      BY <1>0, <1>9, RequestType, Elements DEF MountOutput, PinInv
    <3>2. mounted' \in Seq(1 .. Len(file))
      BY <1>0, <2>2, <3>1, Appended, Elements
    <3> QED BY <1>0, <1>9, <3>2 DEF MountOutput, Refuse
  <2> QED BY <1>9, <2>1, <2>2 DEF MountOutput, Refuse
<1>10. ASSUME Harden PROVE Rest
  <2>1. outputs # <<>> => 1 \in DOMAIN outputs
    BY RequestType
  <2>2. fsize' \in Nat
    BY <1>10, <2>1, RequestType DEF Harden
  <2> QED BY <1>0, <1>10, <2>2 DEF Harden
<1>11. ASSUME NEW n \in DOMAIN mounted, GuestWrites(n) PROVE Rest
  <2>1. PICK c \in Contents : left' = [left EXCEPT ![n] = c]
    BY <1>11 DEF GuestWrites
  <2>2. left' \in [DOMAIN outputs -> Written]
    BY <1>0, <2>1, InodeTypes
  <2> QED BY <1>0, <1>11, <2>2 DEF GuestWrites, Wrote
<1>12. ASSUME HashOutput PROVE Rest
  <2>1. CASE UNCHANGED manifest
    BY <1>0, <1>12, <2>1 DEF HashOutput, Skip, Refuse
  <2>2. CASE manifest' = Append(manifest, [output |-> item, content |-> Content(file[pinned[item]])])
    <3>1. item \in DOMAIN pinned /\ item \in DOMAIN outputs
      BY <1>0, <1>12, RequestType, Elements DEF HashOutput, PinInv
    <3>2. file[pinned[item]] \in Inode
      BY <1>0, <1>2, <3>1, Elements DEF TypeInv
    <3>3. [output |-> item, content |-> Content(file[pinned[item]])] \in Reports
      BY <3>1, <3>2, InodeTypes DEF Reports
    <3>4. manifest' \in Seq(Reports)
      BY <1>0, <2>2, <3>3, Appended
    <3> QED BY <1>0, <1>12, <3>4 DEF HashOutput, Skip, Refuse
  <2> QED BY <1>12, <2>1, <2>2 DEF HashOutput, Skip, Refuse
<1>13. ASSUME ReadArtifact PROVE Rest
  <2>1. CASE UNCHANGED delivered
    BY <1>0, <1>13, <2>1 DEF ReadArtifact, Deliver, Refuse
  <2>2. CASE delivered' = Append(delivered, [output |-> manifest[item].output,
                                             content |-> manifest[item].content])
    <3>1. manifest[item] \in Reports
      BY <1>0, <1>13, Elements DEF ReadArtifact
    <3>2. [output |-> manifest[item].output, content |-> manifest[item].content] \in Reports
      BY <3>1 DEF Reports
    <3>3. delivered' \in Seq(Reports)
      BY <1>0, <2>2, <3>2, Appended
    <3> QED BY <1>0, <1>13, <3>3 DEF ReadArtifact, Deliver, Refuse
  <2> QED BY <1>13, <2>1, <2>2 DEF ReadArtifact, Deliver, Refuse
<1>14. ASSUME SourceEdited PROVE Rest
  <2>1. PICK len \in Lengths : source' = Append(source, len)
    BY <1>14 DEF SourceEdited
  <2>2. source' \in Seq(Nat) /\ Len(source') = Len(source) + 1
    BY <1>0, <2>1, Appended, ArtifactsAssumption
  <2>3. source' # <<>>
    BY <1>4, <2>2
  <2>4. meddled' \in Seq(Hows)
    <3>1. meddled' = Append(meddled, "source") \/ meddled' = Append(meddled, "unseen")
      BY <1>14 DEF SourceEdited, Meddle
    <3>2. "source" \in Hows /\ "unseen" \in Hows
      BY DEF Hows
    <3>3. meddled \in Seq(Hows)
      BY <1>0
    <3>4. Append(meddled, "source") \in Seq(Hows) /\ Append(meddled, "unseen") \in Seq(Hows)
      BY <3>2, <3>3, Appended
    <3> QED BY <3>1, <3>4
  <2>5. copy' \in [len : Nat, size : Nat, from : SUBSET Nat, edited : BOOLEAN]
    BY <1>0, <1>14 DEF SourceEdited
  <2> QED BY <1>0, <1>14, <2>2, <2>3, <2>4, <2>5 DEF SourceEdited, Meddle
<1>15. Rest
  BY <1>3, <1>5, <1>6, <1>7, <1>8, <1>9, <1>10, <1>11, <1>12, <1>13, <1>14, PassingSteps
<1>16. pinned' \in Seq(1 .. Len(file')) /\ mounted' \in Seq(1 .. Len(file'))
  BY <1>2, <1>15, WiderSeq
<1> QED BY <1>0, <1>1, <1>15, <1>16 DEF TypeInv

-----------------------------------------------------------------------------
(* Phases and items.                                                        *)

LEMMA NextItem ==
    ASSUME TypeInv, ItemInv, ReportInv, [Next]_vars
    PROVE  ItemInv'
<1>0. /\ item \in Nat \ {0} /\ Len(inputs) \in Nat /\ Len(outputs) \in Nat
      /\ Len(manifest) \in Nat
      /\ DOMAIN inputs = 1 .. Len(inputs) /\ DOMAIN outputs = 1 .. Len(outputs)
      /\ DOMAIN manifest = 1 .. Len(manifest)
  BY RequestType, Elements DEF TypeInv
<1>1. /\ request' = request /\ inputs' = inputs /\ outputs' = outputs
      /\ PlanAccepts' = PlanAccepts
  BY PhaseSteps, SameRequest
<1> USE DEF ItemInv, nodeVars, nativeVars, vars
<1>2. ASSUME UNCHANGED <<phase, item, manifest>> PROVE ItemInv'
  BY <1>1, <1>2
<1>3. ASSUME NEW why, Refuse(why), manifest' = manifest PROVE ItemInv'
  BY <1>1, <1>3 DEF Refuse
<1>4. ASSUME NEW to, NEW n, Go(to, n), manifest' = manifest,
             phase \notin {"plan", "refused"}
      PROVE  phase' = to /\ item' = n /\ PlanAccepts'
  BY <1>1, <1>4 DEF Go
<1>5. CASE Node
  <2>1. CASE Plan
    BY <1>0, <1>1, <2>1 DEF Plan, Go
  <2>2. CASE PlanRefuses \/ InputCollides \/ InputTooLarge \/ SourceShrank \/ ChunkTooLarge
             \/ Aborted
    BY <1>3, <2>2 DEF PlanRefuses, InputCollides, InputTooLarge, SourceShrank, ChunkTooLarge,
       Aborted, Refuse
  <2>3. CASE BeginInput \/ CopyChunk
    BY <1>0, <1>1, <2>3 DEF BeginInput, CopyChunk, Staging, Go
  <2>4. CASE EndInput
    <3>1. CASE InputTaken
      BY <1>0, <1>1, <2>4, <3>1 DEF EndInput, InputTaken, Go
    <3>2. CASE Refuse("source")
      BY <1>3, <3>2 DEF Refuse
    <3> QED BY <2>4, <3>1, <3>2 DEF EndInput
  <2>5. CASE InputsStaged \/ Staged
    BY <1>0, <1>1, <2>5 DEF InputsStaged, Staged, Go
  <2>6. CASE StageOutput
    <3>1. CASE Refuse("collision")
      BY <1>3, <3>1 DEF Refuse
    <3> QED BY <1>0, <1>1, <1>3, <2>6, <3>1 DEF StageOutput, Go
  <2>7. CASE ReadArtifact
    <3>1. CASE Refuse("collect")
      BY <1>3, <3>1 DEF Refuse
    <3>2. CASE Go("read", item + 1) /\ UNCHANGED nativeVars
      BY <1>0, <1>1, <2>7, <3>2 DEF ReadArtifact, Go
    <3> QED BY <2>7, <3>1, <3>2 DEF ReadArtifact, Deliver
  <2>8. CASE Collected
    <3>1. CASE Refuse("collect")
      BY <1>3, <3>1 DEF Refuse
    <3>2. CASE Skip("done", item)
      BY <1>0, <1>1, <2>8, <3>2 DEF Collected, Skip, Go
    <3> QED BY <2>8, <3>1, <3>2 DEF Collected
  <2> QED BY <1>5, <2>1, <2>2, <2>3, <2>4, <2>5, <2>6, <2>7, <2>8 DEF Node
<1>6. CASE Native
  <2>1. ASSUME Refuse("native") PROVE ItemInv'
    BY <1>3, <2>1 DEF Refuse
  <2>2. CASE ValidateInputs
    BY <1>0, <1>1, <2>1, <2>2 DEF ValidateInputs, Skip, Go
  <2>3. CASE StatOutput
    <3>1. CASE Skip("open", item)
      BY <1>0, <1>1, <2>3, <3>1 DEF StatOutput, Skip, Go
    <3> QED BY <2>1, <2>3, <3>1 DEF StatOutput
  <2>4. CASE OpenOutput
    <3>1. CASE Go("stat", item + 1) /\ manifest' = manifest
      BY <1>0, <1>1, <2>4, <3>1 DEF OpenOutput, Go
    <3> QED BY <2>1, <2>4, <3>1 DEF OpenOutput
  <2>5. CASE OutputsPinned
    <3>1. CASE Skip("mount", 1)
      BY <1>0, <1>1, <2>5, <3>1 DEF OutputsPinned, Skip, Go
    <3> QED BY <2>1, <2>5, <3>1 DEF OutputsPinned
  <2>6. CASE MountOutput
    <3>1. CASE Go("mount", item + 1) /\ manifest' = manifest
      BY <1>0, <1>1, <2>6, <3>1 DEF MountOutput, Go
    <3> QED BY <2>1, <2>6, <3>1 DEF MountOutput
  <2>7. CASE Harden
    BY <1>0, <1>1, <2>7 DEF Harden, Go
  <2>8. ASSUME NEW p, ScanFile(p) \/ ScanFolder(p) PROVE ItemInv'
    <3>1. CASE Alarm
      BY <1>0, <1>1, <3>1 DEF Alarm
    <3> QED BY <1>2, <2>8, <3>1 DEF ScanFile, ScanFolder, ScanGoesOn
  <2>9. CASE ScanDone
    BY <1>2, <2>9 DEF ScanDone, ScanGoesOn
  <2>10. CASE InspectOutputs
    <3>1. CASE Skip("hash", 1)
      <4>1. Len(manifest) = 0
        BY <2>10 DEF InspectOutputs, ReportInv
      <4> QED BY <1>0, <1>1, <2>10, <3>1, <4>1 DEF InspectOutputs, Skip, Go
    <3> QED BY <2>1, <2>10, <3>1 DEF InspectOutputs
  <2>11. CASE HashOutput
    <3>0. phase = "hash" /\ item \in DOMAIN outputs
      BY <2>11 DEF HashOutput
    <3>1. CASE Skip("hash", item + 1)
      BY <1>0, <1>1, <3>0, <3>1 DEF Skip, Go
    <3>2. ASSUME NEW x, manifest' = Append(manifest, x), Go("hash", item + 1)
          PROVE  ItemInv'
      <4>1. Len(manifest') = Len(manifest) + 1
        BY <3>2, AppendLen DEF TypeInv
      <4>2. phase' = "hash" /\ item' = item + 1 /\ PlanAccepts'
        BY <1>4, <3>0, <3>2, <1>1 DEF Go
      <4>3. Len(manifest) < item /\ item <= Len(outputs) /\ item \in Nat /\ Len(manifest) \in Nat
        BY <1>0, <3>0
      <4>4. Len(manifest') < item' /\ Len(manifest') <= Len(outputs) /\ item' <= Len(outputs) + 1
        BY <1>0, <4>1, <4>2, <4>3
      <4>5. outputs' = outputs /\ inputs' = inputs
        BY <1>1
      <4>6. item' <= 1 + Len(inputs) + Len(outputs)
        BY <1>0, <4>2, <4>3
      <4> QED BY <4>2, <4>4, <4>5, <4>6
    <3>3. \/ Refuse("native") \/ Skip("hash", item + 1)
          \/ (\E x : manifest' = Append(manifest, x)) /\ Go("hash", item + 1)
      BY <2>11 DEF HashOutput
    <3>4. CASE (\E x : manifest' = Append(manifest, x)) /\ Go("hash", item + 1)
      <4>1. PICK x : manifest' = Append(manifest, x)
        BY <3>4
      <4> QED BY <3>2, <3>4, <4>1
    <3> QED BY <2>1, <3>1, <3>3, <3>4
  <2>12. CASE Answered
    BY <1>0, <1>1, <2>12 DEF Answered, Skip, Go
  <2> QED BY <1>6, <2>2, <2>3, <2>4, <2>5, <2>6, <2>7, <2>8, <2>9, <2>10, <2>11, <2>12
       DEF Native
<1>7. CASE GuestEnds
  BY <1>0, <1>1, <1>7 DEF GuestEnds, Skip, Go
<1>8. ASSUME NEW n \in DOMAIN mounted, GuestWrites(n) \/ GuestPreallocates(n) PROVE ItemInv'
  BY <1>2, <1>8 DEF GuestWrites, GuestPreallocates, Wrote
<1>9. ASSUME NEW p, HostReplaces(p) \/ HostWrites(p) PROVE ItemInv'
  BY <1>2, <1>9 DEF HostReplaces, HostWrites, Meddle
<1>10. CASE SourceEdited \/ HostLoosens \/ UNCHANGED vars
  BY <1>2, <1>10 DEF SourceEdited, HostLoosens, Meddle
<1> QED
  BY <1>5, <1>6, <1>7, <1>8, <1>9, <1>10 DEF Next

\* What the other process did is not undone.
LEMMA MeddledStays ==
    ASSUME TypeInv, [Next]_vars, NEW hows
    PROVE  Meddled(hows) => Meddled(hows)'
<1>0. meddled \in Seq(Hows)
  BY DEF TypeInv
<1>1. meddled' = meddled \/ \E h \in Hows : meddled' = Append(meddled, h)
  BY PassingSteps DEF Passing, BeginInput, CopyChunk, InputTaken, OpenOutput, MountOutput, Harden,
     GuestWrites, Wrote, HashOutput, ReadArtifact, Deliver, SourceEdited, Meddle, Go, Skip, Refuse,
     Hows
<1>2. CASE meddled' = meddled
  BY <1>2 DEF Meddled
<1>3. ASSUME NEW h \in Hows, meddled' = Append(meddled, h), NEW n \in DOMAIN meddled
      PROVE  n \in DOMAIN meddled' /\ meddled'[n] = meddled[n]
  BY <1>0, <1>3, Appended
<1> QED BY <1>1, <1>2, <1>3 DEF Meddled

LEMMA FromFileSame ==
    ASSUME request' = request, item' = item
    PROVE  FromFile' = FromFile
BY DEF FromFile, inputs

LEMMA NextSource ==
    ASSUME TypeInv, ItemInv, SourceInv, InputsWhole, [Next]_vars
    PROVE  SourceInv' /\ InputsWhole'
<1>0. /\ item \in Nat \ {0} /\ source \in Seq(Nat) /\ source # <<>>
      /\ DOMAIN source = 1 .. Len(source) /\ Len(source) \in Nat \ {0}
      /\ copy.len \in Nat
      /\ taken \in Seq([len : Nat, from : SUBSET Nat])
      /\ DOMAIN taken = 1 .. Len(taken) /\ Len(taken) \in Nat
      /\ Last(source) = source[Len(source)] /\ Last(source) \in Nat
      /\ copy \in [len : Nat, size : Nat, from : SUBSET Nat, edited : BOOLEAN]
  BY LastIs, Elements DEF TypeInv
<1>1. request' = request /\ inputs' = inputs
  BY PhaseSteps, SameRequest
<1> USE DEF nodeVars, nativeVars, vars, Go
<1>12. Meddled({"unseen"}) => Meddled({"unseen"})'
  BY MeddledStays
<1>2. ASSUME UNCHANGED <<source, taken>> PROVE InputsWhole'
  BY <1>1, <1>2, <1>12 DEF InputsWhole
<1>3. ASSUME UNCHANGED <<source, taken, copy>>,
             phase' \notin {"plan", "stageInput", "copy"} \/ UNCHANGED <<phase, item>>
      PROVE  SourceInv'
  BY <1>1, <1>3, <1>12, FromFileSame DEF SourceInv
<1>4. CASE Plan
  BY <1>0, <1>2, <1>4 DEF Plan, SourceInv
<1>5. CASE BeginInput
  <2>1. copy' = [len |-> 0, size |-> Last(source), from |-> {}, edited |-> FALSE]
        /\ item' = item /\ phase = "stageInput" /\ phase' = "copy" /\ taken' = taken
        /\ source' = source
    BY <1>5 DEF BeginInput, Staging
  <2>2. /\ copy'.len = 0 /\ copy'.from = {} /\ copy'.size = source'[Len(source')]
        /\ Len(source') \in 1 .. Len(source') /\ copy'.len <= copy'.size
    BY <1>0, <2>1
  <2>3. Len(taken') = item' - 1
    BY <2>1 DEF SourceInv
  <2>4. \E v \in 1 .. Len(source') :
          /\ copy'.size = source'[v] /\ copy'.from \subseteq v .. Len(source')
          /\ v = Len(source') \/ copy'.edited \/ Meddled({"unseen"})'
    BY <2>2
  <2>5. SourceInv'
    BY <2>1, <2>2, <2>3, <2>4 DEF SourceInv
  <2> QED BY <1>2, <2>1, <2>5
<1>6. CASE CopyChunk
  <2>1. /\ phase = "copy" /\ phase' = "copy" /\ item' = item /\ taken' = taken
        /\ source' = source
        /\ copy' = [copy EXCEPT !.len = copy.len + 1, !.from = copy.from \cup {Len(source)}]
        /\ FromFile => copy.len < MinOf(copy.size, Last(source))
    BY <1>6 DEF CopyChunk
  <2>2. FromFile => copy.len + 1 <= copy.size
    BY <1>0, <2>1 DEF MinOf
  <2>3. copy'.len = copy.len + 1 /\ copy'.size = copy.size /\ copy'.edited = copy.edited
        /\ copy'.from = copy.from \cup {Len(source)}
    BY <1>0, <2>1
  <2>4. SourceInv'
    <3>1. PICK v \in 1 .. Len(source) :
             /\ copy.size = source[v] /\ copy.from \subseteq v .. Len(source)
             /\ v = Len(source) \/ copy.edited \/ Meddled({"unseen"})
      BY <2>1 DEF SourceInv
    <3>2. /\ copy'.size = source'[v] /\ copy'.from \subseteq v .. Len(source')
          /\ v = Len(source') \/ copy'.edited \/ Meddled({"unseen"})'
          /\ v \in 1 .. Len(source')
      BY <1>0, <1>12, <2>1, <2>3, <3>1
    <3> QED BY <1>0, <1>1, <2>1, <2>2, <2>3, <3>2, FromFileSame DEF SourceInv
  <2> QED BY <1>2, <2>1, <2>4
<1>7. CASE EndInput
  <2>1. CASE Refuse("source")
    BY <1>2, <1>3, <2>1 DEF Refuse
  <2>2. CASE InputTaken /\ (FromFile => ~copy.edited)
    <3>1. /\ phase = "copy" /\ phase' = "stageInput" /\ item' = item + 1 /\ source' = source
          /\ taken' = Append(taken, [len |-> copy.len, from |-> copy.from])
          /\ FromFile => copy.len = copy.size
      BY <1>7, <2>2 DEF EndInput, InputTaken
    <3>2. /\ Len(taken') = Len(taken) + 1
          /\ DOMAIN taken' = 1 .. Len(taken) + 1
          /\ taken'[Len(taken) + 1] = [len |-> copy.len, from |-> copy.from]
          /\ \A n \in 1 .. Len(taken) : taken'[n] = taken[n]
      BY <1>0, <3>1
    <3>3. Len(taken) = item - 1
      BY <3>1 DEF SourceInv
    <3>4. SourceInv'
      <4>1. Len(taken') = item' - 1
        BY <1>0, <3>1, <3>2, <3>3
      <4> QED BY <3>1, <4>1 DEF SourceInv
    <3>5. ASSUME NEW n \in DOMAIN taken', inputs[n].kind = "sourcePath"
          PROVE  Meddled({"unseen"}) \/ \E v \in DOMAIN source :
                    taken'[n].from \subseteq {v} /\ taken'[n].len = source[v]
      <4>1. CASE n = item
        <5>1. FromFile /\ ~copy.edited /\ copy.len = copy.size
          BY <2>2, <3>1, <3>5, <4>1 DEF FromFile
        <5>0. PICK v \in 1 .. Len(source) :
                 /\ copy.size = source[v] /\ copy.from \subseteq v .. Len(source)
                 /\ v = Len(source) \/ copy.edited \/ Meddled({"unseen"})
          BY <3>1 DEF SourceInv
        <5>2. Meddled({"unseen"}) \/
              (copy.from \subseteq {v} /\ copy.len = source[v] /\ v \in DOMAIN source)
          <6>1. CASE v = Len(source)
            <7>1. v .. Len(source) = {v}
              BY <1>0, <6>1
            <7> QED BY <1>0, <5>0, <5>1, <7>1
          <6> QED BY <5>0, <5>1, <6>1
        <5>3. taken'[n].from = copy.from /\ taken'[n].len = copy.len
          BY <1>0, <3>2, <3>3, <4>1
        <5> QED BY <5>2, <5>3
      <4>2. CASE n # item
        <5>1. n \in DOMAIN taken /\ taken'[n] = taken[n]
          BY <1>0, <3>2, <3>3, <4>2
        <5> QED BY <3>5, <5>1 DEF InputsWhole
      <4> QED BY <4>1, <4>2
    <3>6. InputsWhole'
      BY <1>1, <1>12, <3>1, <3>5 DEF InputsWhole
    <3> QED BY <3>4, <3>6
  <2> QED BY <1>7, <2>1, <2>2 DEF EndInput
<1>8. CASE SourceEdited
  <2>1. PICK len \in Lengths : source' = Append(source, len)
    BY <1>8 DEF SourceEdited
  <2>2. /\ Len(source') = Len(source) + 1 /\ DOMAIN source' = 1 .. Len(source) + 1
        /\ \A n \in 1 .. Len(source) : source'[n] = source[n]
    <3>1. len \in Nat
      BY ArtifactsAssumption
    <3>2. source \in Seq(Nat)
      BY <1>0
    <3> QED BY <2>1, <3>1, <3>2, Appended
  <2>3. /\ UNCHANGED <<phase, item, taken>> /\ phase = "copy"
        /\ copy' = [copy EXCEPT !.edited = TRUE] \/ (copy' = copy /\ Meddle("unseen"))
    BY <1>8 DEF SourceEdited, Meddle
  <2>7. /\ copy'.len = copy.len /\ copy'.size = copy.size /\ copy'.from = copy.from
        /\ copy'.edited \/ Meddled({"unseen"})'
    <3>1. ASSUME Meddle("unseen") PROVE Meddled({"unseen"})'
      <4>1. meddled \in Seq(Hows) /\ meddled' = Append(meddled, "unseen") /\ "unseen" \in Hows
        BY <3>1 DEF TypeInv, Meddle, Hows
      <4>2. Len(meddled) + 1 \in DOMAIN meddled' /\ meddled'[Len(meddled) + 1] = "unseen"
        BY <4>1, Appended
      <4> QED BY <4>2 DEF Meddled
    <3> QED BY <1>0, <2>3, <3>1
  <2>4. SourceInv'
    <3>1. PICK v \in 1 .. Len(source) : copy.size = source[v] /\ copy.from \subseteq v .. Len(source)
      BY <2>3 DEF SourceInv
    <3>2. /\ copy'.size = source'[v] /\ copy'.from \subseteq v .. Len(source')
          /\ v \in 1 .. Len(source')
      BY <1>0, <2>2, <2>7, <3>1
    <3> QED BY <1>0, <1>1, <2>2, <2>3, <2>7, <3>2, FromFileSame DEF SourceInv
  <2>5. ASSUME NEW n \in DOMAIN taken, inputs[n].kind = "sourcePath", ~Meddled({"unseen"})
        PROVE  \E v \in DOMAIN source' : taken[n].from \subseteq {v} /\ taken[n].len = source'[v]
    <3>1. PICK v \in DOMAIN source : taken[n].from \subseteq {v} /\ taken[n].len = source[v]
      BY <2>5 DEF InputsWhole
    <3>2. v \in DOMAIN source' /\ source'[v] = source[v]
      BY <1>0, <2>2
    <3> QED BY <3>1, <3>2
  <2>6. InputsWhole'
    BY <1>1, <1>12, <2>3, <2>5 DEF InputsWhole
  <2> QED BY <2>4, <2>6
<1>9. CASE OpenOutput \/ MountOutput \/ Harden \/ HashOutput \/ ReadArtifact
  <2>1. UNCHANGED <<source, taken, copy>> /\ phase' \notin {"plan", "stageInput", "copy"}
    BY <1>9 DEF OpenOutput, MountOutput, Harden, HashOutput, ReadArtifact, Deliver, Refuse, Skip
  <2> QED BY <1>2, <1>3, <2>1
<1>10. ASSUME NEW n, GuestWrites(n) PROVE SourceInv' /\ InputsWhole'
  <2>1. UNCHANGED <<source, taken, copy, phase, item>>
    BY <1>10 DEF GuestWrites, Wrote
  <2> QED BY <1>2, <1>3, <2>1
<1>11. CASE Passing
  <2>1. UNCHANGED <<source, taken, copy>>
    BY <1>11 DEF Passing
  <2>2. \/ phase' \notin {"plan", "stageInput", "copy"} \/ UNCHANGED <<phase, item>>
        \/ Plan \/ BeginInput \/ CopyChunk \/ EndInput
    BY DEF Next, Node, Native, PlanRefuses, InputCollides, InputTooLarge, SourceShrank,
       ChunkTooLarge, InputsStaged, StageOutput, Staged, Aborted, Collected, ReadArtifact, Deliver,
       ValidateInputs, StatOutput, OpenOutput, OutputsPinned, MountOutput, Harden, ScanFile, ScanFolder,
       Alarm, ScanDone, ScanGoesOn, InspectOutputs, HashOutput, Answered, Refuse, Skip, GuestWrites,
       GuestPreallocates, Wrote, GuestEnds, HostReplaces, HostWrites, SourceEdited, HostLoosens, Meddle
  <2> QED BY <1>2, <1>3, <1>4, <1>5, <1>6, <1>7, <2>1, <2>2
<1> QED
  BY <1>5, <1>6, <1>7, <1>8, <1>9, <1>10, <1>11, PassingSteps

-----------------------------------------------------------------------------
(* The tree.                                                                *)

\* What a step leaves of the tree: a file that was there stays where it was, or goes.
LEMMA TreeSteps ==
    ASSUME TypeInv, [Next]_vars
    PROVE  \A p \in DOMAIN tree' : tree'[p] \in 1 .. Len(file) =>
              p \in DOMAIN tree /\ tree'[p] = tree[p]
<1>0. Len(file) \in Nat
  BY Elements DEF TypeInv
<1> DEFINE Stays == \A p \in DOMAIN tree' : tree'[p] \in 1 .. Len(file) =>
                       p \in DOMAIN tree /\ tree'[p] = tree[p]
<1>1. ASSUME tree' = tree \/ tree' = <<>> PROVE Stays
  BY <1>1
<1>2. ASSUME NEW at, Create(at) PROVE Stays
  BY <1>0, <1>2 DEF Create, Dir
<1>3. ASSUME NEW p, HostReplaces(p) PROVE Stays
  <2>1. ASSUME NEW what, PutAt(p, what), what \notin 1 .. Len(file) PROVE Stays
    BY <2>1 DEF PutAt
  <2>2. Symlink \notin 1 .. Len(file) /\ Len(file) + 1 \notin 1 .. Len(file)
    BY <1>0 DEF Symlink
  <2>3. PutAt(p, Symlink) \/ PutAt(p, Len(file) + 1)
    BY <1>3 DEF HostReplaces
  <2> HIDE DEF Stays
  <2> QED BY <2>1, <2>2, <2>3
<1>4. ASSUME Plan PROVE Stays
  BY <1>0, <1>4 DEF Plan, Dir
<1>5. ASSUME NEW why, Refuse(why) PROVE Stays
  BY <1>1, <1>5 DEF Refuse
<1> HIDE DEF Stays
<1> USE DEF vars, nodeVars, nativeVars, Skip
<1>6. ASSUME Node PROVE Stays
  <2>1. ASSUME BeginInput \/ StageOutput PROVE Stays
    BY <1>2, <1>5, <2>1 DEF BeginInput, StageOutput
  <2> QED BY <1>1, <1>4, <1>5, <1>6, <2>1 DEF Node, PlanRefuses,
     InputCollides, InputTooLarge, CopyChunk, SourceShrank, ChunkTooLarge, EndInput, InputTaken,
     InputsStaged, Staged, Aborted, ReadArtifact, Deliver, Collected
<1>7. ASSUME Native PROVE Stays
  BY <1>1, <1>5, <1>7 DEF Native, ValidateInputs, StatOutput, OpenOutput,
     OutputsPinned, MountOutput, Harden, ScanFile, ScanFolder, Alarm, ScanDone, ScanGoesOn, InspectOutputs, HashOutput,
     Answered
<1>8. ASSUME GuestEnds \/ SourceEdited \/ HostLoosens \/ UNCHANGED vars PROVE Stays
  BY <1>1, <1>8 DEF GuestEnds, SourceEdited, HostLoosens
<1>9. ASSUME NEW n \in DOMAIN mounted, GuestWrites(n) \/ GuestPreallocates(n) PROVE Stays
  BY <1>1, <1>9 DEF GuestWrites, GuestPreallocates, Wrote
<1>10. ASSUME NEW p, HostWrites(p) PROVE Stays
  BY <1>1, <1>10 DEF HostWrites
<1>11. Stays
  BY <1>3, <1>6, <1>7, <1>8, <1>9, <1>10 DEF Next
<1> QED BY <1>11 DEF Stays

LEMMA TreeKept ==
    ASSUME TypeInv, TreeInv, tree' = tree, outputs' = outputs,
           \A n \in 1 .. Len(file) : file'[n].links = file[n].links,
           Declared' \subseteq Declared,
           phase \notin {"plan", "refused"} \/ phase' \in {"plan", "refused"}
    PROVE  TreeInv'
<1>0. /\ \A p \in DOMAIN tree : tree[p] \in {0, -1} \cup 1 .. Len(file)
      /\ Len(file) \in Nat
  BY Elements DEF TypeInv, Dir, Symlink
<1>1. \A n : HostPath(n)' = HostPath(n)
  BY DEF HostPath
<1> QED BY <1>0, <1>1 DEF TreeInv

\* A file is created beside those that are there.
LEMMA TreeGrows ==
    ASSUME TypeInv, TreeInv, NEW at, Create(at), file' = Append(file, Empty),
           outputs' = outputs, phase \notin {"plan", "refused"},
           Declared' \subseteq Declared \cup {n \in Declared' : HostPath(n) = at /\ n = item}
    PROVE  TreeInv'
<1>0. /\ \A p \in DOMAIN tree : tree[p] \in {0, -1} \cup 1 .. Len(file)
      /\ Len(file) \in Nat
      /\ file'[Len(file) + 1].links = 1
      /\ \A n \in 1 .. Len(file) : file'[n] = file[n]
  BY Appended, InodeTypes DEF TypeInv, Dir, Symlink, Empty
<1>1. \A n : HostPath(n)' = HostPath(n)
  BY DEF HostPath
<1>2. /\ at \notin DOMAIN tree /\ DirsFree(at)
      /\ DOMAIN tree' = DOMAIN tree \cup Parents(at) \cup {at}
      /\ tree'[at] = Len(file) + 1
      /\ \A p \in Parents(at) : p # at => tree'[p] = 0
      /\ \A p \in DOMAIN tree : tree'[p] = tree[p]
  BY DEF Create, DirsFree, Dir
<1>3. \A p \in DOMAIN tree' : p = at \/ tree'[p] = 0 \/ (p \in DOMAIN tree /\ tree'[p] = tree[p])
  BY <1>2
<1>4. \A p \in DOMAIN tree' : tree'[p] > 0 =>
          /\ file'[tree'[p]].links > 0
          /\ \A q \in DOMAIN tree' : tree'[q] = tree'[p] => q = p
  <2>1. SUFFICES ASSUME NEW p \in DOMAIN tree', tree'[p] > 0
                 PROVE  /\ file'[tree'[p]].links > 0
                        /\ \A q \in DOMAIN tree' : tree'[q] = tree'[p] => q = p
    OBVIOUS
  <2>2. CASE p = at
    <3>1. ASSUME NEW q \in DOMAIN tree', tree'[q] = tree'[p] PROVE q = p
      BY <1>0, <1>2, <1>3, <2>2, <3>1
    <3> QED BY <1>0, <1>2, <2>2, <3>1
  <2>3. CASE p \in DOMAIN tree /\ tree'[p] = tree[p]
    <3>1. tree[p] \in 1 .. Len(file)
      BY <1>0, <2>1, <2>3
    <3>2. file[tree[p]].links > 0
      BY <2>1, <2>3 DEF TreeInv
    <3>3. ASSUME NEW q \in DOMAIN tree', tree'[q] = tree'[p] PROVE q = p
      <4>1. q # at /\ tree'[q] # 0
        BY <1>0, <1>2, <2>3, <3>1, <3>3
      <4>2. q \in DOMAIN tree /\ tree[q] = tree[p]
        BY <1>3, <2>3, <3>3, <4>1
      <4> QED BY <2>1, <2>3, <4>2 DEF TreeInv
    <3> QED BY <1>0, <2>3, <3>1, <3>2, <3>3
  <2>4. p = at \/ (p \in DOMAIN tree /\ tree'[p] = tree[p])
    <3>1. tree'[p] # 0
      BY <2>1
    <3> QED BY <1>3, <3>1
  <2> QED BY <2>2, <2>3, <2>4
<1>5. ASSUME NEW n \in Declared'
      PROVE  /\ HostPath(n) \in DOMAIN tree' /\ tree'[HostPath(n)] # Dir
             /\ \A m \in Declared' : HostPath(m) = HostPath(n) => m = n
  <2>1. \A m \in Declared' :
           \/ m \in Declared /\ HostPath(m) \in DOMAIN tree /\ tree[HostPath(m)] # 0
           \/ m = item /\ HostPath(m) = at
    BY DEF TreeInv, Dir
  <2>2. ASSUME NEW m \in Declared', HostPath(m) = HostPath(n) PROVE m = n
    BY <1>2, <2>1, <2>2 DEF TreeInv
  <2> QED BY <1>0, <1>2, <2>1, <2>2 DEF Dir
<1>6. <<"output">> \in DOMAIN tree' /\ tree'[<<"output">>] = Dir
  BY <1>2 DEF TreeInv
<1> QED BY <1>1, <1>4, <1>5, <1>6 DEF TreeInv

\* Something is put at a path that is no directory's.
LEMMA TreeReplaced ==
    ASSUME TypeInv, TreeInv, NEW p, HostReplaces(p), outputs' = outputs
    PROVE  TreeInv'
<1>0. /\ \A q \in DOMAIN tree : tree[q] \in {0, -1} \cup 1 .. Len(file)
      /\ Len(file) \in Nat
  BY Elements DEF TypeInv, Dir, Symlink
<1>1. \A n : HostPath(n)' = HostPath(n)
  BY DEF HostPath
<1>2. /\ Unlinked(p) \in Seq(Inode) /\ Len(Unlinked(p)) = Len(file)
      /\ \A n \in 1 .. Len(file) : ~(p \in DOMAIN tree /\ tree[p] = n) => Unlinked(p)[n] = file[n]
  <2>1. DOMAIN file = 1 .. Len(file)
    BY Elements DEF TypeInv
  <2> QED BY <2>1, UnlinkedType
<1>3. /\ phase' = phase /\ item' = item /\ Stands
      /\ p \in DOMAIN tree => tree[p] # 0
  BY DEF HostReplaces, Meddle, Dir
<1>4. Declared' = Declared
  BY <1>3 DEF Declared
<1>5. /\ DOMAIN tree' = DOMAIN tree \cup {p}
      /\ \A q \in DOMAIN tree' : q # p => q \in DOMAIN tree /\ tree'[q] = tree[q]
      /\ \A n \in 1 .. Len(file) : file'[n] = Unlinked(p)[n]
      /\ \/ tree'[p] = -1
         \/ tree'[p] = Len(file) + 1 /\ file'[Len(file) + 1].links > 0
  <2>1. CASE PutAt(p, Symlink) /\ file' = Unlinked(p)
    BY <2>1 DEF PutAt, Symlink
  <2>2. ASSUME NEW c \in Contents, NEW l \in {1, 2}, PutAt(p, Len(file) + 1),
               file' = Append(Unlinked(p), [len |-> c.len, data |-> c.data, links |-> l,
                                            blocks |-> BlocksOf(c.len)])
        PROVE  /\ DOMAIN tree' = DOMAIN tree \cup {p}
               /\ \A q \in DOMAIN tree' : q # p => q \in DOMAIN tree /\ tree'[q] = tree[q]
               /\ \A n \in 1 .. Len(file) : file'[n] = Unlinked(p)[n]
               /\ tree'[p] = Len(file) + 1 /\ file'[Len(file) + 1].links > 0
    <3>1. c \in Written
      BY InodeTypes
    <3>2. BlocksOf(c.len) \in Nat
      BY <3>1, BlocksBound DEF Written
    <3>3. [len |-> c.len, data |-> c.data, links |-> l, blocks |-> BlocksOf(c.len)] \in Inode
      BY <3>1, <3>2 DEF Inode, Written
    <3> HIDE DEF Inode
    <3>4. /\ file'[Len(file) + 1] = [len |-> c.len, data |-> c.data, links |-> l,
                                     blocks |-> BlocksOf(c.len)]
          /\ \A n \in 1 .. Len(file) : file'[n] = Unlinked(p)[n]
      BY <1>2, <2>2, <3>3, Appended
    <3>5. file'[Len(file) + 1].links = l /\ l > 0
      BY <3>4
    <3>6. /\ DOMAIN tree' = DOMAIN tree \cup {p}
          /\ \A q \in DOMAIN tree' : q # p => q \in DOMAIN tree /\ tree'[q] = tree[q]
          /\ tree'[p] = Len(file) + 1
      BY <2>2 DEF PutAt
    <3> QED BY <3>4, <3>5, <3>6
  <2> QED BY <2>1, <2>2 DEF HostReplaces
<1>6. \A q \in DOMAIN tree' : tree'[q] > 0 =>
          /\ file'[tree'[q]].links > 0
          /\ \A r \in DOMAIN tree' : tree'[r] = tree'[q] => r = q
  <2>1. SUFFICES ASSUME NEW q \in DOMAIN tree', tree'[q] > 0
                 PROVE  /\ file'[tree'[q]].links > 0
                        /\ \A r \in DOMAIN tree' : tree'[r] = tree'[q] => r = q
    OBVIOUS
  <2>2. CASE q = p
    BY <1>0, <1>5, <2>1, <2>2
  <2>3. CASE q # p
    <3>1. q \in DOMAIN tree /\ tree'[q] = tree[q] /\ tree[q] \in 1 .. Len(file)
      BY <1>0, <1>5, <2>1, <2>3
    <3>2. file[tree[q]].links > 0 /\ \A r \in DOMAIN tree : tree[r] = tree[q] => r = q
      BY <2>1, <3>1 DEF TreeInv
    <3>3. file'[tree[q]] = file[tree[q]]
      BY <1>2, <1>5, <2>3, <3>1, <3>2
    <3>4. ASSUME NEW r \in DOMAIN tree', tree'[r] = tree'[q] PROVE r = q
      BY <1>0, <1>5, <3>1, <3>2, <3>4
    <3> QED BY <3>1, <3>2, <3>3, <3>4
  <2> QED BY <2>2, <2>3
<1>7. ASSUME NEW n \in Declared
      PROVE  HostPath(n) \in DOMAIN tree' /\ tree'[HostPath(n)] # Dir
  <2>1. HostPath(n) \in DOMAIN tree /\ tree[HostPath(n)] # 0
    BY DEF TreeInv, Dir
  <2> QED BY <1>0, <1>5, <2>1 DEF Dir
<1>8. <<"output">> \in DOMAIN tree' /\ tree'[<<"output">>] = Dir
  <2>1. phase \notin {"plan", "refused"}
    BY <1>3 DEF Stands
  <2>2. <<"output">> \in DOMAIN tree /\ tree[<<"output">>] = 0
    BY <2>1 DEF TreeInv, Dir
  <2> QED BY <1>3, <1>5, <2>2 DEF Dir
<1>9. ASSUME NEW n \in Declared, NEW m \in Declared, HostPath(m) = HostPath(n) PROVE m = n
  BY <1>9 DEF TreeInv
<1> QED BY <1>1, <1>4, <1>6, <1>7, <1>8, <1>9 DEF TreeInv

LEMMA NextTree ==
    ASSUME TypeInv, ItemInv, TreeInv, [Next]_vars
    PROVE  TreeInv'
<1>0. /\ item \in Nat \ {0} /\ DOMAIN outputs = 1 .. Len(outputs) /\ Len(outputs) \in Nat
      /\ file \in Seq(Inode) /\ DOMAIN file = 1 .. Len(file) /\ Len(file) \in Nat
      /\ \A n \in DOMAIN mounted : mounted[n] \in DOMAIN file
  BY RequestType, Elements DEF TypeInv
<1>1. request' = request /\ outputs' = outputs
  BY PhaseSteps, SameRequest
<1> USE DEF vars, nodeVars, nativeVars
\* Steps that leave the tree and the links of every file alone.
<1>2. ASSUME tree' = tree, file' = file, Declared' \subseteq Declared,
             phase \notin {"plan", "refused"} \/ phase' = phase
      PROVE  TreeInv'
  BY <1>1, <1>2, TreeKept
<1>3. ASSUME NEW why, Refuse(why) PROVE TreeInv'
  <2>1. phase' = "refused" /\ Declared' = {} /\ file' = file /\ tree' \in {tree, <<>>}
    BY <1>3 DEF Refuse, Declared
  <2>2. CASE tree' = tree
    BY <1>1, <2>1, <2>2, TreeKept
  <2>3. CASE tree' = <<>>
    BY <2>1, <2>3 DEF TreeInv
  <2> QED BY <2>1, <2>2, <2>3
<1>4. ASSUME NEW to, NEW n, Go(to, n), tree' = tree, file' = file,
             phase \notin {"plan", "refused", "stageInput", "copy", "stageOutput"},
             to \notin {"plan", "refused", "stageInput", "copy", "stageOutput"}
      PROVE  TreeInv'
  <2>1. Declared' = Declared
    BY <1>1, <1>4 DEF Declared, Go
  <2> QED BY <1>2, <1>4, <2>1
<1>5. ASSUME tree' = tree, UNCHANGED <<phase, item>>,
             \E k, f : file' = [file EXCEPT ![k] = f] /\ (k \in DOMAIN file => f.links = file[k].links)
      PROVE  TreeInv'
  <2>1. PICK k, f : file' = [file EXCEPT ![k] = f] /\ (k \in DOMAIN file => f.links = file[k].links)
    BY <1>5
  <2>2. \A n \in 1 .. Len(file) : file'[n].links = file[n].links
    BY <1>0, <2>1
  <2>3. Declared' = Declared
    BY <1>1, <1>5 DEF Declared
  <2>4. phase \notin {"plan", "refused"} \/ phase' \in {"plan", "refused"}
    BY <1>5
  <2> QED BY <1>1, <1>5, <2>2, <2>3, <2>4, TreeKept
<1>6. ASSUME UNCHANGED <<tree, file, phase, item>> PROVE TreeInv'
  BY <1>1, <1>2, <1>6 DEF Declared
<1>7. CASE Node
  <2>1. CASE Plan
    <3>1. Declared' = {} /\ DOMAIN tree' = {<<"input">>, <<"output">>}
          /\ \A d \in DOMAIN tree' : tree'[d] = 0
      BY <2>1 DEF Plan, Go, Declared, Dir
    <3> QED BY <3>1 DEF TreeInv, Dir
  <2>2. CASE PlanRefuses \/ InputCollides \/ InputTooLarge \/ SourceShrank \/ ChunkTooLarge
             \/ Aborted
    BY <1>3, <2>2 DEF PlanRefuses, InputCollides, InputTooLarge, SourceShrank, ChunkTooLarge,
       Aborted
  <2>3. CASE BeginInput
    <3>1. /\ phase = "stageInput" /\ phase' = "copy" /\ Create(Target)
          /\ file' = Append(file, Empty)
      BY <2>3 DEF BeginInput, Staging, Go
    <3>2. Declared' = {} /\ phase \notin {"plan", "refused"}
      BY <3>1 DEF Declared
    <3> QED BY <1>1, <3>1, <3>2, TreeGrows
  <2>4. CASE CopyChunk
    <3>1. \A f : Grow(f, copy.len + 1).links = f.links \/ f \notin Inode
      BY DEF Grow, Inode
    <3>2. /\ tree' = tree /\ phase = "copy" /\ phase' = "copy" /\ item' = item
          /\ file' = [file EXCEPT ![Len(file)] = Grow(file[Len(file)], copy.len + 1)]
      BY <2>4 DEF CopyChunk, Go
    <3>3. Len(file) \in DOMAIN file => file[Len(file)] \in Inode
      BY <1>0, Elements
    <3>4. Len(file) \in DOMAIN file =>
            Grow(file[Len(file)], copy.len + 1).links = file[Len(file)].links
      BY <3>1, <3>3
    <3> QED BY <1>5, <3>2, <3>4
  <2>5. CASE EndInput
    <3>1. CASE InputTaken
      <4>1. tree' = tree /\ file' = file /\ phase = "copy" /\ phase' = "stageInput"
        BY <2>5, <3>1 DEF EndInput, InputTaken, Go
      <4> QED BY <1>2, <4>1 DEF Declared
    <3> QED BY <1>3, <2>5, <3>1 DEF EndInput
  <2>6. CASE InputsStaged
    <3>1. /\ tree' = tree /\ file' = file /\ phase = "stageInput" /\ phase' = "stageOutput"
          /\ item' = 1
      BY <2>6 DEF InputsStaged, Go
    <3>2. Declared' = {}
      BY <1>0, <1>1, <3>1 DEF Declared
    <3> QED BY <1>2, <3>1, <3>2
  <2>7. CASE StageOutput
    <3>1. CASE Refuse("collision")
      BY <1>3, <3>1
    <3>2. CASE Create(HostPath(item)) /\ file' = Append(file, Empty)
               /\ Go("stageOutput", item + 1)
      <4>1. phase = "stageOutput" /\ phase' = "stageOutput" /\ item' = item + 1
        BY <2>7, <3>2 DEF StageOutput, Go
      <4>2. Declared' = {n \in DOMAIN outputs : n < item + 1}
            /\ Declared = {n \in DOMAIN outputs : n < item}
        BY <1>1, <4>1 DEF Declared
      <4>3. Declared' \subseteq Declared \cup {n \in Declared' : HostPath(n) = HostPath(item) /\ n = item}
        BY <1>0, <4>2
      <4> QED BY <1>1, <3>2, <4>1, <4>3, TreeGrows
    <3> QED BY <2>7, <3>1, <3>2 DEF StageOutput, HostPath
  <2>8. CASE Staged
    <3>1. /\ tree' = tree /\ file' = file /\ phase = "stageOutput" /\ phase' = "validate"
          /\ item = Len(outputs) + 1
      BY <2>8 DEF Staged, Go
    <3>2. Declared' \subseteq Declared
      BY <1>0, <1>1, <3>1 DEF Declared
    <3> QED BY <1>2, <3>1, <3>2
  <2>9. CASE ReadArtifact \/ Collected
    BY <1>3, <1>4, <2>9 DEF ReadArtifact, Deliver, Collected, Skip
  <2> QED BY <1>7, <2>1, <2>2, <2>3, <2>4, <2>5, <2>6, <2>7, <2>8, <2>9 DEF Node
<1>8. CASE Native
  <2>1. CASE ValidateInputs \/ StatOutput \/ OpenOutput \/ OutputsPinned \/ MountOutput \/ Harden
    BY <1>3, <1>4, <2>1 DEF ValidateInputs, StatOutput, OpenOutput, OutputsPinned, MountOutput,
       Harden, Skip
  <2>2. CASE InspectOutputs \/ HashOutput \/ Answered
    BY <1>3, <1>4, <2>2 DEF InspectOutputs, HashOutput, Answered, Skip
  <2>3. ASSUME Alarm PROVE TreeInv'
    <3>1. tree' = tree /\ file' = file /\ phase' = "refused" /\ Declared' = {}
      BY <2>3 DEF Alarm, Declared
    <3> QED BY <1>1, <3>1, TreeKept
  <2>4. ASSUME NEW p, ScanFile(p) \/ ScanFolder(p) PROVE TreeInv'
    BY <1>6, <2>3, <2>4 DEF ScanFile, ScanFolder, ScanGoesOn
  <2>5. CASE ScanDone
    BY <1>6, <2>5 DEF ScanDone, ScanGoesOn
  <2> QED BY <1>8, <2>1, <2>2, <2>4, <2>5 DEF Native
<1>9. CASE GuestEnds
  BY <1>4, <1>9 DEF GuestEnds, Skip
<1>10. ASSUME NEW n \in DOMAIN mounted, GuestWrites(n) PROVE TreeInv'
  <2>1. file[mounted[n]] \in Inode /\ tree' = tree /\ UNCHANGED <<phase, item>>
    BY <1>0, <1>10, Elements DEF GuestWrites, Wrote
  <2>2. PICK c \in Contents, sparse \in BOOLEAN :
          file' = [file EXCEPT ![mounted[n]] =
                      [@ EXCEPT !.len = c.len, !.data = c.data,
                                !.blocks = IF sparse THEN 0 ELSE BlocksOf(c.len)]]
    BY <1>10 DEF GuestWrites, Wrote
  <2>3. [file[mounted[n]] EXCEPT !.len = c.len, !.data = c.data,
            !.blocks = IF sparse THEN 0 ELSE BlocksOf(c.len)].links = file[mounted[n]].links
    BY <2>1 DEF Inode
  <2> QED BY <1>5, <2>1, <2>2, <2>3
<1>11. ASSUME NEW n \in DOMAIN mounted, GuestPreallocates(n) PROVE TreeInv'
  <2>1. file[mounted[n]] \in Inode /\ tree' = tree /\ UNCHANGED <<phase, item>>
    BY <1>0, <1>11, Elements DEF GuestPreallocates, Wrote
  <2>2. [file[mounted[n]] EXCEPT !.blocks = limits.outputBytes + 2 * Block].links
          = file[mounted[n]].links
    BY <2>1 DEF Inode
  <2>3. \/ file' = file
        \/ file' = [file EXCEPT ![mounted[n]] =
                      [file[mounted[n]] EXCEPT !.blocks = limits.outputBytes + 2 * Block]]
    BY <1>11 DEF GuestPreallocates, Wrote
  <2> QED BY <1>5, <1>6, <2>1, <2>2, <2>3
<1>12. ASSUME NEW p, HostReplaces(p) PROVE TreeInv'
  BY <1>1, <1>12, TreeReplaced
<1>13. ASSUME NEW p \in DOMAIN tree, HostWrites(p) PROVE TreeInv'
  <2>1. tree' = tree /\ UNCHANGED <<phase, item>> /\ tree[p] > 0
    BY <1>13 DEF HostWrites, Meddle
  <2>0. tree[p] \in {0, -1} \cup 1 .. Len(file)
    BY DEF TypeInv, Dir, Symlink
  <2>2. tree[p] \in 1 .. Len(file)
    BY <2>0, <2>1
  <2>3. PICK c \in Contents :
          file' = [file EXCEPT ![tree[p]] = [@ EXCEPT !.len = c.len, !.data = c.data,
                                                      !.blocks = BlocksOf(c.len)]]
    BY <1>13 DEF HostWrites
  <2>4. file[tree[p]] \in Inode
    BY <1>0, <2>2, Elements
  <2>5. [file[tree[p]] EXCEPT !.len = c.len, !.data = c.data, !.blocks = BlocksOf(c.len)].links
          = file[tree[p]].links
    BY <2>4 DEF Inode
  <2> QED BY <1>5, <2>1, <2>3, <2>5
<1>14. CASE SourceEdited \/ HostLoosens \/ UNCHANGED vars
  BY <1>6, <1>14 DEF SourceEdited, HostLoosens, Meddle
<1>15. Files("output") \subseteq DOMAIN tree
  BY DEF Files
<1> QED
  BY <1>7, <1>8, <1>9, <1>10, <1>11, <1>12, <1>13, <1>14, <1>15 DEF Next

-----------------------------------------------------------------------------
(* What is pinned and mounted.                                              *)

LEMMA NextPin ==
    ASSUME TypeInv, ItemInv, TreeInv, PinInv, [Next]_vars
    PROVE  PinInv'
<1>0. /\ item \in Nat \ {0} /\ DOMAIN outputs = 1 .. Len(outputs) /\ Len(outputs) \in Nat
      /\ pinned \in Seq(1 .. Len(file)) /\ mounted \in Seq(1 .. Len(file))
      /\ DOMAIN pinned = 1 .. Len(pinned) /\ DOMAIN mounted = 1 .. Len(mounted)
      /\ Len(pinned) \in Nat /\ Len(mounted) \in Nat
      /\ \A n \in DOMAIN pinned : pinned[n] \in 1 .. Len(file)
  BY RequestType, Elements DEF TypeInv
<1>1. request' = request /\ outputs' = outputs /\ \A n : HostPath(n)' = HostPath(n)
  BY PhaseSteps, SameRequest
<1>2. phase # "refused" => \A n \in DOMAIN pinned :
        /\ \A p \in DOMAIN tree' : tree'[p] = pinned[n] => p = HostPath(n)
        /\ \A m \in DOMAIN pinned : pinned[m] = pinned[n] => m = n
  BY <1>0, TreeSteps DEF PinInv
<1> DEFINE Counts ==
      /\ phase \in {"plan", "stageInput", "copy", "stageOutput", "validate"} => pinned = <<>>
      /\ phase \in {"stat", "open"} => Len(pinned) = item - 1 /\ mounted = <<>>
      /\ phase = "mount" => Len(pinned) = Len(outputs) /\ Len(mounted) = item - 1
      /\ phase \in {"guest", "inspect", "hash", "read", "done"} => Len(mounted) = Len(outputs)
<1> USE DEF nodeVars, nativeVars, vars
<1>3. ASSUME UNCHANGED <<pinned, mounted>>, Counts', phase # "refused" \/ phase' = "refused"
      PROVE  PinInv'
  BY <1>1, <1>2, <1>3 DEF PinInv
<1>4. /\ Len(mounted) <= Len(pinned) /\ Len(pinned) <= Len(outputs) /\ Counts
      /\ \A n \in DOMAIN mounted : mounted[n] = pinned[n]
  BY DEF PinInv
<1>5. ASSUME NEW why, Refuse(why) PROVE PinInv'
  BY <1>3, <1>5 DEF Refuse
<1>6. ASSUME UNCHANGED <<phase, item, pinned, mounted>> PROVE PinInv'
  BY <1>1, <1>3, <1>4, <1>6
<1> USE DEF Go, Skip
<1>7. CASE Node
  <2>1. ASSUME Plan \/ BeginInput \/ CopyChunk \/ InputTaken \/ InputsStaged \/ Staged
               \/ (Go("stageOutput", item + 1) /\ UNCHANGED nativeVars),
               phase \in {"plan", "stageInput", "copy", "stageOutput"}
        PROVE  PinInv'
    <3>1. /\ phase' \in {"stageInput", "copy", "stageOutput", "validate"}
          /\ UNCHANGED <<pinned, mounted>>
      BY <2>1 DEF Plan, BeginInput, CopyChunk, InputTaken, InputsStaged, Staged
    <3>2. Counts'
      BY <1>4, <2>1, <3>1
    <3> QED BY <1>3, <2>1, <3>1, <3>2
  <2>2. CASE PlanRefuses \/ InputCollides \/ InputTooLarge \/ SourceShrank \/ ChunkTooLarge
             \/ Aborted
    BY <1>5, <2>2 DEF PlanRefuses, InputCollides, InputTooLarge, SourceShrank, ChunkTooLarge,
       Aborted
  <2>3. CASE Plan \/ BeginInput \/ CopyChunk \/ InputsStaged \/ Staged
    <3>1. phase \in {"plan", "stageInput", "copy", "stageOutput"}
      BY <2>3 DEF Plan, BeginInput, CopyChunk, InputsStaged, Staged, Staging
    <3> QED BY <2>1, <2>3, <3>1
  <2>4. CASE EndInput
    <3>1. phase = "copy" /\ (InputTaken \/ Refuse("source"))
      BY <2>4 DEF EndInput
    <3> QED BY <1>5, <2>1, <3>1
  <2>5. CASE StageOutput
    <3>1. /\ phase = "stageOutput"
          /\ Refuse("collision") \/ (Go("stageOutput", item + 1) /\ UNCHANGED nativeVars)
      BY <2>5 DEF StageOutput
    <3> QED BY <1>5, <2>1, <3>1
  <2>6. CASE ReadArtifact \/ Collected
    <3>1. ASSUME phase = "read", phase' \in {"read", "done"}, UNCHANGED <<pinned, mounted>>
          PROVE  PinInv'
      BY <1>1, <1>3, <1>4, <3>1
    <3>2. \/ Refuse("collect")
          \/ phase = "read" /\ phase' \in {"read", "done"} /\ UNCHANGED <<pinned, mounted>>
      BY <2>6 DEF ReadArtifact, Deliver, Collected
    <3> QED BY <1>5, <3>1, <3>2
  <2> QED BY <1>7, <2>2, <2>3, <2>4, <2>5, <2>6 DEF Node
<1>8. CASE Native
  <2>0. ASSUME Refuse("native") PROVE PinInv'
    BY <1>5, <2>0
  <2>1. CASE ValidateInputs
    <3>1. ASSUME phase = "validate", Skip("stat", 1) PROVE PinInv'
      <4>1. phase' = "stat" /\ item' = 1 /\ pinned' = pinned /\ mounted' = mounted
            /\ pinned = <<>> /\ mounted = <<>>
        BY <1>0, <1>4, <3>1
      <4> QED BY <1>3, <3>1, <4>1
    <3> QED BY <2>0, <2>1, <3>1 DEF ValidateInputs
  <2>2. CASE StatOutput
    <3>1. ASSUME phase = "stat", Skip("open", item) PROVE PinInv'
      BY <1>3, <1>4, <3>1
    <3> QED BY <2>0, <2>2, <3>1 DEF StatOutput
  <2>3. CASE OpenOutput
    <3> DEFINE ino == tree[HostPath(item)]
    <3>0. phase = "open" /\ item \in DOMAIN outputs
      BY <1>0, <2>3 DEF OpenOutput, ItemInv
    <3>1. ASSUME ino > 0, pinned' = Append(pinned, ino), Go("stat", item + 1),
                 UNCHANGED <<tree, mounted>>
          PROVE PinInv'
      <4>1. /\ item \in Declared /\ HostPath(item) \in DOMAIN tree
            /\ \A m \in Declared : HostPath(m) = HostPath(item) => m = item
        BY <3>0 DEF TreeInv, Declared
      <4>2. ino \in 1 .. Len(file)
        <5>1. ino \in {0, -1} \cup 1 .. Len(file)
          BY <4>1 DEF TypeInv, Dir, Symlink
        <5> QED BY <3>1, <5>1
      <4>3. \A p \in DOMAIN tree : tree[p] = ino => p = HostPath(item)
        BY <3>1, <4>1 DEF TreeInv
      <4> HIDE DEF ino
      <4>4. /\ Len(pinned') = Len(pinned) + 1 /\ DOMAIN pinned' = 1 .. Len(pinned) + 1
            /\ pinned'[Len(pinned) + 1] = ino
            /\ \A n \in 1 .. Len(pinned) : pinned'[n] = pinned[n]
        <5>1. pinned \in Seq(1 .. Len(file)) /\ pinned' = Append(pinned, ino)
          BY <1>0, <3>1 DEF ino
        <5> QED BY <4>2, <5>1, Appended
      <4>5. Len(pinned) = item - 1 /\ mounted = <<>>
        BY <1>4, <3>0
      <4>6. \A n \in 1 .. Len(pinned) : pinned[n] # ino
        <5>1. ASSUME NEW n \in 1 .. Len(pinned), pinned[n] = ino PROVE FALSE
          <6>1. HostPath(item) = HostPath(n) /\ tree[HostPath(item)] = ino
            BY <1>0, <3>0, <4>1, <5>1 DEF PinInv, ino
          <6>2. n \in Declared
            <7>1. Declared = DOMAIN outputs
              BY <3>0 DEF Declared
            <7>2. Len(pinned) <= Len(outputs)
              BY <1>4
            <7> QED BY <1>0, <7>1, <7>2
          <6> QED BY <1>0, <4>1, <4>5, <6>1, <6>2
        <5> QED BY <5>1
      <4>7. /\ phase' = "stat" /\ item' = item + 1 /\ mounted' = <<>> /\ tree' = tree
            /\ outputs' = outputs
        BY <1>1, <3>1, <4>5
      <4>8. \A n \in DOMAIN pinned' :
               /\ \A p \in DOMAIN tree : tree[p] = pinned'[n] => p = HostPath(n)
               /\ \A m \in DOMAIN pinned' : pinned'[m] = pinned'[n] => m = n
        <5>1. SUFFICES ASSUME NEW n \in DOMAIN pinned'
                       PROVE  /\ \A p \in DOMAIN tree : tree[p] = pinned'[n] => p = HostPath(n)
                              /\ \A m \in DOMAIN pinned' : pinned'[m] = pinned'[n] => m = n
          OBVIOUS
        <5>2. CASE n = item
          BY <1>0, <4>3, <4>4, <4>5, <4>6, <5>2
        <5>3. CASE n \in 1 .. Len(pinned)
          <6>1. pinned'[n] = pinned[n]
            BY <4>4, <5>3
          <6>2. \A p \in DOMAIN tree : tree[p] = pinned[n] => p = HostPath(n)
            BY <1>0, <3>0, <5>3 DEF PinInv
          <6>3. ASSUME NEW m \in DOMAIN pinned', pinned'[m] = pinned'[n] PROVE m = n
            <7>1. m \in 1 .. Len(pinned)
              BY <1>0, <4>4, <4>6, <5>3, <6>1, <6>3
            <7>2. pinned[m] = pinned[n]
              BY <4>4, <6>1, <6>3, <7>1
            <7> QED BY <1>0, <3>0, <5>3, <7>1, <7>2 DEF PinInv
          <6> QED BY <6>1, <6>2, <6>3
        <5> QED BY <1>0, <4>4, <4>5, <5>1, <5>2, <5>3
      <4>9. Len(mounted') <= Len(pinned') /\ Len(pinned') <= Len(outputs) /\ DOMAIN mounted' = {}
        BY <1>0, <3>0, <4>4, <4>5, <4>7
      <4>10. Counts'
        BY <1>0, <4>4, <4>5, <4>7
      <4> HIDE DEF Counts
      <4>11. Counts'
        BY <4>10
      <4> QED BY <1>1, <4>7, <4>8, <4>9, <4>11 DEF PinInv, Counts
    <3> QED BY <2>0, <2>3, <3>1 DEF OpenOutput
  <2>4. CASE OutputsPinned
    <3>1. ASSUME phase = "stat", item = Len(outputs) + 1, Skip("mount", 1) PROVE PinInv'
      <4>1. phase' = "mount" /\ item' = 1 /\ pinned' = pinned /\ mounted' = mounted
            /\ Len(pinned) = Len(outputs) /\ Len(mounted) = 0
        <5>1. Len(pinned) = item - 1 /\ mounted = <<>>
          BY <1>4, <3>1
        <5> QED BY <1>0, <3>1, <5>1
      <4> QED BY <1>1, <1>3, <3>1, <4>1
    <3> QED BY <2>0, <2>4, <3>1 DEF OutputsPinned
  <2>5. CASE MountOutput
    <3>0. phase = "mount" /\ item \in DOMAIN outputs
      BY <2>5 DEF MountOutput
    <3>1. ASSUME mounted' = Append(mounted, pinned[item]), Go("mount", item + 1),
                 UNCHANGED <<tree, pinned>>
          PROVE PinInv'
      <4>1. Len(mounted) = item - 1 /\ Len(pinned) = Len(outputs) /\ item \in DOMAIN pinned
        BY <1>0, <1>4, <3>0
      <4>2. /\ Len(mounted') = item /\ DOMAIN mounted' = 1 .. item
            /\ mounted'[item] = pinned[item]
            /\ \A n \in 1 .. Len(mounted) : mounted'[n] = mounted[n]
        BY <1>0, <3>1, <4>1, Appended
      <4>3. \A n \in DOMAIN mounted' : mounted'[n] = pinned[n]
        BY SMTT(30), <1>0, <1>4, <4>1, <4>2
      <4>4. /\ phase' = "mount" /\ item' = item + 1 /\ pinned' = pinned /\ tree' = tree
            /\ outputs' = outputs
        BY <1>1, <3>1
      <4>5. Len(mounted') <= Len(pinned') /\ Len(pinned') <= Len(outputs')
            /\ Len(mounted') = item' - 1
        BY <1>0, <1>4, <3>0, <4>1, <4>2, <4>4
      <4> QED BY <1>1, <1>2, <3>0, <4>1, <4>3, <4>4, <4>5 DEF PinInv
    <3> QED BY <2>0, <2>5, <3>1 DEF MountOutput
  <2>6. CASE Harden
    <3>1. /\ phase' = "guest" /\ pinned' = pinned /\ mounted' = mounted
          /\ Len(mounted) = Len(outputs) /\ phase = "mount"
      <4>1. phase = "mount" /\ item = Len(outputs) + 1
        BY <2>6 DEF Harden
      <4>2. Len(mounted) = item - 1
        BY <1>4, <4>1
      <4> QED BY <1>0, <2>6, <4>1, <4>2 DEF Harden
    <3> QED BY <1>1, <1>3, <3>1
  <2>7. ASSUME NEW p, ScanFile(p) \/ ScanFolder(p) PROVE PinInv'
    <3>1. CASE Alarm
      BY <1>3, <3>1 DEF Alarm
    <3> QED BY <1>6, <2>7, <3>1 DEF ScanFile, ScanFolder, ScanGoesOn
  <2>8. CASE ScanDone
    BY <1>6, <2>8 DEF ScanDone, ScanGoesOn
  <2>9. CASE InspectOutputs \/ HashOutput \/ Answered
    <3>1. ASSUME phase \in {"inspect", "hash"}, phase' \in {"hash", "read"},
                 UNCHANGED <<pinned, mounted>>
          PROVE  PinInv'
      BY <1>1, <1>3, <1>4, <3>1
    <3>2. \/ Refuse("native")
          \/ phase \in {"inspect", "hash"} /\ phase' \in {"hash", "read"}
             /\ UNCHANGED <<pinned, mounted>>
      BY <2>9 DEF InspectOutputs, HashOutput, Answered
    <3> QED BY <2>0, <3>1, <3>2
  <2> QED BY <1>8, <2>1, <2>2, <2>3, <2>4, <2>5, <2>6, <2>7, <2>8, <2>9 DEF Native
<1>9. CASE GuestEnds
  BY <1>1, <1>3, <1>4, <1>9 DEF GuestEnds
<1>10. ASSUME NEW n \in DOMAIN mounted, GuestWrites(n) \/ GuestPreallocates(n) PROVE PinInv'
  BY <1>6, <1>10 DEF GuestWrites, GuestPreallocates, Wrote
<1>11. ASSUME NEW p, HostReplaces(p) \/ HostWrites(p) PROVE PinInv'
  BY <1>6, <1>11 DEF HostReplaces, HostWrites, Meddle
<1>12. CASE SourceEdited \/ HostLoosens \/ UNCHANGED vars
  BY <1>6, <1>12 DEF SourceEdited, HostLoosens, Meddle
<1> QED
  BY <1>7, <1>8, <1>9, <1>10, <1>11, <1>12 DEF Next

-----------------------------------------------------------------------------
(* What the files hold.                                                     *)

\* A file renamed over another changes the length and the content of none.
LEMMA HostReplacesSame ==
    ASSUME TypeInv, TreeInv, NEW p, HostReplaces(p)
    PROVE  \A n \in 1 .. Len(file) :
              file'[n].len = file[n].len /\ file'[n].data = file[n].data
<1>0. DOMAIN file = 1 .. Len(file)
  BY Elements DEF TypeInv
<1>1. /\ Unlinked(p) \in Seq(Inode) /\ Len(Unlinked(p)) = Len(file)
      /\ \A n \in 1 .. Len(file) : Unlinked(p)[n].len = file[n].len
                                   /\ Unlinked(p)[n].data = file[n].data
  BY <1>0, UnlinkedType
<1>2. ASSUME NEW c \in Contents, NEW l \in {1, 2},
             file' = Append(Unlinked(p), [len |-> c.len, data |-> c.data, links |-> l,
                                          blocks |-> BlocksOf(c.len)])
      PROVE  \A n \in 1 .. Len(file) : file'[n] = Unlinked(p)[n]
  <2>1. c \in Written
    BY InodeTypes
  <2>2. BlocksOf(c.len) \in Nat
    BY <2>1, BlocksBound DEF Written
  <2>3. [len |-> c.len, data |-> c.data, links |-> l, blocks |-> BlocksOf(c.len)] \in Inode
    BY <2>1, <2>2 DEF Inode, Written
  <2> HIDE DEF Inode
  <2> QED BY <1>1, <1>2, <2>3, Appended
<1>3. file' = Unlinked(p) \/ \A n \in 1 .. Len(file) : file'[n] = Unlinked(p)[n]
  BY <1>2 DEF HostReplaces
<1> QED BY <1>1, <1>3

\* Only staging, the guest and the other process write files.
LEMMA ContentSteps ==
    ASSUME TypeInv, TreeInv, [Next]_vars
    PROVE  \/ CopyChunk
           \/ \E n \in DOMAIN mounted : GuestWrites(n)
           \/ \E p \in Files("output") : HostWrites(p)
           \/ \A n \in 1 .. Len(file) :
                 file'[n].len = file[n].len /\ file'[n].data = file[n].data
<1>0. /\ file \in Seq(Inode) /\ DOMAIN file = 1 .. Len(file) /\ Len(file) \in Nat
      /\ \A n \in DOMAIN file : file[n] \in Inode
      /\ \A n \in DOMAIN mounted : mounted[n] \in DOMAIN file
  BY Elements DEF TypeInv
<1> DEFINE Same == \A n \in 1 .. Len(file) :
                      file'[n].len = file[n].len /\ file'[n].data = file[n].data
<1>1. ASSUME file' = file PROVE Same
  BY <1>1
<1>2. ASSUME file' = Append(file, Empty) PROVE Same
  BY <1>0, <1>2, Appended, InodeTypes
<1>3. ASSUME NEW n \in DOMAIN mounted, GuestPreallocates(n) PROVE Same
  <2>1. [file[mounted[n]] EXCEPT !.blocks = limits.outputBytes + 2 * Block].len
            = file[mounted[n]].len
        /\ [file[mounted[n]] EXCEPT !.blocks = limits.outputBytes + 2 * Block].data
            = file[mounted[n]].data
    BY <1>0 DEF Inode
  <2>2. \/ file' = file
        \/ file' = [file EXCEPT ![mounted[n]] =
                      [file[mounted[n]] EXCEPT !.blocks = limits.outputBytes + 2 * Block]]
    BY <1>3 DEF GuestPreallocates, Wrote
  <2> QED BY <1>0, <2>1, <2>2
<1>4. ASSUME NEW p, HostReplaces(p) PROVE Same
  BY <1>4, HostReplacesSame
<1>5. ASSUME NEW why, Refuse(why) PROVE Same
  BY <1>5 DEF Refuse
<1> HIDE DEF Same
<1> USE DEF vars, nodeVars, nativeVars, Skip
<1>6. ASSUME Node, ~CopyChunk PROVE Same
  BY <1>1, <1>2, <1>5, <1>6 DEF Node, Plan, PlanRefuses, BeginInput, StageOutput,
     InputCollides, InputTooLarge, SourceShrank, ChunkTooLarge, EndInput, InputTaken,
     InputsStaged, Staged, Aborted, ReadArtifact, Deliver, Collected
<1>7. ASSUME Native PROVE Same
  BY <1>1, <1>5, <1>7 DEF Native, ValidateInputs, StatOutput, OpenOutput,
     OutputsPinned, MountOutput, Harden, ScanFile, ScanFolder, Alarm, ScanDone, ScanGoesOn, InspectOutputs, HashOutput,
     Answered
<1>8. ASSUME GuestEnds \/ SourceEdited \/ HostLoosens \/ UNCHANGED vars PROVE Same
  BY <1>1, <1>8 DEF GuestEnds, SourceEdited, HostLoosens
<1>9. Same \/ CopyChunk \/ (\E n \in DOMAIN mounted : GuestWrites(n))
        \/ (\E p \in Files("output") : HostWrites(p))
  BY <1>3, <1>4, <1>6, <1>7, <1>8 DEF Next
<1> QED BY <1>9 DEF Same

\* A file of no length has no content.
LEMMA NextEmpty ==
    ASSUME TypeInv, TreeInv, [Next]_vars,
           \A n \in DOMAIN file : file[n].len = 0 => file[n].data = 0
    PROVE  \A n \in DOMAIN file' : file'[n].len = 0 => file'[n].data = 0
<1>0. /\ file \in Seq(Inode) /\ DOMAIN file = 1 .. Len(file) /\ Len(file) \in Nat
      /\ \A n \in DOMAIN file : file[n] \in Inode
      /\ \A n \in DOMAIN mounted : mounted[n] \in DOMAIN file
  BY Elements DEF TypeInv
<1> DEFINE Sparse == \A n \in DOMAIN file' : file'[n].len = 0 => file'[n].data = 0
<1>1. ASSUME file' = file PROVE Sparse
  BY <1>1
<1>2. ASSUME file' = Append(file, Empty) PROVE Sparse
  <2>1. DOMAIN file' = 1 .. Len(file) + 1 /\ file'[Len(file) + 1] = Empty
        /\ \A n \in 1 .. Len(file) : file'[n] = file[n]
    BY <1>0, <1>2, Appended, InodeTypes
  <2> QED BY <1>0, <2>1 DEF Empty
<1>3. ASSUME NEW k, NEW f, file' = [file EXCEPT ![k] = f],
             k \in DOMAIN file => (f.len = 0 => f.data = 0)
      PROVE  Sparse
  BY <1>0, <1>3
<1>4. ASSUME NEW n \in DOMAIN mounted, GuestPreallocates(n) PROVE Sparse
  <2>1. [file[mounted[n]] EXCEPT !.blocks = limits.outputBytes + 2 * Block].len
            = file[mounted[n]].len
        /\ [file[mounted[n]] EXCEPT !.blocks = limits.outputBytes + 2 * Block].data
            = file[mounted[n]].data
    BY <1>0 DEF Inode
  <2>2. \/ file' = file
        \/ file' = [file EXCEPT ![mounted[n]] =
                      [file[mounted[n]] EXCEPT !.blocks = limits.outputBytes + 2 * Block]]
    BY <1>4 DEF GuestPreallocates, Wrote
  <2> QED BY <1>0, <2>1, <2>2
<1>5. ASSUME NEW p, HostReplaces(p) PROVE Sparse
  <2>1. /\ Unlinked(p) \in Seq(Inode) /\ Len(Unlinked(p)) = Len(file)
        /\ DOMAIN Unlinked(p) = 1 .. Len(file)
        /\ \A n \in 1 .. Len(file) : Unlinked(p)[n].len = file[n].len
                                     /\ Unlinked(p)[n].data = file[n].data
    <3>1. /\ Unlinked(p) \in Seq(Inode) /\ Len(Unlinked(p)) = Len(file)
          /\ \A n \in 1 .. Len(file) : Unlinked(p)[n].len = file[n].len
                                       /\ Unlinked(p)[n].data = file[n].data
      BY <1>0, UnlinkedType
    <3> QED BY <3>1, Elements
  <2>2. ASSUME NEW c \in Contents, NEW l \in {1, 2},
               file' = Append(Unlinked(p), [len |-> c.len, data |-> c.data, links |-> l,
                                            blocks |-> BlocksOf(c.len)])
        PROVE  Sparse
    <3>1. c \in Written /\ (c.len = 0 => c.data = 0)
      BY InodeTypes DEF Contents
    <3>2. BlocksOf(c.len) \in Nat
      BY <3>1, BlocksBound DEF Written
    <3>3. [len |-> c.len, data |-> c.data, links |-> l, blocks |-> BlocksOf(c.len)] \in Inode
      BY <3>1, <3>2 DEF Inode, Written
    <3> HIDE DEF Inode
    <3>4. DOMAIN file' = 1 .. Len(file) + 1
          /\ file'[Len(file) + 1].len = c.len /\ file'[Len(file) + 1].data = c.data
          /\ \A n \in 1 .. Len(file) : file'[n] = Unlinked(p)[n]
      BY <2>1, <2>2, <3>3, Appended
    <3> QED BY <1>0, <2>1, <3>1, <3>4
  <2>3. ASSUME file' = Unlinked(p) PROVE Sparse
    BY <1>0, <2>1, <2>3
  <2> QED BY <1>5, <2>2, <2>3 DEF HostReplaces
<1>6. ASSUME NEW why, Refuse(why) PROVE Sparse
  BY <1>6 DEF Refuse
<1>7. ASSUME CopyChunk PROVE Sparse
  <2>1. file' = [file EXCEPT ![Len(file)] = Grow(file[Len(file)], copy.len + 1)]
    BY <1>7 DEF CopyChunk
  <2>2. copy.len + 1 # 0
    BY DEF TypeInv
  <2>3. Len(file) \in DOMAIN file => Grow(file[Len(file)], copy.len + 1).len = copy.len + 1
    BY <1>0 DEF Grow, Inode
  <2> QED BY <1>3, <2>1, <2>2, <2>3
<1>8. ASSUME NEW n \in DOMAIN mounted, GuestWrites(n) PROVE Sparse
  <2>1. PICK c \in Contents, sparse \in BOOLEAN :
          file' = [file EXCEPT ![mounted[n]] =
                      [@ EXCEPT !.len = c.len, !.data = c.data,
                                !.blocks = IF sparse THEN 0 ELSE BlocksOf(c.len)]]
    BY <1>8 DEF GuestWrites, Wrote
  <2> DEFINE f == [file[mounted[n]] EXCEPT !.len = c.len, !.data = c.data,
                                           !.blocks = IF sparse THEN 0 ELSE BlocksOf(c.len)]
  <2>2. f.len = c.len /\ f.data = c.data /\ (c.len = 0 => c.data = 0)
    BY <1>0 DEF Inode, Contents
  <2> HIDE DEF f
  <2>3. file' = [file EXCEPT ![mounted[n]] = f]
    BY <2>1 DEF f
  <2> QED BY <1>3, <2>2, <2>3
<1>9. ASSUME NEW p \in DOMAIN tree, HostWrites(p) PROVE Sparse
  <2>0. tree[p] \in DOMAIN file
    <3>1. tree[p] \in {0, -1} \cup 1 .. Len(file)
      BY DEF TypeInv, Dir, Symlink
    <3> QED BY <1>0, <1>9, <3>1 DEF HostWrites
  <2>1. PICK c \in Contents :
          file' = [file EXCEPT ![tree[p]] = [@ EXCEPT !.len = c.len, !.data = c.data,
                                                      !.blocks = BlocksOf(c.len)]]
    BY <1>9 DEF HostWrites
  <2> DEFINE f == [file[tree[p]] EXCEPT !.len = c.len, !.data = c.data,
                                        !.blocks = BlocksOf(c.len)]
  <2>2. f.len = c.len /\ f.data = c.data /\ (c.len = 0 => c.data = 0)
    BY <1>0, <2>0 DEF Inode, Contents
  <2> HIDE DEF f
  <2>3. file' = [file EXCEPT ![tree[p]] = f]
    BY <2>1 DEF f
  <2> QED BY <1>3, <2>2, <2>3
<1> HIDE DEF Sparse
<1> USE DEF vars, nodeVars, nativeVars, Skip
<1>10. ASSUME Node PROVE Sparse
  BY <1>1, <1>2, <1>6, <1>7, <1>10 DEF Node, Plan, PlanRefuses, BeginInput, StageOutput,
     InputCollides, InputTooLarge, SourceShrank, ChunkTooLarge, EndInput, InputTaken,
     InputsStaged, Staged, Aborted, ReadArtifact, Deliver, Collected
<1>11. ASSUME Native PROVE Sparse
  BY <1>1, <1>6, <1>11 DEF Native, ValidateInputs, StatOutput, OpenOutput,
     OutputsPinned, MountOutput, Harden, ScanFile, ScanFolder, Alarm, ScanDone, ScanGoesOn, InspectOutputs, HashOutput,
     Answered
<1>12. ASSUME GuestEnds \/ SourceEdited \/ HostLoosens \/ UNCHANGED vars PROVE Sparse
  BY <1>1, <1>12 DEF GuestEnds, SourceEdited, HostLoosens
<1>13. Files("output") \subseteq DOMAIN tree
  BY DEF Files
<1>14. Sparse
  BY <1>4, <1>5, <1>8, <1>9, <1>10, <1>11, <1>12, <1>13 DEF Next
<1> QED BY <1>14 DEF Sparse

LEMMA FrontIs ==
    ASSUME NEW S, NEW q \in Seq(S), q # <<>>
    PROVE  Front(q) \in Seq(S) /\ Len(Front(q)) = Len(q) - 1
           /\ \A n \in 1 .. Len(q) - 1 : Front(q)[n] = q[n]
<1>1. Len(q) - 1 \in Nat /\ \A n \in 1 .. Len(q) - 1 : q[n] \in S
  OBVIOUS
<1>2. Front(q) = [n \in 1 .. Len(q) - 1 |-> q[n]]
  BY <1>1 DEF Front
<1>3. Front(q) \in [1 .. Len(q) - 1 -> S]
  BY <1>1, <1>2
<1> QED BY <1>1, <1>2, <1>3

\* A path keeps its parts, but for a slash at its end.
LEMMA NamesType ==
    ASSUME NEW p \in Paths
    PROVE  Names(p) \in Seq(STRING)
<1>1. p \in Seq(STRING) /\ p # <<>>
  BY DEF Paths
<1>2. Front(p) \in Seq(STRING)
  BY <1>1, FrontIs
<1>3. <<>> \in Seq(STRING)
  OBVIOUS
<1> QED BY <1>1, <1>2, <1>3, Zenon DEF Names

\* The files at the paths of the outputs are among what the launcher walks.
LEMMA OutputEntries ==
    ASSUME TypeInv, TreeInv, NEW n \in Declared, phase \notin {"plan", "refused"},
           tree[HostPath(n)] > 0
    PROVE  HostPath(n) \in Files("output")
<1>1. n \in DOMAIN outputs
  BY DEF Declared
<1>2. outputs[n].path \in Paths
  BY <1>1, RequestType
<1>3. Names(outputs[n].path) \in Seq(STRING)
  BY <1>2, NamesType
<1> DEFINE names == Names(outputs[n].path)
<1>4. HostPath(n) = <<"output">> \o names
  BY DEF HostPath, Place
<1>5. HostPath(n) \in DOMAIN tree /\ tree[HostPath(n)] # Dir /\ tree[<<"output">>] = Dir
  BY DEF TreeInv
<1>6. names # <<>>
  <2>1. ASSUME names = <<>> PROVE FALSE
    <3>1. HostPath(n) = <<"output">>
      BY <1>4, <2>1
    <3> QED BY <1>5, <3>1
  <2> QED BY <2>1
<1> HIDE DEF names
<1>7. names \in Seq(STRING) /\ HostPath(n) = <<"output">> \o names
  BY <1>3, <1>4 DEF names
<1>8. HostPath(n)[1] = "output" /\ Len(HostPath(n)) > 1
  <2>1. Len(names) > 0
    BY <1>6, <1>7
  <2> QED BY <1>7, <2>1
<1> QED BY <1>5, <1>8 DEF Files

LEMMA NextContent ==
    ASSUME TypeInv, ItemInv, TreeInv, PinInv, ContentInv, [Next]_vars
    PROVE  ContentInv'
<1>0. /\ file \in Seq(Inode) /\ DOMAIN file = 1 .. Len(file) /\ Len(file) \in Nat
      /\ \A n \in DOMAIN file : file[n] \in Inode
      /\ pinned \in Seq(1 .. Len(file)) /\ mounted \in Seq(1 .. Len(file))
      /\ DOMAIN pinned = 1 .. Len(pinned) /\ DOMAIN mounted = 1 .. Len(mounted)
      /\ Len(pinned) \in Nat /\ Len(mounted) \in Nat
      /\ \A n \in DOMAIN mounted : mounted[n] \in 1 .. Len(file)
      /\ \A n \in DOMAIN pinned : pinned[n] \in 1 .. Len(file)
      /\ left \in [DOMAIN outputs -> Written]
      /\ DOMAIN outputs = 1 .. Len(outputs) /\ Len(outputs) \in Nat
  BY RequestType, Elements DEF TypeInv
<1>1. request' = request /\ outputs' = outputs /\ \A n : HostPath(n)' = HostPath(n)
  BY PhaseSteps, SameRequest
<1>2. \A n \in DOMAIN file' : file'[n].len = 0 => file'[n].data = 0
  BY NextEmpty DEF ContentInv
<1>3. Meddled({"written"}) => Meddled({"written"})'
  BY MeddledStays
<1> DEFINE Before == {"plan", "stageInput", "copy", "stageOutput", "validate", "stat", "open"}
           Running == {"guest", "inspect", "hash", "read", "done"}
<1>4. ASSUME phase' = "refused" PROVE ContentInv'
  BY <1>2, <1>4 DEF ContentInv
<1>5. ASSUME phase \in Before, phase' \in Before, left' = left PROVE ContentInv'
  BY <1>2, <1>5 DEF ContentInv
\* While the outputs are in use, only the guest and the other process write them.
<1>6. ASSUME \A n \in 1 .. Len(file) :
                file'[n].len = file[n].len /\ file'[n].data = file[n].data,
             phase \in Running, phase' \in Running, left' = left, mounted' = mounted
      PROVE  ContentInv'
  <2>1. \A n \in DOMAIN mounted : Content(file'[mounted[n]]) = Content(file[mounted[n]])
    BY <1>0, <1>6 DEF Content
  <2>2. ~Meddled({"written"})' => \A n \in DOMAIN mounted : Content(file[mounted[n]]) = left[n]
    BY <1>3, <1>6 DEF ContentInv
  <2> QED BY <1>2, <1>6, <2>1, <2>2 DEF ContentInv
<1>7. ASSUME \A n \in 1 .. Len(file) :
                file'[n].len = file[n].len /\ file'[n].data = file[n].data,
             phase = "mount", phase' = "mount", UNCHANGED <<left, mounted, pinned>>
      PROVE  ContentInv'
  <2>1. ASSUME ~Meddled({"written"})', NEW n \in DOMAIN pinned,
               tree'[HostPath(n)] = pinned[n]
        PROVE  file'[pinned[n]].len = 0
    <3>1. HostPath(n) \in DOMAIN tree'
      <4>1. TreeInv'
        BY NextTree
      <4>2. n \in Declared'
        BY <1>0, <1>1, <1>7 DEF PinInv, Declared
      <4> QED BY <1>1, <4>1, <4>2 DEF TreeInv
    <3>2. tree[HostPath(n)] = pinned[n]
      BY <1>0, <2>1, <3>1, TreeSteps
    <3>3. file[pinned[n]].len = 0
      BY <1>3, <1>7, <2>1, <3>2 DEF ContentInv
    <3> QED BY <1>0, <1>7, <3>3
  <2>2. ASSUME ~Meddled({"written"})', NEW n \in DOMAIN mounted PROVE file'[mounted[n]].len = 0
    BY <1>0, <1>3, <1>7, <2>2 DEF ContentInv
  <2>3. \A n \in DOMAIN left : left[n] = Content(Empty)
    BY <1>7 DEF ContentInv
  <2> QED BY <1>1, <1>2, <1>7, <2>1, <2>2, <2>3 DEF ContentInv
<1> USE DEF vars, nodeVars, nativeVars, Skip, Go
<1>8. ASSUME NEW why, Refuse(why) PROVE ContentInv'
  BY <1>4, <1>8 DEF Refuse
<1>9. ASSUME UNCHANGED <<phase, left, mounted, pinned>>, phase # "refused",
             \A n \in 1 .. Len(file) :
                file'[n].len = file[n].len /\ file'[n].data = file[n].data
      PROVE  ContentInv'
  <2>1. phase \in Before \cup Running \cup {"mount"}
    BY <1>9 DEF TypeInv, Phases
  <2>2. CASE phase \in Before
    BY <1>5, <1>9, <2>2
  <2>3. CASE phase \in Running
    BY <1>6, <1>9, <2>3
  <2>4. CASE phase = "mount"
    BY <1>7, <1>9, <2>4
  <2> QED BY <2>1, <2>2, <2>3, <2>4
<1>10. CASE Node
  <2>1. ASSUME Plan \/ BeginInput \/ CopyChunk \/ InputTaken \/ InputsStaged \/ Staged
               \/ (Go("stageOutput", item + 1) /\ UNCHANGED nativeVars),
               phase \in {"plan", "stageInput", "copy", "stageOutput"}
        PROVE  ContentInv'
    <3>1. phase' \in Before /\ left' = left
      BY <2>1 DEF Plan, BeginInput, CopyChunk, InputTaken, InputsStaged, Staged
    <3> QED BY <1>5, <2>1, <3>1
  <2>2. CASE PlanRefuses \/ InputCollides \/ InputTooLarge \/ SourceShrank \/ ChunkTooLarge
             \/ Aborted
    BY <1>8, <2>2 DEF PlanRefuses, InputCollides, InputTooLarge, SourceShrank, ChunkTooLarge,
       Aborted
  <2>3. CASE Plan \/ BeginInput \/ CopyChunk \/ InputsStaged \/ Staged
    <3>1. phase \in {"plan", "stageInput", "copy", "stageOutput"}
      BY <2>3 DEF Plan, BeginInput, CopyChunk, InputsStaged, Staged, Staging
    <3> QED BY <2>1, <2>3, <3>1
  <2>4. CASE EndInput
    <3>1. phase = "copy" /\ (InputTaken \/ Refuse("source"))
      BY <2>4 DEF EndInput
    <3> QED BY <1>8, <2>1, <3>1
  <2>5. CASE StageOutput
    <3>1. /\ phase = "stageOutput"
          /\ Refuse("collision") \/ (Go("stageOutput", item + 1) /\ UNCHANGED nativeVars)
      BY <2>5 DEF StageOutput
    <3> QED BY <1>8, <2>1, <3>1
  <2>6. CASE ReadArtifact \/ Collected
    <3>1. ASSUME phase = "read", phase' \in {"read", "done"}, UNCHANGED <<file, left, mounted>>
          PROVE  ContentInv'
      BY <1>6, <3>1
    <3>2. \/ Refuse("collect")
          \/ phase = "read" /\ phase' \in {"read", "done"} /\ UNCHANGED <<file, left, mounted>>
      BY <2>6 DEF ReadArtifact, Deliver, Collected
    <3> QED BY <1>8, <3>1, <3>2
  <2> QED BY <1>10, <2>2, <2>3, <2>4, <2>5, <2>6 DEF Node
<1>11. CASE Native
  <2>0. ASSUME Refuse("native") PROVE ContentInv'
    BY <1>8, <2>0
  <2>1. CASE ValidateInputs \/ StatOutput \/ OpenOutput
    <3>1. \/ Refuse("native")
          \/ phase \in Before /\ phase' \in Before /\ left' = left
      BY <2>1 DEF ValidateInputs, StatOutput, OpenOutput
    <3> QED BY <1>5, <2>0, <3>1
  <2>2. CASE OutputsPinned
    <3>1. ASSUME phase = "stat", item = Len(outputs) + 1, Skip("mount", 1),
                 TreeFits("output", limits.outputFiles, 0, 0)
          PROVE  ContentInv'
      <4>1. mounted' = <<>> /\ pinned' = pinned /\ tree' = tree /\ file' = file /\ left' = left
            /\ phase' = "mount"
        BY <3>1 DEF PinInv
      <4>2. ASSUME NEW n \in DOMAIN pinned, tree[HostPath(n)] = pinned[n]
            PROVE  file[pinned[n]].len = 0
        <5>1. n \in Declared
          <6>1. Len(pinned) <= Len(outputs)
            BY DEF PinInv
          <6>2. Declared = DOMAIN outputs
            BY <3>1 DEF Declared
          <6> QED BY <1>0, <6>1, <6>2
        <5>2. tree[HostPath(n)] > 0
          BY <1>0, <4>2
        <5>3. HostPath(n) \in Files("output")
          BY <3>1, <5>1, <5>2, OutputEntries
        <5>4. file[tree[HostPath(n)]].len <= 0
          BY <3>1, <5>2, <5>3 DEF TreeFits, Symlink
        <5>5. file[pinned[n]].len \in Nat
          BY <1>0 DEF Inode
        <5> QED BY <4>2, <5>4, <5>5
      <4>3. \A n \in DOMAIN left : left[n] = Content(Empty)
        BY <3>1 DEF ContentInv
      <4>4. \A n \in DOMAIN mounted' : file'[mounted'[n]].len = 0
        BY <4>1
      <4> QED BY <1>1, <1>2, <4>1, <4>2, <4>3, <4>4 DEF ContentInv
    <3> QED BY <2>0, <2>2, <3>1 DEF OutputsPinned
  <2>3. CASE MountOutput
    <3>0. phase = "mount" /\ item \in DOMAIN outputs
      BY <2>3 DEF MountOutput
    <3>1. ASSUME mounted' = Append(mounted, pinned[item]), Go("mount", item + 1),
                 UNCHANGED <<tree, pinned, file>>, tree[HostPath(item)] = pinned[item]
          PROVE ContentInv'
      <4>1. Len(mounted) = item - 1 /\ Len(pinned) = Len(outputs)
        BY <3>0 DEF PinInv
      <4>2. item \in DOMAIN pinned
        BY <1>0, <3>0, <4>1
      <4>3. /\ DOMAIN mounted' = 1 .. Len(mounted) + 1
            /\ mounted'[Len(mounted) + 1] = pinned[item]
            /\ \A n \in 1 .. Len(mounted) : mounted'[n] = mounted[n]
        <5>1. mounted \in Seq(1 .. Len(file)) /\ pinned[item] \in 1 .. Len(file)
          BY <1>0, <4>2
        <5>2. mounted' = Append(mounted, pinned[item])
          BY <3>1
        <5> QED BY <5>1, <5>2, Appended
      <4>4. ~Meddled({"written"})' =>
              /\ \A n \in DOMAIN pinned : tree[HostPath(n)] = pinned[n] => file[pinned[n]].len = 0
              /\ \A n \in DOMAIN mounted : file[mounted[n]].len = 0
        BY <1>3, <3>0 DEF ContentInv
      <4>5. ~Meddled({"written"})' => \A n \in DOMAIN mounted' : file[mounted'[n]].len = 0
        <5>1. ASSUME ~Meddled({"written"})', NEW n \in DOMAIN mounted'
              PROVE  file[mounted'[n]].len = 0
          <6>1. CASE n = Len(mounted) + 1
            BY <3>1, <4>2, <4>3, <4>4, <5>1, <6>1
          <6>2. CASE n \in 1 .. Len(mounted)
            BY <1>0, <4>3, <4>4, <5>1, <6>2
          <6> QED BY <1>0, <4>3, <6>1, <6>2
        <5> QED BY <5>1
      <4>6. \A n \in DOMAIN left : left[n] = Content(Empty)
        BY <3>0 DEF ContentInv
      <4>7. /\ phase' = "mount" /\ tree' = tree /\ pinned' = pinned /\ file' = file /\ left' = left
        BY <3>1
      <4> QED BY <1>1, <1>2, <4>4, <4>5, <4>6, <4>7 DEF ContentInv
    <3> QED BY <2>0, <2>3, <3>1 DEF MountOutput
  <2>4. CASE Harden
    <3>1. phase = "mount" /\ phase' = "guest" /\ file' = file /\ mounted' = mounted /\ left' = left
      BY <2>4 DEF Harden
    <3>2. \A n \in DOMAIN left : left[n] = Content(Empty)
      BY <3>1 DEF ContentInv
    <3>3. ASSUME ~Meddled({"written"})', NEW n \in DOMAIN mounted
          PROVE  Content(file[mounted[n]]) = left[n]
      <4>1. file[mounted[n]].len = 0
        BY <1>3, <3>1, <3>3 DEF ContentInv
      <4>2. file[mounted[n]].data = 0
        BY <1>0, <4>1 DEF ContentInv
      <4>3. n \in DOMAIN left
        <5>1. Len(mounted) <= Len(pinned) /\ Len(pinned) <= Len(outputs)
          BY DEF PinInv
        <5> QED BY <1>0, <5>1
      <4> QED BY <3>2, <4>1, <4>2, <4>3 DEF Content, Empty
    <3> QED BY <1>2, <3>1, <3>3 DEF ContentInv
  <2>5. ASSUME NEW p, ScanFile(p) \/ ScanFolder(p) PROVE ContentInv'
    <3>1. CASE Alarm
      BY <1>4, <3>1 DEF Alarm
    <3>2. CASE UNCHANGED <<phase, left, mounted, pinned, file>> /\ phase = "guest"
      BY <1>9, <3>2
    <3> QED BY <2>5, <3>1, <3>2 DEF ScanFile, ScanFolder, ScanGoesOn
  <2>6. CASE ScanDone
    BY <1>9, <2>6 DEF ScanDone, ScanGoesOn
  <2>7. CASE InspectOutputs \/ HashOutput \/ Answered
    <3>1. ASSUME phase \in {"inspect", "hash"}, phase' \in {"hash", "read"},
                 UNCHANGED <<file, left, mounted>>
          PROVE  ContentInv'
      BY <1>6, <3>1
    <3>2. \/ Refuse("native")
          \/ phase \in {"inspect", "hash"} /\ phase' \in {"hash", "read"}
             /\ UNCHANGED <<file, left, mounted>>
      BY <2>7 DEF InspectOutputs, HashOutput, Answered
    <3> QED BY <2>0, <3>1, <3>2
  <2> QED BY <1>11, <2>1, <2>2, <2>3, <2>4, <2>5, <2>6, <2>7 DEF Native
<1>12. CASE GuestEnds
  BY <1>6, <1>12 DEF GuestEnds
<1>13. ASSUME NEW n \in DOMAIN mounted, GuestWrites(n) PROVE ContentInv'
  <2>1. PICK c \in Contents, sparse \in BOOLEAN :
          /\ left' = [left EXCEPT ![n] = c]
          /\ file' = [file EXCEPT ![mounted[n]] =
                      [@ EXCEPT !.len = c.len, !.data = c.data,
                                !.blocks = IF sparse THEN 0 ELSE BlocksOf(c.len)]]
    BY <1>13 DEF GuestWrites, Wrote
  <2>2. phase = "guest" /\ phase' = "guest" /\ mounted' = mounted
    BY <1>13 DEF GuestWrites, Wrote
  <2> DEFINE f == [file[mounted[n]] EXCEPT !.len = c.len, !.data = c.data,
                                           !.blocks = IF sparse THEN 0 ELSE BlocksOf(c.len)]
  <2>3. Content(f) = c
    <3>1. f.len = c.len /\ f.data = c.data
      BY <1>0 DEF Inode
    <3>2. c = [len |-> c.len, data |-> c.data]
      BY DEF Contents
    <3> QED BY <3>1, <3>2 DEF Content
  <2> HIDE DEF f
  <2>4. file' = [file EXCEPT ![mounted[n]] = f]
    BY <2>1 DEF f
  <2>5. ASSUME ~Meddled({"written"})', NEW m \in DOMAIN mounted
        PROVE  Content(file'[mounted[m]]) = left'[m]
    <3>1. Content(file[mounted[m]]) = left[m]
      BY <1>3, <2>2, <2>5 DEF ContentInv
    <3>2. m \in DOMAIN left /\ n \in DOMAIN left /\ Len(mounted) <= Len(pinned)
      <4>1. Len(mounted) <= Len(pinned) /\ Len(pinned) <= Len(outputs)
        BY DEF PinInv
      <4> QED BY <1>0, <4>1
    <3>3. CASE m = n
      BY <1>0, <2>1, <2>3, <2>4, <3>2, <3>3
    <3>4. CASE m # n
      <4>1. m \in DOMAIN pinned /\ n \in DOMAIN pinned
        BY SMTT(30), <1>0, <3>2
      <4>2. mounted[m] # mounted[n]
        BY <2>2, <3>4, <4>1 DEF PinInv
      <4> QED BY <1>0, <2>1, <2>4, <3>1, <3>2, <3>4, <4>2
    <3> QED BY <3>3, <3>4
  <2> QED BY <1>2, <2>2, <2>5 DEF ContentInv
<1>14. ASSUME NEW n \in DOMAIN mounted, GuestPreallocates(n) PROVE ContentInv'
  <2>1. [file[mounted[n]] EXCEPT !.blocks = limits.outputBytes + 2 * Block].len
            = file[mounted[n]].len
        /\ [file[mounted[n]] EXCEPT !.blocks = limits.outputBytes + 2 * Block].data
            = file[mounted[n]].data
    BY <1>0 DEF Inode
  <2>2. \/ file' = file
        \/ file' = [file EXCEPT ![mounted[n]] =
                      [file[mounted[n]] EXCEPT !.blocks = limits.outputBytes + 2 * Block]]
    BY <1>14 DEF GuestPreallocates, Wrote
  <2>3. \A k \in 1 .. Len(file) : file'[k].len = file[k].len /\ file'[k].data = file[k].data
    BY <1>0, <2>1, <2>2
  <2>4. UNCHANGED <<phase, left, mounted, pinned>> /\ phase = "guest"
    BY <1>14 DEF GuestPreallocates, Wrote
  <2> QED BY <1>9, <2>3, <2>4
<1>15. ASSUME NEW p, HostReplaces(p) PROVE ContentInv'
  <2>1. UNCHANGED <<phase, left, mounted, pinned>> /\ Stands
    BY <1>15 DEF HostReplaces, Meddle
  <2>2. phase \notin {"refused", "copy", "guest"} \/ phase = "guest"
    BY <2>1 DEF Stands
  <2>3. \A k \in 1 .. Len(file) : file'[k].len = file[k].len /\ file'[k].data = file[k].data
    BY <1>15, HostReplacesSame
  <2> QED BY <1>9, <2>1, <2>3 DEF Stands
<1>16. ASSUME NEW p, HostWrites(p) PROVE ContentInv'
  <2>1. Meddled({"written"})'
    <3>1. meddled' = Append(meddled, "written") /\ meddled \in Seq(Hows)
      BY <1>16 DEF HostWrites, Meddle, TypeInv
    <3>2. Len(meddled) + 1 \in DOMAIN meddled' /\ meddled'[Len(meddled) + 1] = "written"
      BY <3>1, Appended
    <3> QED BY <3>2 DEF Meddled
  <2>2. UNCHANGED <<phase, left, mounted, pinned>>
    BY <1>16 DEF HostWrites, Meddle
  <2>3. phase \notin {"guest", "inspect", "hash", "read", "done", "refused"} =>
          \A n \in DOMAIN left : left[n] = Content(Empty)
    BY DEF ContentInv
  <2> QED BY <1>2, <2>1, <2>2, <2>3 DEF ContentInv
<1>17. ASSUME SourceEdited \/ HostLoosens \/ UNCHANGED vars, phase # "refused" PROVE ContentInv'
  BY <1>9, <1>17 DEF SourceEdited, HostLoosens, Meddle
<1>18. ASSUME UNCHANGED vars, phase = "refused" PROVE ContentInv'
  BY <1>4, <1>18
<1>19. SourceEdited \/ HostLoosens => phase # "refused"
  BY DEF SourceEdited, HostLoosens, Stands
<1> QED
  BY <1>10, <1>11, <1>12, <1>13, <1>14, <1>15, <1>16, <1>17, <1>18, <1>19 DEF Next

-----------------------------------------------------------------------------
(* What is reported.                                                        *)

LEMMA NextReport ==
    ASSUME TypeInv, ItemInv, TreeInv, PinInv, ContentInv, ReportInv, [Next]_vars
    PROVE  ReportInv'
<1>0. /\ manifest \in Seq(Reports) /\ delivered \in Seq(Reports)
      /\ DOMAIN manifest = 1 .. Len(manifest) /\ DOMAIN delivered = 1 .. Len(delivered)
      /\ Len(manifest) \in Nat /\ Len(delivered) \in Nat
      /\ DOMAIN outputs = 1 .. Len(outputs) /\ Len(outputs) \in Nat
      /\ item \in Nat \ {0}
  BY RequestType, Elements DEF TypeInv
<1>1. request' = request /\ outputs' = outputs
  BY PhaseSteps, SameRequest
<1>2. Meddled({"written"}) => Meddled({"written"})'
  BY MeddledStays
<1> DEFINE Before == {"plan", "stageInput", "copy", "stageOutput", "validate", "stat", "open",
                      "mount", "guest", "inspect"}
<1>3. ASSUME phase' = "refused" PROVE ReportInv'
  BY <1>3 DEF ReportInv
<1>4. ASSUME phase \in Before, phase' \in Before, UNCHANGED <<manifest, delivered>>
      PROVE  ReportInv'
  BY <1>4 DEF ReportInv
<1>5. ASSUME UNCHANGED <<phase, item, manifest, delivered>>,
             phase \in {"hash", "read", "done"} => left' = left
      PROVE  ReportInv'
  BY <1>1, <1>2, <1>5 DEF ReportInv
<1> USE DEF vars, nodeVars, nativeVars, Skip, Go
<1>6. ASSUME NEW why, Refuse(why) PROVE ReportInv'
  BY <1>3, <1>6 DEF Refuse
<1>7. CASE Node
  <2>1. ASSUME Plan \/ BeginInput \/ CopyChunk \/ InputTaken \/ InputsStaged \/ Staged
               \/ (Go("stageOutput", item + 1) /\ UNCHANGED <<nodeVars, nativeVars>>),
               phase \in {"plan", "stageInput", "copy", "stageOutput"}
        PROVE  ReportInv'
    <3>1. phase' \in Before /\ UNCHANGED <<manifest, delivered>>
      BY <2>1 DEF Plan, BeginInput, CopyChunk, InputTaken, InputsStaged, Staged
    <3> QED BY <1>4, <2>1, <3>1
  <2>2. CASE PlanRefuses \/ InputCollides \/ InputTooLarge \/ SourceShrank \/ ChunkTooLarge
             \/ Aborted
    BY <1>6, <2>2 DEF PlanRefuses, InputCollides, InputTooLarge, SourceShrank, ChunkTooLarge,
       Aborted
  <2>3. CASE Plan \/ BeginInput \/ CopyChunk \/ InputsStaged \/ Staged
    <3>1. phase \in {"plan", "stageInput", "copy", "stageOutput"}
      BY <2>3 DEF Plan, BeginInput, CopyChunk, InputsStaged, Staged, Staging
    <3> QED BY <2>1, <2>3, <3>1
  <2>4. CASE EndInput
    <3>1. phase = "copy" /\ (InputTaken \/ Refuse("source"))
      BY <2>4 DEF EndInput
    <3> QED BY <1>6, <2>1, <3>1
  <2>5. CASE StageOutput
    <3>1. /\ phase = "stageOutput"
          /\ Refuse("collision")
             \/ (Go("stageOutput", item + 1) /\ UNCHANGED <<nodeVars, nativeVars>>)
      BY <2>5 DEF StageOutput
    <3> QED BY <1>6, <2>1, <3>1
  <2>6. CASE ReadArtifact
    <3> DEFINE m == manifest[item]
    <3>0. phase = "read" /\ item \in DOMAIN manifest
      BY <2>6 DEF ReadArtifact
    <3>1. ASSUME Deliver(m.content) PROVE ReportInv'
      <4>1. m \in Reports /\ [output |-> m.output, content |-> m.content] = m
        <5>1. m \in Reports
          <6>1. manifest \in Seq(Reports) /\ item \in DOMAIN manifest
            BY <1>0, <3>0
          <6> QED BY <6>1, Elements
        <5>2. \A x \in Reports : [output |-> x.output, content |-> x.content] = x
          BY DEF Reports
        <5> QED BY <5>1, <5>2
      <4>2. delivered' = Append(delivered, m) /\ phase' = "read" /\ item' = item + 1
            /\ UNCHANGED <<manifest, left, meddled>>
        BY <3>1, <4>1 DEF Deliver
      <4> HIDE DEF m
      <4>3. /\ Len(delivered') = Len(delivered) + 1 /\ DOMAIN delivered' = 1 .. Len(delivered) + 1
            /\ delivered'[Len(delivered) + 1] = m
            /\ \A k \in 1 .. Len(delivered) : delivered'[k] = delivered[k]
        <5>1. delivered \in Seq(Reports) /\ delivered' = Append(delivered, m)
          BY <1>0, <4>2
        <5> QED BY <4>1, <5>1, Appended
      <4>4. Len(delivered) = item - 1
            /\ \A k \in DOMAIN delivered : k \in DOMAIN manifest /\ delivered[k] = manifest[k]
        BY <3>0 DEF ReportInv
      <4>5. \A k \in DOMAIN delivered' : k \in DOMAIN manifest /\ delivered'[k] = manifest[k]
        BY <1>0, <3>0, <4>3, <4>4 DEF m
      <4>6. Len(delivered') = item' - 1
        BY <1>0, <4>2, <4>3, <4>4
      <4>7. ~Meddled({"written"})' =>
              /\ \A k \in DOMAIN manifest : manifest[k].content = left[manifest[k].output]
              /\ \A n \in DOMAIN outputs :
                    \/ \E k \in DOMAIN manifest : manifest[k].output = n
                    \/ ~outputs[n].required /\ left[n].len = 0
        BY <1>2, <3>0 DEF ReportInv
      <4>8. phase' = "read" /\ manifest' = manifest /\ left' = left
        BY <4>2
      <4> QED BY <1>1, <4>5, <4>6, <4>7, <4>8 DEF ReportInv
    <3>2. Refuse("collect") \/ Deliver(m.content)
      BY <2>6 DEF ReadArtifact
    <3> QED BY <1>6, <3>1, <3>2
  <2>7. CASE Collected
    <3>1. ASSUME Skip("done", item) PROVE ReportInv'
      <4>1. phase = "read" /\ item = Len(manifest) + 1
        BY <2>7 DEF Collected
      <4>2. Len(delivered) = Len(manifest)
        BY <1>0, <4>1 DEF ReportInv
      <4> QED BY <1>1, <1>2, <3>1, <4>1, <4>2 DEF ReportInv
    <3> QED BY <1>6, <2>7, <3>1 DEF Collected
  <2> QED BY <1>7, <2>2, <2>3, <2>4, <2>5, <2>6, <2>7 DEF Node
<1>8. CASE Native
  <2>0. ASSUME Refuse("native") PROVE ReportInv'
    BY <1>6, <2>0
  <2>1. CASE ValidateInputs \/ StatOutput \/ OpenOutput \/ OutputsPinned \/ MountOutput \/ Harden
    <3>1. \/ Refuse("native")
          \/ phase \in Before /\ phase' \in Before /\ UNCHANGED <<manifest, delivered>>
      BY <2>1 DEF ValidateInputs, StatOutput, OpenOutput, OutputsPinned, MountOutput, Harden
    <3> QED BY <1>4, <2>0, <3>1
  <2>2. ASSUME NEW p, ScanFile(p) \/ ScanFolder(p) PROVE ReportInv'
    <3>1. CASE Alarm
      BY <1>3, <3>1 DEF Alarm
    <3>2. CASE UNCHANGED <<phase, manifest, delivered>> /\ phase = "guest"
      BY <1>4, <3>2
    <3> QED BY <2>2, <3>1, <3>2 DEF ScanFile, ScanFolder, ScanGoesOn
  <2>3. CASE ScanDone
    BY <1>4, <2>3 DEF ScanDone, ScanGoesOn
  <2>4. CASE InspectOutputs
    <3>1. ASSUME phase = "inspect", Skip("hash", 1) PROVE ReportInv'
      <4>1. manifest = <<>> /\ delivered = <<>>
        BY <3>1 DEF ReportInv
      <4>2. manifest' = <<>> /\ delivered' = <<>> /\ phase' = "hash" /\ item' = 1
            /\ UNCHANGED <<left, meddled>>
        BY <3>1, <4>1
      <4>3. \A n \in DOMAIN outputs : ~(n < 1)
        BY <1>0
      <4> QED BY <1>1, <4>2, <4>3 DEF ReportInv
    <3> QED BY <2>0, <2>4, <3>1 DEF InspectOutputs
  <2>5. CASE HashOutput
    <3> DEFINE f == file[pinned[item]]
    <3>0. phase = "hash" /\ item \in DOMAIN outputs
      BY <2>5 DEF HashOutput
    <3>1. ASSUME ~Meddled({"written"})
          PROVE  Content(f) = left[item] /\ f.len = left[item].len
      <4>1. Len(mounted) = Len(outputs) /\ \A n \in DOMAIN mounted : mounted[n] = pinned[n]
        BY <3>0 DEF PinInv
      <4>2. DOMAIN mounted = 1 .. Len(mounted)
        BY Elements DEF TypeInv
      <4>3. item \in DOMAIN mounted /\ mounted[item] = pinned[item]
        BY <1>0, <3>0, <4>1, <4>2
      <4>4. Content(file[mounted[item]]) = left[item]
        BY <3>0, <3>1, <4>3 DEF ContentInv
      <4> QED BY <4>3, <4>4 DEF Content
    <3>2. ~Meddled({"written"}) =>
            /\ \A k \in DOMAIN manifest : manifest[k].content = left[manifest[k].output]
            /\ \A n \in DOMAIN outputs : n < item =>
                  \/ \E k \in DOMAIN manifest : manifest[k].output = n
                  \/ ~outputs[n].required /\ left[n].len = 0
      BY <3>0 DEF ReportInv
    <3> HIDE DEF f
    <3>3. delivered = <<>>
      BY <3>0 DEF ReportInv
    <3>4. \A n \in DOMAIN outputs : n < item + 1 => n < item \/ n = item
      BY <1>0
    <3>5. ASSUME f.len = 0, ~outputs[item].required, Skip("hash", item + 1) PROVE ReportInv'
      <4>1. phase' = "hash" /\ item' = item + 1 /\ UNCHANGED <<manifest, delivered, left, meddled>>
        BY <3>5
      <4>2. ~Meddled({"written"})' => \A n \in DOMAIN outputs : n < item + 1 =>
                  \/ \E k \in DOMAIN manifest : manifest[k].output = n
                  \/ ~outputs[n].required /\ left[n].len = 0
        BY <1>2, <3>1, <3>2, <3>4, <3>5
      <4> QED BY <1>1, <1>2, <3>2, <3>3, <4>1, <4>2 DEF ReportInv
    <3>6. ASSUME manifest' = Append(manifest, [output |-> item, content |-> Content(f)]),
                 Go("hash", item + 1), delivered' = delivered
          PROVE  ReportInv'
      <4>1. phase' = "hash" /\ item' = item + 1 /\ UNCHANGED <<left, meddled>>
        BY <3>6
      <4>2. manifest' \in Seq(Reports)
        BY NextType, PhaseSteps, SameRequest DEF TypeInv
      <4> DEFINE r == [output |-> item, content |-> Content(f)]
      <4>3. r.output = item /\ r.content = Content(f)
        OBVIOUS
      <4> HIDE DEF r
      <4>4. /\ DOMAIN manifest' = 1 .. Len(manifest) + 1 /\ manifest'[Len(manifest) + 1] = r
            /\ \A k \in 1 .. Len(manifest) : manifest'[k] = manifest[k]
        <5>1. manifest' = Append(manifest, r) /\ manifest \in Seq(Reports)
          BY <1>0, <3>6 DEF r
        <5>2. manifest \in Seq(Reports \cup {r})
          BY <5>1
        <5> QED BY <5>1, <5>2, Appended
      <4>5. ~Meddled({"written"})' =>
              \A k \in DOMAIN manifest' : manifest'[k].content = left[manifest'[k].output]
        BY <1>0, <1>2, <3>1, <3>2, <4>3, <4>4
      <4>6. \A n \in DOMAIN outputs :
              (\E k \in DOMAIN manifest : manifest[k].output = n) \/ n = item =>
              \E k \in DOMAIN manifest' : manifest'[k].output = n
        <5>1. Len(manifest) + 1 \in DOMAIN manifest' /\ DOMAIN manifest \subseteq DOMAIN manifest'
          BY <1>0, <4>4
        <5> QED BY <1>0, <4>3, <4>4, <5>1
      <4>7. ~Meddled({"written"})' => \A n \in DOMAIN outputs : n < item + 1 =>
                  \/ \E k \in DOMAIN manifest' : manifest'[k].output = n
                  \/ ~outputs[n].required /\ left[n].len = 0
        BY <1>2, <3>2, <3>4, <4>6
      <4>8. delivered' = <<>> /\ phase' = "hash" /\ item' = item + 1 /\ left' = left
        BY <3>3, <3>6, <4>1
      <4> QED BY <1>1, <4>5, <4>7, <4>8 DEF ReportInv
    <3>7. \/ Refuse("native")
          \/ f.len = 0 /\ ~outputs[item].required /\ Skip("hash", item + 1)
          \/ /\ manifest' = Append(manifest, [output |-> item, content |-> Content(f)])
             /\ Go("hash", item + 1) /\ delivered' = delivered
      BY <2>5 DEF HashOutput, f
    <3> QED BY <2>0, <3>5, <3>6, <3>7
  <2>6. CASE Answered
    <3>1. /\ phase = "hash" /\ item = Len(outputs) + 1 /\ phase' = "read" /\ item' = 1
          /\ UNCHANGED <<manifest, delivered, left, meddled>>
      BY <2>6 DEF Answered
    <3>2. delivered = <<>> /\ \A n \in DOMAIN outputs : n < item
      BY <1>0, <3>1 DEF ReportInv
    <3>3. ~Meddled({"written"}) =>
            /\ \A k \in DOMAIN manifest : manifest[k].content = left[manifest[k].output]
            /\ \A n \in DOMAIN outputs :
                  \/ \E k \in DOMAIN manifest : manifest[k].output = n
                  \/ ~outputs[n].required /\ left[n].len = 0
      BY <3>1, <3>2 DEF ReportInv
    <3>4. Len(delivered') = item' - 1 /\ DOMAIN delivered' = {}
      BY <3>1, <3>2
    <3> QED BY <1>1, <1>2, <3>1, <3>3, <3>4 DEF ReportInv
  <2> QED BY <1>8, <2>1, <2>2, <2>3, <2>4, <2>5, <2>6 DEF Native
<1>9. CASE GuestEnds
  BY <1>4, <1>9 DEF GuestEnds
<1>10. ASSUME NEW n \in DOMAIN mounted, GuestWrites(n) \/ GuestPreallocates(n) PROVE ReportInv'
  BY <1>4, <1>10 DEF GuestWrites, GuestPreallocates, Wrote
<1>11. ASSUME NEW p, HostReplaces(p) \/ HostWrites(p) PROVE ReportInv'
  BY <1>5, <1>11 DEF HostReplaces, HostWrites, Meddle
<1>12. CASE SourceEdited \/ HostLoosens \/ UNCHANGED vars
  BY <1>5, <1>12 DEF SourceEdited, HostLoosens, Meddle
<1> QED
  BY <1>7, <1>8, <1>9, <1>10, <1>11, <1>12 DEF Next

-----------------------------------------------------------------------------
(* The theorems.                                                            *)

LEMMA InitInv ==
    Init => IInv
<1> SUFFICES ASSUME Init PROVE IInv
  OBVIOUS
<1> USE DEF Init
<1>1. request \in [inputs : Seq(Inputs), outputs : Seq(Outputs), limits : Limits]
  BY ArtifactsAssumption
<1>2. Len(inputs) \in Nat /\ Len(outputs) \in Nat
  BY <1>1 DEF inputs, outputs
<1>3. source \in Seq(Nat) /\ source # <<>>
  <2>1. PICK len \in {0} \cup Lengths : source = <<len>>
    OBVIOUS
  <2>2. len \in Nat
    BY ArtifactsAssumption
  <2> QED BY <2>1, <2>2
<1>4. left \in [DOMAIN outputs -> Written] /\ \A n \in DOMAIN left : left[n] = Content(Empty)
  BY InodeTypes DEF outputs
<1>5. /\ file = <<>> /\ tree = <<>> /\ pinned = <<>> /\ mounted = <<>> /\ taken = <<>>
      /\ manifest = <<>> /\ delivered = <<>> /\ meddled = <<>>
      /\ \A S : <<>> \in Seq(S)
      /\ DOMAIN tree = {} /\ DOMAIN file = {} /\ DOMAIN pinned = {} /\ DOMAIN mounted = {}
      /\ DOMAIN taken = {} /\ DOMAIN manifest = {} /\ DOMAIN delivered = {}
      /\ Len(pinned) = 0 /\ Len(mounted) = 0 /\ Len(manifest) = 0 /\ Len(taken) = 0
  OBVIOUS
<1>6. TypeInv
  BY <1>3, <1>4, <1>5 DEF TypeInv, Phases, Refusals
<1>7. ItemInv
  BY <1>2, <1>5 DEF ItemInv
<1>8. SourceInv
  BY <1>5 DEF SourceInv
<1>9. TreeInv
  <2>1. Declared = {} /\ phase = "plan"
    BY DEF Declared
  <2> QED BY <1>5, <2>1 DEF TreeInv
<1>10. PinInv
  BY <1>2, <1>5 DEF PinInv
<1>11. ContentInv
  BY <1>4, <1>5 DEF ContentInv
<1>12. ReportInv
  BY <1>5 DEF ReportInv
<1>13. InputsWhole
  BY <1>5 DEF InputsWhole
<1> QED BY <1>6, <1>7, <1>8, <1>9, <1>10, <1>11, <1>12, <1>13 DEF IInv

\* Through every staging, launch, collection and interference each inode of the workspace is
\* at one path, what is pinned or mounted is at no other path than its output's, and what
\* the manifest says is what the guest left (workspace.ts, artifact.rs, mount.rs).
THEOREM ArtifactsInvariant ==
    Spec => []IInv
<1>1. ASSUME IInv, [Next]_vars PROVE IInv'
  BY <1>1, NextType, NextItem, NextSource, NextTree, NextPin, NextContent, NextReport DEF IInv
<1> QED BY InitInv, <1>1, PTL DEF Spec

\* An input staged from a file is that file as it was at one moment, though the file may be
\* edited between any two reads of it (workspace.ts, stageInputs).
THEOREM InputsWholeHolds ==
    Spec => []InputsWhole
<1>1. IInv => InputsWhole
  BY DEF IInv
<1> QED BY ArtifactsInvariant, <1>1, PTL

\* The artifacts of a run that succeeded are what the guest left in its outputs, all of them
\* but optional ones it left empty, unless another process wrote the very files
\* (artifact.rs, collect_outputs; workspace.ts, collectArtifacts).
THEOREM OutputsHonestHolds ==
    Spec => []OutputsHonest
<1>1. IInv => OutputsHonest
  <2> SUFFICES ASSUME IInv, phase = "done", ~Meddled({"written"})
               PROVE  /\ \A d \in ToSet(delivered) : d.content = left[d.output]
                      /\ \A n \in DOMAIN outputs :
                            \/ \E d \in ToSet(delivered) : d.output = n
                            \/ ~outputs[n].required /\ left[n].len = 0
    BY DEF OutputsHonest
  <2>1. DOMAIN delivered = 1 .. Len(delivered) /\ DOMAIN manifest = 1 .. Len(manifest)
    BY Elements DEF IInv, TypeInv
  <2>2. /\ DOMAIN delivered = DOMAIN manifest
        /\ \A k \in DOMAIN delivered : delivered[k] = manifest[k]
    BY <2>1 DEF IInv, ReportInv
  <2>3. ToSet(delivered) = {manifest[k] : k \in DOMAIN manifest}
    BY <2>2 DEF ToSet
  <2>4. /\ \A k \in DOMAIN manifest : manifest[k].content = left[manifest[k].output]
        /\ \A n \in DOMAIN outputs :
              \/ \E k \in DOMAIN manifest : manifest[k].output = n
              \/ ~outputs[n].required /\ left[n].len = 0
    BY DEF IInv, ReportInv
  <2> QED BY <2>3, <2>4
<1> QED BY ArtifactsInvariant, <1>1, PTL

-----------------------------------------------------------------------------
(* The filter: its program.                                                 *)

Words == SUBSET (0 .. 31)
Verdicts == {"kill", "EPERM", "ENOSYS", "allow"}
Loads == {"arch", "nr", "arg0", "arg1"}
Codes == {"ld", "and", "jeq", "jset", "jge", "ret"}
Instructions == [code : Codes, k : Words \cup Verdicts \cup Loads, jt : Nat, jf : Nat]

LEMMA NatInduct ==
    ASSUME NEW P, 0 \in P, \A n \in Nat : n \in P => n + 1 \in P
    PROVE  Nat \subseteq P
<1> SUFFICES ASSUME Nat \ P # {} PROVE FALSE
  OBVIOUS
<1>1. PICK n \in Nat \ P : \A m \in Nat \ P : n <= m
  BY LeastNat
<1>2. n - 1 \in Nat /\ n - 1 \in P
  BY <1>1
<1> QED BY <1>1, <1>2

LEMMA FunctionSeq ==
    ASSUME NEW S, NEW n \in Nat, NEW f \in [1 .. n -> S]
    PROVE  f \in Seq(S) /\ Len(f) = n
OBVIOUS

LEMMA WordType == \A n : Word(n) \in Words
BY DEF Word, Words

LEMMA WordTypes ==
    /\ AuditArch \in Words /\ X32 \in Words /\ CommandBits \in Words /\ NamespaceFlags \in Words
    /\ Ioctl \in Words /\ Clone \in Words /\ Prctl \in Words /\ Clone3 \in Words
    /\ SetPdeathsig \in Words
BY WordType DEF AuditArch, X32, CommandBits, NamespaceFlags, Ioctl, Clone, Prctl, Clone3,
   SetPdeathsig, Words, Word

LEMMA Denied ==
    /\ DeniedSyscalls \in Seq(Words) /\ Len(DeniedSyscalls) = 40
    /\ DOMAIN DeniedSyscalls = 1 .. 40
    /\ DeniedSyscalls[37] = Fallocate
    /\ \A n \in 1 .. 40 : DeniedSyscalls[n] \in Words
<1>1. DOMAIN DeniedSyscalls = 1 .. 40
  BY DEF DeniedSyscalls
<1>2. DeniedSyscalls[37] = Fallocate
  BY DEF DeniedSyscalls, Fallocate
<1>3. \A n \in 1 .. 40 : DeniedSyscalls[n] \in Words
  BY WordType DEF DeniedSyscalls
<1>4. DeniedSyscalls = [n \in 1 .. 40 |-> DeniedSyscalls[n]]
  BY <1>1 DEF DeniedSyscalls
<1>5. DeniedSyscalls \in [1 .. 40 -> Words]
  BY <1>3, <1>4
<1>6. DeniedSyscalls \in Seq(Words) /\ Len(DeniedSyscalls) = 40
  BY <1>5, FunctionSeq
<1> QED BY <1>1, <1>2, <1>3, <1>6

LEMMA Commands ==
    /\ DOMAIN PreallocationIoctls = 1 .. 3 /\ PreallocationIoctls \in Seq(Words)
    /\ \A n \in 1 .. 3 : PreallocationIoctls[n] \in Words
    /\ ToSet(PreallocationIoctls) = {PreallocationIoctls[n] : n \in 1 .. 3}
BY WordType DEF PreallocationIoctls, ToSet

LEMMA InstructionTypes ==
    /\ \A code \in Codes, k \in Words \cup Verdicts \cup Loads, jt \in Nat, jf \in Nat :
          Jump(code, k, jt, jf) \in Instructions
    /\ \A code \in Codes, k \in Words \cup Verdicts \cup Loads :
          Statement(code, k) \in Instructions
    /\ \A errno \in Verdicts : Deny(errno) \in Instructions
<1>1. ASSUME NEW code \in Codes, NEW k \in Words \cup Verdicts \cup Loads, NEW jt \in Nat,
             NEW jf \in Nat
      PROVE  Jump(code, k, jt, jf) \in Instructions
  BY DEF Jump, Instructions
<1>2. ASSUME NEW code \in Codes, NEW k \in Words \cup Verdicts \cup Loads
      PROVE  Statement(code, k) \in Instructions
  BY <1>1 DEF Statement
<1>3. "ret" \in Codes
  BY DEF Codes
<1> QED BY <1>1, <1>2, <1>3 DEF Deny

LEMMA JoinedTwo ==
    ASSUME NEW S, NEW s \in Seq(S), NEW t \in Seq(S), NEW u \in Seq(S)
    PROVE  Len(t) = 2 /\ Len(u) = Len(s) + 2 /\ (\A i \in 1 .. Len(s) : u[i] = s[i])
           /\ u[Len(s) + 1] = t[1] /\ u[Len(s) + 2] = t[2]
           => s \o t = u
<1>1. Len(s) \in Nat /\ s \o t \in Seq(S) /\ Len(s \o t) = Len(s) + Len(t)
  BY ConcatProperties
<1>2. \A i \in 1 .. Len(s) + Len(t) :
         (s \o t)[i] = IF i <= Len(s) THEN s[i] ELSE t[i - Len(s)]
  BY ConcatProperties
<1>3. DEFINE L == Len(s)
<1>4. ASSUME Len(t) = 2, Len(u) = L + 2, \A i \in 1 .. L : u[i] = s[i],
             u[L + 1] = t[1], u[L + 2] = t[2]
      PROVE  s \o t = u
  <2>1. L \in Nat /\ s \o t \in Seq(S) /\ Len(s \o t) = L + 2
    BY <1>1, <1>4
  <2>2. \A i \in 1 .. L + 2 : (s \o t)[i] = IF i <= L THEN s[i] ELSE t[i - L]
    BY <1>2, <1>4
  <2> HIDE DEF L
  <2>3. ASSUME NEW i \in 1 .. L + 2 PROVE (s \o t)[i] = u[i]
    <3>1. CASE i <= L
      BY <1>4, <2>1, <2>2, <3>1
    <3>2. CASE i = L + 1
      <4>1. ~(i <= L) /\ i - L = 1
        BY <2>1, <3>2
      <4> QED BY <1>4, <2>2, <3>2, <4>1
    <3>3. CASE i = L + 2
      <4>1. ~(i <= L) /\ i - L = 2
        BY <2>1, <3>3
      <4> QED BY <1>4, <2>2, <3>3, <4>1
    <3> QED BY <2>1, <3>1, <3>2, <3>3
  <2> QED BY <1>4, <2>1, <2>3, SeqEqual
<1> QED BY <1>4

\* The sequence u is the blocks of q, N of them and of two elements each, one after the other.
Flattened(u, S, q, N) ==
    /\ u \in Seq(S) /\ Len(u) = 2 * N
    /\ \A n \in 1 .. N : u[2 * n - 1] = q[n][1] /\ u[2 * n] = q[n][2]

LEMMA FlattenPairs ==
    ASSUME NEW S, NEW N \in Nat \ {0}, NEW q \in Seq(Seq(S)), Len(q) = N,
           \A n \in 1 .. N : Len(q[n]) = 2
    PROVE  Flattened(FlattenSeq(q), S, q, N)
<1> DEFINE At(j) == q[(j + 1) \div 2][IF j % 2 = 1 THEN 1 ELSE 2]
           Pairs(n) == [j \in 1 .. 2 * n |-> At(j)]
           Flattens(f) == f = [i \in 1 .. N |-> IF i = 1 THEN q[i] ELSE f[i - 1] \o q[i]]
           flat == CHOOSE f : Flattens(f)
<1>1. DOMAIN q = 1 .. N /\ \A n \in 1 .. N : q[n] \in Seq(S)
  OBVIOUS
<1>2. \A n \in 1 .. N : q[n] = <<q[n][1], q[n][2]>> /\ q[n][1] \in S /\ q[n][2] \in S
  BY <1>1
<1>3. \A j \in 1 .. 2 * N : (j + 1) \div 2 \in 1 .. N
  OBVIOUS
<1>4. \A j \in 1 .. 2 * N : At(j) \in S
  BY <1>2, <1>3
<1>5. \A n \in 1 .. N : At(2 * n - 1) = q[n][1] /\ At(2 * n) = q[n][2]
  <2>1. SUFFICES ASSUME NEW n \in 1 .. N PROVE At(2 * n - 1) = q[n][1] /\ At(2 * n) = q[n][2]
    OBVIOUS
  <2>2. /\ ((2 * n - 1) + 1) \div 2 = n /\ (2 * n - 1) % 2 = 1
        /\ (2 * n + 1) \div 2 = n /\ (2 * n) % 2 = 0
    OBVIOUS
  <2> QED BY <2>2
<1> HIDE DEF At
<1>6. \A n \in 1 .. N : Pairs(n) \in Seq(S) /\ Len(Pairs(n)) = 2 * n
  <2>1. SUFFICES ASSUME NEW n \in 1 .. N PROVE Pairs(n) \in Seq(S) /\ Len(Pairs(n)) = 2 * n
    OBVIOUS
  <2>2. 2 * n \in Nat /\ 1 .. 2 * n \subseteq 1 .. 2 * N
    OBVIOUS
  <2>3. Pairs(n) \in [1 .. 2 * n -> S]
    BY <1>4, <2>2
  <2> QED BY <2>2, <2>3
<1>7. Pairs(1) = q[1]
  <2>1. 2 * 1 = 2 /\ 1 \in 1 .. N
    OBVIOUS
  <2>2. At(1) = q[1][1] /\ At(2) = q[1][2]
    BY <1>5, <2>1
  <2>3. Pairs(1) = [j \in 1 .. 2 |-> At(j)]
    OBVIOUS
  <2>4. Len(q[1]) = 2 /\ q[1] \in Seq(S) /\ Pairs(1) \in Seq(S) /\ Len(Pairs(1)) = 2
    BY <1>1, <1>6, <2>1
  <2> QED BY <2>2, <2>3, <2>4, SeqEqual
<1>8. ASSUME NEW n \in 2 .. N PROVE Pairs(n - 1) \o q[n] = Pairs(n)
  <2>1. n \in 1 .. N /\ n - 1 \in 1 .. N /\ n \in Nat
    OBVIOUS
  <2>2. /\ Pairs(n - 1) \in Seq(S) /\ Len(Pairs(n - 1)) = 2 * n - 2 /\ q[n] \in Seq(S)
        /\ Len(q[n]) = 2 /\ Pairs(n) \in Seq(S) /\ Len(Pairs(n)) = 2 * n
    <3>1. 2 * (n - 1) = 2 * n - 2
      BY <2>1
    <3> QED BY <1>1, <1>6, <2>1, <3>1
  <2>3. /\ \A j \in 1 .. 2 * n - 2 : Pairs(n - 1)[j] = At(j)
        /\ \A j \in 1 .. 2 * n : Pairs(n)[j] = At(j)
    BY <2>1
  <2>4. q[n][1] = At(2 * n - 1) /\ q[n][2] = At(2 * n)
    BY <1>5, <2>1
  <2>5. (2 * n - 2) + 1 = 2 * n - 1 /\ (2 * n - 2) + 2 = 2 * n
        /\ 1 .. 2 * n - 2 \subseteq 1 .. 2 * n /\ 2 * n - 1 \in 1 .. 2 * n /\ 2 * n \in 1 .. 2 * n
    BY <2>1
  <2>6. /\ \A j \in 1 .. 2 * n - 2 : Pairs(n)[j] = Pairs(n - 1)[j]
        /\ Pairs(n)[(2 * n - 2) + 1] = q[n][1] /\ Pairs(n)[(2 * n - 2) + 2] = q[n][2]
        /\ Len(Pairs(n)) = (2 * n - 2) + 2
    BY <2>2, <2>3, <2>4, <2>5
  <2> HIDE DEF Pairs
  <2>7. /\ Len(Pairs(n)) = Len(Pairs(n - 1)) + 2
        /\ \A j \in 1 .. Len(Pairs(n - 1)) : Pairs(n)[j] = Pairs(n - 1)[j]
        /\ Pairs(n)[Len(Pairs(n - 1)) + 1] = q[n][1] /\ Pairs(n)[Len(Pairs(n - 1)) + 2] = q[n][2]
    BY <2>2, <2>6
  <2>8. Pairs(n) \in Seq(S) /\ Pairs(n - 1) \in Seq(S) /\ q[n] \in Seq(S) /\ Len(q[n]) = 2
    BY <2>2
  <2> QED BY <2>7, <2>8, JoinedTwo
<1>9. Flattens([i \in 1 .. N |-> Pairs(i)])
  <2> HIDE DEF Pairs
  <2>1. ASSUME NEW i \in 1 .. N
        PROVE  Pairs(i) = IF i = 1 THEN q[i] ELSE [k \in 1 .. N |-> Pairs(k)][i - 1] \o q[i]
    <3>1. CASE i = 1
      BY <1>7, <3>1
    <3>2. CASE i # 1
      <4>1. i \in 2 .. N /\ i - 1 \in 1 .. N
        BY <3>2
      <4> QED BY <1>8, <3>2, <4>1
    <3> QED BY <3>1, <3>2
  <2> QED BY <2>1
<1>10. Flattens(flat)
  <2> HIDE DEF Flattens
  <2> QED BY <1>9
<1> HIDE DEF flat
<1>11. \A n \in 1 .. N : flat[n] = Pairs(n)
  <2> HIDE DEF Pairs
  <2> DEFINE P == {n \in Nat : n \in 1 .. N => flat[n] = Pairs(n)}
  <2>1. 0 \in P
    OBVIOUS
  <2>2. ASSUME NEW n \in Nat, n \in P PROVE n + 1 \in P
    <3>1. CASE n + 1 \notin 1 .. N
      BY <3>1
    <3>2. CASE n = 0
      BY <1>7, <1>10, <3>2
    <3>3. CASE n + 1 \in 2 .. N
      <4>1. n \in 1 .. N /\ (n + 1) - 1 = n /\ n + 1 \in 1 .. N /\ n + 1 # 1
        BY <3>3
      <4>2. flat[n + 1] = flat[n] \o q[n + 1]
        BY <1>10, <4>1
      <4>3. Pairs((n + 1) - 1) \o q[n + 1] = Pairs(n + 1)
        BY <1>8, <3>3
      <4>4. flat[n] = Pairs(n)
        BY <2>2, <4>1
      <4>5. flat[n + 1] = Pairs(n + 1)
        BY <4>1, <4>2, <4>3, <4>4
      <4> QED BY <4>5
    <3> QED BY <3>1, <3>2, <3>3
  <2> HIDE DEF P
  <2>3. Nat \subseteq P
    BY <2>1, <2>2, NatInduct
  <2> QED BY <2>3 DEF P
<1>12. FlattenSeq(q) = flat[N]
  BY DEF FlattenSeq, flat
<1>13. FlattenSeq(q) = Pairs(N) /\ N \in 1 .. N
  BY <1>11, <1>12
<1>14. \A n \in 1 .. N : 2 * n - 1 \in 1 .. 2 * N /\ 2 * n \in 1 .. 2 * N
  OBVIOUS
<1> QED BY <1>5, <1>6, <1>13, <1>14 DEF Flattened

\* The sequence u is s, of length n, followed by t, of length m.
Follows(u, S, s, n, t, m) ==
    /\ u \in Seq(S) /\ Len(u) = n + m
    /\ \A i \in 1 .. n : u[i] = s[i]
    /\ \A i \in 1 .. n + m : i > n => u[i] = t[i - n]

LEMMA JoinAt ==
    ASSUME NEW S, NEW s \in Seq(S), NEW t \in Seq(S), NEW n \in Nat, NEW m \in Nat
    PROVE  Len(s) = n /\ Len(t) = m => Follows(s \o t, S, s, n, t, m)
<1>1. Len(s) \in Nat /\ s \o t \in Seq(S) /\ Len(s \o t) = Len(s) + Len(t)
  BY ConcatProperties
<1>2. \A i \in 1 .. Len(s) + Len(t) :
         (s \o t)[i] = IF i <= Len(s) THEN s[i] ELSE t[i - Len(s)]
  BY ConcatProperties
<1> QED BY <1>1, <1>2 DEF Follows

Header ==
    <<Statement("ld", "arch"), Jump("jeq", AuditArch, 1, 0), Statement("ret", "kill"),
      Statement("ld", "nr"), Jump("jge", X32, 0, 1), Statement("ret", "kill")>>
DeniedBlocks == [n \in DOMAIN DeniedSyscalls |-> SyscallBlock(DeniedSyscalls[n], <<Deny("EPERM")>>)]
CommandBlocks == [n \in DOMAIN PreallocationIoctls |-> DenyIfEqual(PreallocationIoctls[n])]

LEMMA Symbols ==
    /\ "kill" \in Verdicts /\ "EPERM" \in Verdicts /\ "ENOSYS" \in Verdicts /\ "allow" \in Verdicts
    /\ "ld" \in Codes /\ "and" \in Codes /\ "jeq" \in Codes /\ "jset" \in Codes /\ "jge" \in Codes
    /\ "ret" \in Codes
    /\ "arch" \in Loads /\ "nr" \in Loads /\ "arg0" \in Loads /\ "arg1" \in Loads
BY DEF Verdicts, Codes, Loads

LEMMA OneAndOne ==
    ASSUME NEW S, NEW a \in S, NEW b \in S
    PROVE  <<a>> \o <<b>> = <<a, b>>
<1> DEFINE s == <<a>>
           t == <<b>>
           u == <<a, b>>
<1>1. /\ s \in Seq(S) /\ t \in Seq(S) /\ u \in Seq(S)
      /\ Len(s) = 1 /\ Len(t) = 1 /\ Len(u) = 2
      /\ s[1] = a /\ t[1] = b /\ u[1] = a /\ u[2] = b
  OBVIOUS
<1> HIDE DEF s, t, u
<1>2. Follows(s \o t, S, s, 1, t, 1)
  BY <1>1, JoinAt
<1> DEFINE q == s \o t
<1>3. Follows(q, S, s, 1, t, 1)
  BY <1>2
<1> HIDE DEF q
<1>4. q \in Seq(S) /\ Len(q) = 2 /\ \A i \in 1 .. 2 : q[i] = u[i]
  BY <1>1, <1>3 DEF Follows
<1>5. q = u
  BY <1>1, <1>4, SeqEqual
<1> QED BY <1>5 DEF q, s, t, u

LEMMA DenyBlock ==
    ASSUME NEW nr \in Words, NEW errno \in Verdicts
    PROVE  /\ SyscallBlock(nr, <<Deny(errno)>>) = <<Jump("jeq", nr, 0, 1), Deny(errno)>>
           /\ SyscallBlock(nr, <<Deny(errno)>>) \in Seq(Instructions)
           /\ Len(SyscallBlock(nr, <<Deny(errno)>>)) = 2
<1>1. Jump("jeq", nr, 0, 1) \in Instructions /\ Deny(errno) \in Instructions
  BY Symbols, InstructionTypes
<1>2. <<Jump("jeq", nr, 0, 1)>> \o <<Deny(errno)>> = <<Jump("jeq", nr, 0, 1), Deny(errno)>>
  <2> QED BY <1>1, OneAndOne
<1>3. Len(<<Deny(errno)>>) = 1
  OBVIOUS
<1>4. SyscallBlock(nr, <<Deny(errno)>>) = <<Jump("jeq", nr, 0, 1), Deny(errno)>>
  BY <1>2, <1>3 DEF SyscallBlock
<1>5. /\ <<Jump("jeq", nr, 0, 1), Deny(errno)>> \in Seq(Instructions)
      /\ Len(<<Jump("jeq", nr, 0, 1), Deny(errno)>>) = 2
  BY <1>1
<1> QED BY <1>4, <1>5

LEMMA DeniedAt ==
    /\ FlattenSeq(DeniedBlocks) \in Seq(Instructions) /\ Len(FlattenSeq(DeniedBlocks)) = 80
    /\ \A n \in 1 .. 40 :
          /\ FlattenSeq(DeniedBlocks)[2 * n - 1] = Jump("jeq", DeniedSyscalls[n], 0, 1)
          /\ FlattenSeq(DeniedBlocks)[2 * n] = Deny("EPERM")
<1>1. DOMAIN DeniedSyscalls = 1 .. 40 /\ \A n \in 1 .. 40 : DeniedSyscalls[n] \in Words
  BY Denied
<1>2. \A n \in 1 .. 40 :
         /\ DeniedBlocks[n] = <<Jump("jeq", DeniedSyscalls[n], 0, 1), Deny("EPERM")>>
         /\ DeniedBlocks[n] \in Seq(Instructions) /\ Len(DeniedBlocks[n]) = 2
  BY <1>1, DenyBlock, Symbols DEF DeniedBlocks
<1>3. DeniedBlocks \in [1 .. 40 -> Seq(Instructions)]
  BY <1>1, <1>2 DEF DeniedBlocks
<1>4. DeniedBlocks \in Seq(Seq(Instructions)) /\ Len(DeniedBlocks) = 40
  <2> HIDE DEF DeniedBlocks
  <2>1. 40 \in Nat OBVIOUS
  <2> QED BY ZenonT(40), <1>3, <2>1, FunctionSeq
<1>5. \A n \in 1 .. 40 : /\ DeniedBlocks[n][1] = Jump("jeq", DeniedSyscalls[n], 0, 1)
                         /\ DeniedBlocks[n][2] = Deny("EPERM")
  <2> HIDE DEF DeniedBlocks
  <2>1. ASSUME NEW n \in 1 .. 40
        PROVE  /\ DeniedBlocks[n][1] = Jump("jeq", DeniedSyscalls[n], 0, 1)
               /\ DeniedBlocks[n][2] = Deny("EPERM")
    <3>1. DeniedBlocks[n] = <<Jump("jeq", DeniedSyscalls[n], 0, 1), Deny("EPERM")>>
      BY <1>2
    <3> DEFINE a == Jump("jeq", DeniedSyscalls[n], 0, 1)
               b == Deny("EPERM")
               q == DeniedBlocks[n]
    <3>2. q = <<a, b>>
      BY <3>1
    <3> HIDE DEF a, b, q
    <3>3. q[1] = a /\ q[2] = b
      BY <3>2
    <3> QED BY <3>3 DEF a, b, q
  <2> QED BY <2>1
<1>6. Flattened(FlattenSeq(DeniedBlocks), Instructions, DeniedBlocks, 40)
  <2> HIDE DEF DeniedBlocks
  <2>1. 40 \in Nat \ {0}
    OBVIOUS
  <2>2. \A n \in 1 .. 40 : Len(DeniedBlocks[n]) = 2
    BY <1>2
  <2> QED BY <1>4, <2>1, <2>2, FlattenPairs
<1> DEFINE u == FlattenSeq(DeniedBlocks)
<1>7. u \in Seq(Instructions) /\ Len(u) = 80
      /\ \A n \in 1 .. 40 : u[2 * n - 1] = DeniedBlocks[n][1] /\ u[2 * n] = DeniedBlocks[n][2]
  <2>1. Flattened(u, Instructions, DeniedBlocks, 40)
    BY <1>6
  <2> HIDE DEF u
  <2> QED BY <2>1 DEF Flattened
<1> HIDE DEF u, DeniedBlocks
<1>8. /\ u \in Seq(Instructions) /\ Len(u) = 80
      /\ \A n \in 1 .. 40 : /\ u[2 * n - 1] = Jump("jeq", DeniedSyscalls[n], 0, 1)
                           /\ u[2 * n] = Deny("EPERM")
  BY ZenonT(40), <1>5, <1>7
<1> QED BY <1>8 DEF u

LEMMA CommandAt ==
    /\ FlattenSeq(CommandBlocks) \in Seq(Instructions) /\ Len(FlattenSeq(CommandBlocks)) = 6
    /\ \A n \in 1 .. 3 :
          /\ FlattenSeq(CommandBlocks)[2 * n - 1] = Jump("jeq", PreallocationIoctls[n], 0, 1)
          /\ FlattenSeq(CommandBlocks)[2 * n] = Deny("EPERM")
<1>1. DOMAIN PreallocationIoctls = 1 .. 3 /\ \A n \in 1 .. 3 : PreallocationIoctls[n] \in Words
  BY Commands
<1>2. \A n \in 1 .. 3 :
         /\ CommandBlocks[n] = <<Jump("jeq", PreallocationIoctls[n], 0, 1), Deny("EPERM")>>
         /\ CommandBlocks[n] \in Seq(Instructions) /\ Len(CommandBlocks[n]) = 2
  <2>1. SUFFICES ASSUME NEW n \in 1 .. 3
        PROVE  /\ CommandBlocks[n] = <<Jump("jeq", PreallocationIoctls[n], 0, 1), Deny("EPERM")>>
               /\ CommandBlocks[n] \in Seq(Instructions) /\ Len(CommandBlocks[n]) = 2
    OBVIOUS
  <2>2. CommandBlocks[n] = <<Jump("jeq", PreallocationIoctls[n], 0, 1), Deny("EPERM")>>
    BY <1>1, <2>1 DEF CommandBlocks, DenyIfEqual
  <2>3. /\ <<Jump("jeq", PreallocationIoctls[n], 0, 1), Deny("EPERM")>> \in Seq(Instructions)
        /\ Len(<<Jump("jeq", PreallocationIoctls[n], 0, 1), Deny("EPERM")>>) = 2
    <3>1. /\ Jump("jeq", PreallocationIoctls[n], 0, 1) \in Instructions
          /\ Deny("EPERM") \in Instructions
      BY <1>1, <2>1, Symbols, InstructionTypes
    <3> QED BY <3>1
  <2> QED BY <2>2, <2>3
<1>3. CommandBlocks \in [1 .. 3 -> Seq(Instructions)]
  BY <1>1, <1>2 DEF CommandBlocks
<1>4. CommandBlocks \in Seq(Seq(Instructions)) /\ Len(CommandBlocks) = 3
  <2> HIDE DEF CommandBlocks
  <2>1. 3 \in Nat
    OBVIOUS
  <2> QED BY <1>3, <2>1, FunctionSeq
<1>5. \A n \in 1 .. 3 : /\ CommandBlocks[n][1] = Jump("jeq", PreallocationIoctls[n], 0, 1)
                        /\ CommandBlocks[n][2] = Deny("EPERM")
  <2> HIDE DEF CommandBlocks
  <2>1. ASSUME NEW n \in 1 .. 3
        PROVE  /\ CommandBlocks[n][1] = Jump("jeq", PreallocationIoctls[n], 0, 1)
               /\ CommandBlocks[n][2] = Deny("EPERM")
    <3>1. CommandBlocks[n] = <<Jump("jeq", PreallocationIoctls[n], 0, 1), Deny("EPERM")>>
      BY <1>2
    <3> DEFINE a == Jump("jeq", PreallocationIoctls[n], 0, 1)
               b == Deny("EPERM")
               q == CommandBlocks[n]
    <3>2. q = <<a, b>>
      BY <3>1
    <3> HIDE DEF a, b, q
    <3>3. q[1] = a /\ q[2] = b
      BY <3>2
    <3> QED BY <3>3 DEF a, b, q
  <2> QED BY <2>1
<1>6. Flattened(FlattenSeq(CommandBlocks), Instructions, CommandBlocks, 3)
  <2> HIDE DEF CommandBlocks
  <2>1. 3 \in Nat \ {0}
    OBVIOUS
  <2>2. \A n \in 1 .. 3 : Len(CommandBlocks[n]) = 2
    BY <1>2
  <2> QED BY <1>4, <2>1, <2>2, FlattenPairs
<1> DEFINE u == FlattenSeq(CommandBlocks)
<1>7. u \in Seq(Instructions) /\ Len(u) = 6
      /\ \A n \in 1 .. 3 : u[2 * n - 1] = CommandBlocks[n][1] /\ u[2 * n] = CommandBlocks[n][2]
  <2>1. Flattened(u, Instructions, CommandBlocks, 3)
    BY <1>6
  <2> HIDE DEF u
  <2> QED BY <2>1 DEF Flattened
<1> HIDE DEF u, CommandBlocks
<1>8. /\ u \in Seq(Instructions) /\ Len(u) = 6
      /\ \A n \in 1 .. 3 : /\ u[2 * n - 1] = Jump("jeq", PreallocationIoctls[n], 0, 1)
                           /\ u[2 * n] = Deny("EPERM")
  BY <1>5, <1>7
<1> QED BY <1>8 DEF u

\* The ioctl block.
LEMMA IoctlAt ==
    LET q == SyscallBlock(Ioctl, IoctlBody) IN
    /\ q \in Seq(Instructions) /\ Len(q) = 10
    /\ q[1] = Jump("jeq", Ioctl, 0, 9) /\ q[2] = Statement("ld", "arg1")
    /\ q[3] = Statement("and", CommandBits) /\ q[10] = Statement("ld", "nr")
    /\ \A n \in 1 .. 3 : /\ q[2 * n + 2] = Jump("jeq", PreallocationIoctls[n], 0, 1)
                         /\ q[2 * n + 3] = Deny("EPERM")
<1> DEFINE a == <<Statement("ld", "arg1"), Statement("and", CommandBits)>>
           b == FlattenSeq(CommandBlocks)
           c == <<Statement("ld", "nr")>>
           d == <<Jump("jeq", Ioctl, 0, 9)>>
           i == Jump("jeq", Ioctl, 0, 9)
           l == Statement("ld", "arg1")
           m == Statement("and", CommandBits)
           r == Statement("ld", "nr")
<1>1. i \in Instructions /\ l \in Instructions /\ m \in Instructions /\ r \in Instructions
  BY Symbols, InstructionTypes, WordTypes
<1>2. /\ a \in Seq(Instructions) /\ c \in Seq(Instructions) /\ d \in Seq(Instructions)
      /\ Len(a) = 2 /\ Len(c) = 1 /\ Len(d) = 1
      /\ a[1] = l /\ a[2] = m /\ c[1] = r /\ d[1] = i
  <2>1. a = <<l, m>> /\ c = <<r>> /\ d = <<i>>
    OBVIOUS
  <2> HIDE DEF a, c, d, l, m, r, i
  <2> QED BY <1>1, <2>1
<1>3. b \in Seq(Instructions) /\ Len(b) = 6
  BY CommandAt
<1>4. IoctlBody = (a \o b) \o c
  BY DEF IoctlBody, CommandBlocks
<1> HIDE DEF a, b, c, d
<1> DEFINE ab == a \o b
           q == SyscallBlock(Ioctl, IoctlBody)
<1>5. Follows(ab, Instructions, a, 2, b, 6)
  BY <1>2, <1>3, JoinAt
<1>6. ab \in Seq(Instructions) /\ Len(ab) = 8
  <2> HIDE DEF ab
  <2> QED BY <1>5 DEF Follows
<1>7. Follows(IoctlBody, Instructions, ab, 8, c, 1)
  <2> HIDE DEF ab
  <2>1. IoctlBody = ab \o c
    BY <1>4 DEF ab
  <2> QED BY <1>2, <1>6, <2>1, JoinAt
<1> HIDE DEF ab
<1>8. IoctlBody \in Seq(Instructions) /\ Len(IoctlBody) = 9
  BY <1>7 DEF Follows
<1>9. q = d \o IoctlBody
  BY <1>8 DEF SyscallBlock, d
<1>10. Follows(q, Instructions, d, 1, IoctlBody, 9)
  BY <1>2, <1>8, <1>9, JoinAt
<1> HIDE DEF q
<1>11. /\ q \in Seq(Instructions) /\ Len(q) = 10 /\ q[1] = d[1]
       /\ \A k \in 2 .. 10 : q[k] = IoctlBody[k - 1]
  BY <1>10 DEF Follows
<1>12. /\ \A k \in 1 .. 8 : IoctlBody[k] = ab[k]
       /\ IoctlBody[9] = c[1]
  BY <1>7 DEF Follows
<1>13. /\ ab[1] = a[1] /\ ab[2] = a[2] /\ \A k \in 3 .. 8 : ab[k] = b[k - 2]
  BY <1>5 DEF Follows
<1>14. /\ q[2] = a[1] /\ q[3] = a[2] /\ q[10] = c[1]
       /\ \A k \in 4 .. 9 : q[k] = b[k - 3]
  <2>1. /\ q[2] = IoctlBody[1] /\ q[3] = IoctlBody[2] /\ q[10] = IoctlBody[9]
        /\ \A k \in 4 .. 9 : q[k] = IoctlBody[k - 1]
    BY <1>11
  <2>2. \A k \in 4 .. 9 : k - 1 \in 3 .. 8 /\ k - 1 \in 1 .. 8 /\ (k - 1) - 2 = k - 3
    OBVIOUS
  <2> QED BY <1>12, <1>13, <2>1, <2>2
<1>15. ASSUME NEW n \in 1 .. 3
       PROVE  /\ q[2 * n + 2] = Jump("jeq", PreallocationIoctls[n], 0, 1)
              /\ q[2 * n + 3] = Deny("EPERM")
  <2>1. /\ 2 * n + 2 \in 4 .. 9 /\ (2 * n + 2) - 3 = 2 * n - 1
        /\ 2 * n + 3 \in 4 .. 9 /\ (2 * n + 3) - 3 = 2 * n
    OBVIOUS
  <2>2. q[2 * n + 2] = b[2 * n - 1] /\ q[2 * n + 3] = b[2 * n]
    BY <1>14, <2>1
  <2> QED BY <2>2, CommandAt DEF b
<1>16. q[1] = i /\ q[2] = l /\ q[3] = m /\ q[10] = r
  BY <1>2, <1>11, <1>14
<1> QED BY <1>11, <1>15, <1>16 DEF q

\* The prctl block.
LEMMA PrctlAt ==
    LET q == SyscallBlock(Prctl, PrctlBody) IN
    /\ q \in Seq(Instructions) /\ Len(q) = 5
    /\ q[1] = Jump("jeq", Prctl, 0, 4) /\ q[2] = Statement("ld", "arg0")
    /\ q[3] = Jump("jeq", SetPdeathsig, 0, 1) /\ q[4] = Deny("EPERM")
    /\ q[5] = Statement("ld", "nr")
<1> DEFINE i == Jump("jeq", Prctl, 0, 4)
           l == Statement("ld", "arg0")
           j == Jump("jeq", SetPdeathsig, 0, 1)
           e == Deny("EPERM")
           r == Statement("ld", "nr")
           a == <<l>>
           b == <<j, e>>
           c == <<r>>
           d == <<i>>
<1>1. /\ i \in Instructions /\ l \in Instructions /\ j \in Instructions
      /\ e \in Instructions /\ r \in Instructions
  BY Symbols, InstructionTypes, WordTypes
<1>2. PrctlBody = (a \o b) \o c
  BY DEF PrctlBody, DenyIfEqual
<1>3. ASSUME Len(PrctlBody) = 4 PROVE SyscallBlock(Prctl, PrctlBody) = d \o PrctlBody
  BY <1>3 DEF SyscallBlock
<1> HIDE DEF i, l, j, e, r
<1>4. /\ a \in Seq(Instructions) /\ b \in Seq(Instructions)
      /\ c \in Seq(Instructions) /\ d \in Seq(Instructions)
      /\ Len(a) = 1 /\ Len(b) = 2 /\ Len(c) = 1 /\ Len(d) = 1
      /\ a[1] = l /\ b[1] = j /\ b[2] = e /\ c[1] = r /\ d[1] = i
  BY <1>1
<1> HIDE DEF a, b, c, d
<1> DEFINE ab == a \o b
           q == SyscallBlock(Prctl, PrctlBody)
<1>5. Follows(ab, Instructions, a, 1, b, 2)
  BY <1>4, JoinAt
<1>6. PrctlBody = ab \o c
  BY <1>2
<1> HIDE DEF ab
<1>7. ab \in Seq(Instructions) /\ Len(ab) = 3 /\ ab[1] = l /\ ab[2] = j /\ ab[3] = e
  BY <1>4, <1>5 DEF Follows
<1>8. Follows(PrctlBody, Instructions, ab, 3, c, 1)
  BY <1>4, <1>6, <1>7, JoinAt
<1>9. PrctlBody \in Seq(Instructions) /\ Len(PrctlBody) = 4
      /\ PrctlBody[1] = l /\ PrctlBody[2] = j /\ PrctlBody[3] = e /\ PrctlBody[4] = r
  BY <1>4, <1>7, <1>8 DEF Follows
<1>10. Follows(q, Instructions, d, 1, PrctlBody, 4)
  BY <1>3, <1>4, <1>9, JoinAt
<1> HIDE DEF q
<1>11. q \in Seq(Instructions) /\ Len(q) = 5
       /\ q[1] = i /\ q[2] = l /\ q[3] = j /\ q[4] = e /\ q[5] = r
  BY <1>4, <1>9, <1>10 DEF Follows
<1> QED BY <1>11 DEF q, i, l, j, e, r

\* The clone block.
LEMMA CloneAt ==
    LET q == SyscallBlock(Clone, CloneBody) IN
    /\ q \in Seq(Instructions) /\ Len(q) = 5
    /\ q[1] = Jump("jeq", Clone, 0, 4) /\ q[2] = Statement("ld", "arg0")
    /\ q[3] = Jump("jset", NamespaceFlags, 0, 1) /\ q[4] = Deny("EPERM")
    /\ q[5] = Statement("ld", "nr")
<1> DEFINE i == Jump("jeq", Clone, 0, 4)
           l == Statement("ld", "arg0")
           j == Jump("jset", NamespaceFlags, 0, 1)
           e == Deny("EPERM")
           r == Statement("ld", "nr")
           b == <<l, j, e, r>>
           d == <<i>>
<1>1. /\ i \in Instructions /\ l \in Instructions /\ j \in Instructions
      /\ e \in Instructions /\ r \in Instructions
  BY Symbols, InstructionTypes, WordTypes
<1>2. CloneBody = b
  BY DEF CloneBody
<1>3. ASSUME Len(CloneBody) = 4 PROVE SyscallBlock(Clone, CloneBody) = d \o CloneBody
  BY <1>3 DEF SyscallBlock
<1> HIDE DEF i, l, j, e, r
<1>4. /\ b \in Seq(Instructions) /\ d \in Seq(Instructions) /\ Len(b) = 4 /\ Len(d) = 1
      /\ b[1] = l /\ b[2] = j /\ b[3] = e /\ b[4] = r /\ d[1] = i
  BY <1>1
<1> HIDE DEF b, d
<1> DEFINE q == SyscallBlock(Clone, CloneBody)
<1>5. q = d \o b
  BY <1>2, <1>3, <1>4
<1> HIDE DEF q
<1>6. Follows(q, Instructions, d, 1, b, 4)
  BY <1>4, <1>5, JoinAt
<1>7. q \in Seq(Instructions) /\ Len(q) = 5
      /\ q[1] = i /\ q[2] = l /\ q[3] = j /\ q[4] = e /\ q[5] = r
  BY <1>4, <1>6 DEF Follows
<1> QED BY <1>7 DEF q, i, l, j, e, r

\* The header and the last instruction.
LEMMA EndsAt ==
    /\ Header \in Seq(Instructions) /\ Len(Header) = 6
    /\ Header[1] = Statement("ld", "arch") /\ Header[2] = Jump("jeq", AuditArch, 1, 0)
    /\ Header[3] = Deny("kill") /\ Header[4] = Statement("ld", "nr")
    /\ Header[5] = Jump("jge", X32, 0, 1) /\ Header[6] = Deny("kill")
    /\ <<Deny("allow")>> \in Seq(Instructions) /\ Len(<<Deny("allow")>>) = 1
    /\ <<Deny("allow")>>[1] = Deny("allow")
<1> DEFINE a == Statement("ld", "arch")
           b == Jump("jeq", AuditArch, 1, 0)
           c == Deny("kill")
           d == Statement("ld", "nr")
           e == Jump("jge", X32, 0, 1)
           z == Deny("allow")
<1>1. /\ a \in Instructions /\ b \in Instructions /\ c \in Instructions
      /\ d \in Instructions /\ e \in Instructions /\ z \in Instructions
  BY Symbols, InstructionTypes, WordTypes
<1>2. Header = <<a, b, c, d, e, c>>
  BY DEF Header, Deny
<1> HIDE DEF a, b, c, d, e, z
<1>3. /\ Header \in Seq(Instructions) /\ Len(Header) = 6 /\ Header[1] = a /\ Header[2] = b
      /\ Header[3] = c /\ Header[4] = d /\ Header[5] = e /\ Header[6] = c
  BY <1>1, <1>2
<1>4. <<z>> \in Seq(Instructions) /\ Len(<<z>>) = 1 /\ <<z>>[1] = z
  BY <1>1
<1> QED BY <1>3, <1>4 DEF a, b, c, d, e, z

LEMMA JoinAll ==
    ASSUME NEW S, NEW s \in Seq(S), NEW t \in Seq(S)
    PROVE  Follows(s \o t, S, s, Len(s), t, Len(t))
<1>1. Len(s) \in Nat /\ Len(t) \in Nat
  OBVIOUS
<1> QED BY <1>1, JoinAt

\* Every instruction of the program, at its place.
LEMMA ProgramAt ==
    LET q == BaselineFilter IN
    /\ q \in Seq(Instructions) /\ Len(q) = 109
    /\ q[1] = Statement("ld", "arch") /\ q[2] = Jump("jeq", AuditArch, 1, 0)
    /\ q[3] = Deny("kill") /\ q[4] = Statement("ld", "nr") /\ q[5] = Jump("jge", X32, 0, 1)
    /\ q[6] = Deny("kill")
    /\ \A n \in 1 .. 40 : /\ q[2 * n + 5] = Jump("jeq", DeniedSyscalls[n], 0, 1)
                          /\ q[2 * n + 6] = Deny("EPERM")
    /\ q[87] = Jump("jeq", Ioctl, 0, 9) /\ q[88] = Statement("ld", "arg1")
    /\ q[89] = Statement("and", CommandBits) /\ q[96] = Statement("ld", "nr")
    /\ \A n \in 1 .. 3 : /\ q[2 * n + 88] = Jump("jeq", PreallocationIoctls[n], 0, 1)
                         /\ q[2 * n + 89] = Deny("EPERM")
    /\ q[97] = Jump("jeq", Prctl, 0, 4) /\ q[98] = Statement("ld", "arg0")
    /\ q[99] = Jump("jeq", SetPdeathsig, 0, 1) /\ q[100] = Deny("EPERM")
    /\ q[101] = Statement("ld", "nr")
    /\ q[102] = Jump("jeq", Clone3, 0, 1) /\ q[103] = Deny("ENOSYS")
    /\ q[104] = Jump("jeq", Clone, 0, 4) /\ q[105] = Statement("ld", "arg0")
    /\ q[106] = Jump("jset", NamespaceFlags, 0, 1) /\ q[107] = Deny("EPERM")
    /\ q[108] = Statement("ld", "nr") /\ q[109] = Deny("allow")
<1> DEFINE h == Header
           f == FlattenSeq(DeniedBlocks)
           i == SyscallBlock(Ioctl, IoctlBody)
           p == SyscallBlock(Prctl, PrctlBody)
           c == SyscallBlock(Clone3, <<Deny("ENOSYS")>>)
           k == SyscallBlock(Clone, CloneBody)
           z == <<Deny("allow")>>
<1>1. BaselineFilter = (((((h \o f) \o i) \o p) \o c) \o k) \o z
  BY DEF BaselineFilter, Header, DeniedBlocks, Deny
<1>2. /\ h \in Seq(Instructions) /\ Len(h) = 6 /\ f \in Seq(Instructions) /\ Len(f) = 80
      /\ i \in Seq(Instructions) /\ Len(i) = 10 /\ p \in Seq(Instructions) /\ Len(p) = 5
      /\ k \in Seq(Instructions) /\ Len(k) = 5 /\ z \in Seq(Instructions) /\ Len(z) = 1
  BY EndsAt, DeniedAt, IoctlAt, PrctlAt, CloneAt, Zenon
<1>3. /\ c \in Seq(Instructions) /\ Len(c) = 2
      /\ c[1] = Jump("jeq", Clone3, 0, 1) /\ c[2] = Deny("ENOSYS")
  <2> DEFINE a == Jump("jeq", Clone3, 0, 1)
             b == Deny("ENOSYS")
  <2>1. c = <<a, b>> /\ c \in Seq(Instructions) /\ Len(c) = 2
    BY DenyBlock, Symbols, WordTypes
  <2> HIDE DEF a, b, c
  <2>2. c[1] = a /\ c[2] = b
    BY <2>1
  <2> QED BY <2>1, <2>2 DEF a, b
<1> DEFINE s2 == h \o f
           s3 == s2 \o i
           s4 == s3 \o p
           s5 == s4 \o c
           s6 == s5 \o k
           q == BaselineFilter
<1>4. q = s6 \o z
  BY <1>1
<1> HIDE DEF h, f, i, p, c, k, z, s2, s3, s4, s5, s6, q
<1>5. Follows(s2, Instructions, h, 6, f, 80)
  <2>1. h \in Seq(Instructions) /\ f \in Seq(Instructions)
    BY <1>2
  <2>2. Follows(h \o f, Instructions, h, Len(h), f, Len(f))
    BY <2>1, JoinAll, Zenon
  <2>3. Len(h) = 6 /\ Len(f) = 80
    BY <1>2
  <2> QED BY <2>2, <2>3, Zenon DEF s2
<1>6. s2 \in Seq(Instructions) /\ Len(s2) = 86
  BY <1>5 DEF Follows
<1>7. Follows(s3, Instructions, s2, 86, i, 10)
  <2>1. s2 \in Seq(Instructions) /\ i \in Seq(Instructions)
    BY <1>2, <1>6
  <2>2. Follows(s2 \o i, Instructions, s2, Len(s2), i, Len(i))
    BY <2>1, JoinAll, Zenon
  <2>3. Len(s2) = 86 /\ Len(i) = 10
    BY <1>2, <1>6
  <2> QED BY <2>2, <2>3, Zenon DEF s3
<1>8. s3 \in Seq(Instructions) /\ Len(s3) = 96
  BY <1>7 DEF Follows
<1>9. Follows(s4, Instructions, s3, 96, p, 5)
  <2>1. s3 \in Seq(Instructions) /\ p \in Seq(Instructions)
    BY <1>2, <1>8
  <2>2. Follows(s3 \o p, Instructions, s3, Len(s3), p, Len(p))
    BY <2>1, JoinAll, Zenon
  <2>3. Len(s3) = 96 /\ Len(p) = 5
    BY <1>2, <1>8
  <2> QED BY <2>2, <2>3, Zenon DEF s4
<1>10. s4 \in Seq(Instructions) /\ Len(s4) = 101
  BY <1>9 DEF Follows
<1>11. Follows(s5, Instructions, s4, 101, c, 2)
  <2>1. s4 \in Seq(Instructions) /\ c \in Seq(Instructions)
    BY <1>3, <1>10
  <2>2. Follows(s4 \o c, Instructions, s4, Len(s4), c, Len(c))
    BY <2>1, JoinAll, Zenon
  <2>3. Len(s4) = 101 /\ Len(c) = 2
    BY <1>3, <1>10
  <2> QED BY <2>2, <2>3, Zenon DEF s5
<1>12. s5 \in Seq(Instructions) /\ Len(s5) = 103
  BY <1>11 DEF Follows
<1>13. Follows(s6, Instructions, s5, 103, k, 5)
  <2>1. s5 \in Seq(Instructions) /\ k \in Seq(Instructions)
    BY <1>2, <1>12
  <2>2. Follows(s5 \o k, Instructions, s5, Len(s5), k, Len(k))
    BY <2>1, JoinAll, Zenon
  <2>3. Len(s5) = 103 /\ Len(k) = 5
    BY <1>2, <1>12
  <2> QED BY <2>2, <2>3, Zenon DEF s6
<1>14. s6 \in Seq(Instructions) /\ Len(s6) = 108
  BY <1>13 DEF Follows
<1>15. Follows(q, Instructions, s6, 108, z, 1)
  <2>1. s6 \in Seq(Instructions) /\ z \in Seq(Instructions)
    BY <1>2, <1>14
  <2>2. Follows(s6 \o z, Instructions, s6, Len(s6), z, Len(z))
    BY <2>1, JoinAll, Zenon
  <2>3. Len(s6) = 108 /\ Len(z) = 1
    BY <1>2, <1>14
  <2> QED BY <2>2, <2>3, <1>4, Zenon
<1>16. q \in Seq(Instructions) /\ Len(q) = 109 /\ q[109] = z[1] /\ \A m \in 1 .. 108 : q[m] = s6[m]
  BY <1>15 DEF Follows
<1>17. /\ \A m \in 1 .. 5 : q[m + 103] = k[m]
       /\ \A m \in 1 .. 103 : q[m] = s5[m]
  <2>1. /\ \A m \in 104 .. 108 : s6[m] = k[m - 103]
        /\ \A m \in 1 .. 103 : s6[m] = s5[m]
    BY <1>13 DEF Follows
  <2>2. \A m \in 1 .. 5 : m + 103 \in 104 .. 108 /\ m + 103 \in 1 .. 108 /\ (m + 103) - 103 = m
    OBVIOUS
  <2>3. \A m \in 1 .. 103 : m \in 1 .. 108
    OBVIOUS
  <2>4. \A m \in 1 .. 108 : q[m] = s6[m]
    BY <1>16
  <2> QED BY <2>1, <2>2, <2>3, <2>4
<1>18. /\ \A m \in 1 .. 2 : q[m + 101] = c[m]
       /\ \A m \in 1 .. 101 : q[m] = s4[m]
  <2>1. /\ \A m \in 102 .. 103 : s5[m] = c[m - 101]
        /\ \A m \in 1 .. 101 : s5[m] = s4[m]
    BY <1>11 DEF Follows
  <2>2. \A m \in 1 .. 2 : m + 101 \in 102 .. 103 /\ m + 101 \in 1 .. 103 /\ (m + 101) - 101 = m
    OBVIOUS
  <2>3. \A m \in 1 .. 101 : m \in 1 .. 103
    OBVIOUS
  <2> QED BY <1>17, <2>1, <2>2, <2>3
<1>19. /\ \A m \in 1 .. 5 : q[m + 96] = p[m]
       /\ \A m \in 1 .. 96 : q[m] = s3[m]
  <2>1. /\ \A m \in 97 .. 101 : s4[m] = p[m - 96]
        /\ \A m \in 1 .. 96 : s4[m] = s3[m]
    BY <1>9 DEF Follows
  <2>2. \A m \in 1 .. 5 : m + 96 \in 97 .. 101 /\ m + 96 \in 1 .. 101 /\ (m + 96) - 96 = m
    OBVIOUS
  <2>3. \A m \in 1 .. 96 : m \in 1 .. 101
    OBVIOUS
  <2> QED BY <1>18, <2>1, <2>2, <2>3
<1>20. /\ \A m \in 1 .. 10 : q[m + 86] = i[m]
       /\ \A m \in 1 .. 86 : q[m] = s2[m]
  <2>1. /\ \A m \in 87 .. 96 : s3[m] = i[m - 86]
        /\ \A m \in 1 .. 86 : s3[m] = s2[m]
    BY <1>7 DEF Follows
  <2>2. \A m \in 1 .. 10 : m + 86 \in 87 .. 96 /\ m + 86 \in 1 .. 96 /\ (m + 86) - 86 = m
    OBVIOUS
  <2>3. \A m \in 1 .. 86 : m \in 1 .. 96
    OBVIOUS
  <2> QED BY <1>19, <2>1, <2>2, <2>3
<1>21. /\ \A m \in 1 .. 80 : q[m + 6] = f[m]
       /\ \A m \in 1 .. 6 : q[m] = h[m]
  <2>1. /\ \A m \in 7 .. 86 : s2[m] = f[m - 6]
        /\ \A m \in 1 .. 6 : s2[m] = h[m]
    BY <1>5 DEF Follows
  <2>2. \A m \in 1 .. 80 : m + 6 \in 7 .. 86 /\ m + 6 \in 1 .. 86 /\ (m + 6) - 6 = m
    OBVIOUS
  <2>3. \A m \in 1 .. 6 : m \in 1 .. 86
    OBVIOUS
  <2> QED BY <1>20, <2>1, <2>2, <2>3
<1>22. q[1] = h[1] /\ q[2] = h[2] /\ q[3] = h[3] /\ q[4] = h[4] /\ q[5] = h[5] /\ q[6] = h[6]
  BY <1>21
<1>23. ASSUME NEW n \in 1 .. 40
       PROVE  /\ q[2 * n + 5] = Jump("jeq", DeniedSyscalls[n], 0, 1)
              /\ q[2 * n + 6] = Deny("EPERM")
  <2>1. /\ 2 * n - 1 \in 1 .. 80 /\ (2 * n - 1) + 6 = 2 * n + 5 /\ 2 * n \in 1 .. 80
    OBVIOUS
  <2>2. q[2 * n + 5] = f[2 * n - 1] /\ q[2 * n + 6] = f[2 * n]
    BY <1>21, <2>1
  <2> QED BY <2>2, DeniedAt DEF f
<1>24. q[87] = i[1] /\ q[88] = i[2] /\ q[89] = i[3] /\ q[96] = i[10]
  BY <1>20
<1>25. ASSUME NEW n \in 1 .. 3
       PROVE  /\ q[2 * n + 88] = Jump("jeq", PreallocationIoctls[n], 0, 1)
              /\ q[2 * n + 89] = Deny("EPERM")
  <2>1. /\ 2 * n + 2 \in 1 .. 10 /\ (2 * n + 2) + 86 = 2 * n + 88
        /\ 2 * n + 3 \in 1 .. 10 /\ (2 * n + 3) + 86 = 2 * n + 89
    OBVIOUS
  <2>2. q[2 * n + 88] = i[2 * n + 2] /\ q[2 * n + 89] = i[2 * n + 3]
    BY <1>20, <2>1
  <2> QED BY <2>2, IoctlAt DEF i
<1>26. q[97] = p[1] /\ q[98] = p[2] /\ q[99] = p[3] /\ q[100] = p[4] /\ q[101] = p[5]
  BY <1>19
<1>27. q[102] = c[1] /\ q[103] = c[2]
  BY <1>18
<1>28. q[104] = k[1] /\ q[105] = k[2] /\ q[106] = k[3] /\ q[107] = k[4] /\ q[108] = k[5]
  BY <1>17
<1>29. /\ q[1] = Statement("ld", "arch") /\ q[2] = Jump("jeq", AuditArch, 1, 0)
       /\ q[3] = Deny("kill") /\ q[4] = Statement("ld", "nr") /\ q[5] = Jump("jge", X32, 0, 1)
       /\ q[6] = Deny("kill") /\ q[109] = Deny("allow")
  BY <1>16, <1>22, EndsAt, Zenon DEF h, z
<1>30. /\ q[87] = Jump("jeq", Ioctl, 0, 9) /\ q[88] = Statement("ld", "arg1")
       /\ q[89] = Statement("and", CommandBits) /\ q[96] = Statement("ld", "nr")
  BY <1>24, IoctlAt, Zenon DEF i
<1>31. /\ q[97] = Jump("jeq", Prctl, 0, 4) /\ q[98] = Statement("ld", "arg0")
       /\ q[99] = Jump("jeq", SetPdeathsig, 0, 1) /\ q[100] = Deny("EPERM")
       /\ q[101] = Statement("ld", "nr")
  BY <1>26, PrctlAt, Zenon DEF p
<1>32. /\ q[104] = Jump("jeq", Clone, 0, 4) /\ q[105] = Statement("ld", "arg0")
       /\ q[106] = Jump("jset", NamespaceFlags, 0, 1) /\ q[107] = Deny("EPERM")
       /\ q[108] = Statement("ld", "nr")
  BY <1>28, CloneAt, Zenon DEF k
<1> QED BY <1>3, <1>16, <1>23, <1>25, <1>27, <1>29, <1>30, <1>31, <1>32, Zenon DEF q

Points == (DOMAIN BaselineFilter) \X SUBSET (0 .. 31)
AnyCall == [arch : Words, nr : Words, arg0 : Words, arg1 : Words]

\* One instruction of Verdict's run, with the rest of the run in f.
Runs(f, call, at) ==
    LET pc == at[1]
        acc == at[2]
        i == BaselineFilter[pc]
    IN  CASE i.code = "ret" -> i.k
          [] i.code = "ld"  -> f[<<pc + 1, call[i.k]>>]
          [] i.code = "and" -> f[<<pc + 1, acc \cap i.k>>]
          [] OTHER -> f[<<pc + 1 + (IF Taken(i, acc) THEN i.jt ELSE i.jf), acc>>]

Answers(call) == CHOOSE f : f = [at \in Points |-> Runs(f, call, at)]

LEMMA VerdictIs == \A call : Verdict(call) = Answers(call)[<<1, {}>>]
BY DEF Verdict, Answers, Runs, Points

\* What an instruction of the program can be.
Shape(pc, i) ==
    \/ i.code = "ret"
    \/ i.code = "ld" /\ i.k \in Loads /\ pc + 1 <= 109
    \/ i.code = "and" /\ i.k \in Words /\ pc + 1 <= 109
    \/ i.code \notin {"ret", "ld", "and"} /\ pc + 1 + i.jt <= 109 /\ pc + 1 + i.jf <= 109

LEMMA Shapes == \A pc \in 1 .. 109 : Shape(pc, BaselineFilter[pc])
<1> DEFINE q == BaselineFilter
<1>1. /\ Shape(1, q[1]) /\ Shape(2, q[2]) /\ Shape(3, q[3]) /\ Shape(4, q[4]) /\ Shape(5, q[5])
      /\ Shape(6, q[6])
  <2>1. q[1] = Statement("ld", "arch") /\ q[2] = Jump("jeq", AuditArch, 1, 0)
        /\ q[3] = Deny("kill") /\ q[4] = Statement("ld", "nr") /\ q[5] = Jump("jge", X32, 0, 1)
        /\ q[6] = Deny("kill")
    BY ProgramAt, Zenon
  <2> HIDE DEF q
  <2> QED BY <2>1, Symbols DEF Shape, Deny, Statement, Jump
<1>2. ASSUME NEW n \in 1 .. 40
      PROVE  Shape(2 * n + 5, q[2 * n + 5]) /\ Shape(2 * n + 6, q[2 * n + 6])
  <2>1. q[2 * n + 5] = Jump("jeq", DeniedSyscalls[n], 0, 1) /\ q[2 * n + 6] = Deny("EPERM")
    BY ProgramAt, Zenon
  <2> HIDE DEF q
  <2>2. 2 * n + 5 \in 1 .. 108 /\ 2 * n + 5 + 1 + 0 <= 109 /\ 2 * n + 5 + 1 + 1 <= 109
    OBVIOUS
  <2> QED BY <2>1, <2>2 DEF Shape, Deny, Statement, Jump
<1>3. Shape(87, q[87]) /\ Shape(88, q[88]) /\ Shape(89, q[89]) /\ Shape(96, q[96])
  <2>1. q[87] = Jump("jeq", Ioctl, 0, 9) /\ q[88] = Statement("ld", "arg1")
        /\ q[89] = Statement("and", CommandBits) /\ q[96] = Statement("ld", "nr")
    BY ProgramAt, Zenon
  <2> HIDE DEF q
  <2> QED BY <2>1, Symbols, WordTypes DEF Shape, Deny, Statement, Jump
<1>4. ASSUME NEW n \in 1 .. 3
      PROVE  Shape(2 * n + 88, q[2 * n + 88]) /\ Shape(2 * n + 89, q[2 * n + 89])
  <2>1. q[2 * n + 88] = Jump("jeq", PreallocationIoctls[n], 0, 1) /\ q[2 * n + 89] = Deny("EPERM")
    BY ProgramAt, Zenon
  <2> HIDE DEF q
  <2>2. 2 * n + 88 \in 1 .. 108 /\ 2 * n + 88 + 1 + 0 <= 109 /\ 2 * n + 88 + 1 + 1 <= 109
    OBVIOUS
  <2> QED BY <2>1, <2>2 DEF Shape, Deny, Statement, Jump
<1>5. /\ Shape(97, q[97]) /\ Shape(98, q[98]) /\ Shape(99, q[99]) /\ Shape(100, q[100])
      /\ Shape(101, q[101]) /\ Shape(102, q[102]) /\ Shape(103, q[103])
  <2>1. /\ q[97] = Jump("jeq", Prctl, 0, 4) /\ q[98] = Statement("ld", "arg0")
        /\ q[99] = Jump("jeq", SetPdeathsig, 0, 1) /\ q[100] = Deny("EPERM")
        /\ q[101] = Statement("ld", "nr")
        /\ q[102] = Jump("jeq", Clone3, 0, 1) /\ q[103] = Deny("ENOSYS")
    BY ProgramAt, Zenon
  <2> HIDE DEF q
  <2> QED BY <2>1, Symbols DEF Shape, Deny, Statement, Jump
<1>6. /\ Shape(104, q[104]) /\ Shape(105, q[105]) /\ Shape(106, q[106]) /\ Shape(107, q[107])
      /\ Shape(108, q[108]) /\ Shape(109, q[109])
  <2>1. /\ q[104] = Jump("jeq", Clone, 0, 4) /\ q[105] = Statement("ld", "arg0")
        /\ q[106] = Jump("jset", NamespaceFlags, 0, 1) /\ q[107] = Deny("EPERM")
        /\ q[108] = Statement("ld", "nr") /\ q[109] = Deny("allow")
    BY ProgramAt, Zenon
  <2> HIDE DEF q
  <2> QED BY <2>1, Symbols DEF Shape, Deny, Statement, Jump
<1> SUFFICES ASSUME NEW pc \in 1 .. 109 PROVE Shape(pc, q[pc])
  OBVIOUS
<1> HIDE DEF q
<1>7. CASE pc \in 1 .. 6
  BY <1>1, <1>7
<1>8. CASE pc \in 7 .. 86
  <2>1. PICK n \in 1 .. 40 : pc = 2 * n + 5 \/ pc = 2 * n + 6
    <3>1. /\ (pc - 5) \div 2 \in 1 .. 40
          /\ (pc = 2 * ((pc - 5) \div 2) + 5 \/ pc = 2 * ((pc - 5) \div 2) + 6)
      BY <1>8
    <3> QED BY <3>1
  <2> QED BY <1>2, <2>1
<1>9. CASE pc \in 90 .. 95
  <2>1. PICK n \in 1 .. 3 : pc = 2 * n + 88 \/ pc = 2 * n + 89
    <3>1. /\ (pc - 88) \div 2 \in 1 .. 3
          /\ (pc = 2 * ((pc - 88) \div 2) + 88 \/ pc = 2 * ((pc - 88) \div 2) + 89)
      BY <1>9
    <3> QED BY <3>1
  <2> QED BY <1>4, <2>1
<1>10. CASE pc \in 87 .. 89 \/ pc = 96
  BY <1>3, <1>10
<1>11. CASE pc \in 97 .. 103
  BY <1>5, <1>11
<1>12. CASE pc \in 104 .. 109
  BY <1>6, <1>12
<1> QED BY <1>7, <1>8, <1>9, <1>10, <1>11, <1>12

LEMMA ElementsIn ==
    \A S : \A q \in Seq(S) : DOMAIN q = 1 .. Len(q) /\ \A n \in 1 .. Len(q) : q[n] \in S
OBVIOUS

LEMMA ProgramDomain ==
    DOMAIN BaselineFilter = 1 .. 109 /\ \A n \in 1 .. 109 : BaselineFilter[n] \in Instructions
<1> DEFINE q == BaselineFilter
<1>1. q \in Seq(Instructions) /\ Len(q) = 109
  BY ProgramAt, Zenon
<1> HIDE DEF q
<1>2. DOMAIN q = 1 .. 109 /\ \A n \in 1 .. 109 : q[n] \in Instructions
  <2>1. q \in Seq(Instructions)
    BY <1>1
  <2>2. DOMAIN q = 1 .. Len(q) /\ \A n \in 1 .. Len(q) : q[n] \in Instructions
    BY <2>1, ElementsIn
  <2> QED BY <1>1, <2>2
<1> QED BY <1>2 DEF q

\* The program runs forward: the rest of the run is read further on only.
LEMMA Forward ==
    ASSUME NEW call \in AnyCall, NEW at \in Points, NEW f, NEW g,
           \A next \in Points : next[1] > at[1] => f[next] = g[next]
    PROVE  Runs(f, call, at) = Runs(g, call, at)
<1> DEFINE pc == at[1]
           acc == at[2]
           i == BaselineFilter[pc]
<1>1. i \in Instructions /\ pc \in 1 .. 109 /\ acc \in Words
  <2>1. pc \in 1 .. 109 /\ acc \in Words
    BY ProgramDomain DEF Points, Words
  <2> HIDE DEF pc, acc
  <2> QED BY <2>1, ProgramDomain, Zenon
<1>2. Shape(pc, i)
  BY <1>1, Shapes
<1>3. \A n \in 1 .. 109, w \in Words : n > pc => f[<<n, w>>] = g[<<n, w>>]
  <2>1. ASSUME NEW n \in 1 .. 109, NEW w \in Words, n > pc PROVE f[<<n, w>>] = g[<<n, w>>]
    <3>1. <<n, w>> \in Points
      BY ProgramDomain DEF Points, Words
    <3>2. <<n, w>>[1] > at[1]
      BY <2>1
    <3> QED BY <3>1, <3>2
  <2> QED BY <2>1
<1>4. i.jt \in Nat /\ i.jf \in Nat
  BY <1>1 DEF Instructions
<1>5. \A k \in Loads : call[k] \in Words
  BY DEF AnyCall, Loads
<1> DEFINE R(h) == CASE i.code = "ret" -> i.k
                     [] i.code = "ld"  -> h[<<pc + 1, call[i.k]>>]
                     [] i.code = "and" -> h[<<pc + 1, acc \cap i.k>>]
                     [] OTHER -> h[<<pc + 1 + (IF Taken(i, acc) THEN i.jt ELSE i.jf), acc>>]
<1>6. Runs(f, call, at) = R(f) /\ Runs(g, call, at) = R(g)
  BY DEF Runs
<1> HIDE DEF i, pc, acc
<1>7. CASE i.code = "ret"
  BY <1>6, <1>7
<1>8. CASE i.code = "ld"
  <2>1. i.k \in Loads /\ pc + 1 \in 1 .. 109 /\ pc + 1 > pc
    BY <1>1, <1>2, <1>8 DEF Shape
  <2>2. f[<<pc + 1, call[i.k]>>] = g[<<pc + 1, call[i.k]>>]
    BY <1>3, <1>5, <2>1
  <2> QED BY <1>6, <1>8, <2>2
<1>9. CASE i.code = "and"
  <2>1. pc + 1 \in 1 .. 109 /\ pc + 1 > pc /\ acc \cap i.k \in Words
    BY <1>1, <1>2, <1>9 DEF Shape, Words
  <2>2. f[<<pc + 1, acc \cap i.k>>] = g[<<pc + 1, acc \cap i.k>>]
    BY <1>3, <2>1
  <2> QED BY <1>6, <1>9, <2>2
<1>10. CASE i.code \notin {"ret", "ld", "and"}
  <2> DEFINE to == pc + 1 + (IF Taken(i, acc) THEN i.jt ELSE i.jf)
  <2>1. to \in 1 .. 109 /\ to > pc
    <3>1. pc + 1 + i.jt <= 109 /\ pc + 1 + i.jf <= 109
      BY <1>2, <1>10 DEF Shape
    <3>2. pc + 1 + i.jt \in 1 .. 109 /\ pc + 1 + i.jf \in 1 .. 109
          /\ pc + 1 + i.jt > pc /\ pc + 1 + i.jf > pc
      BY SMTT(30), <1>1, <1>4, <3>1
    <3>3. to = pc + 1 + i.jt \/ to = pc + 1 + i.jf
      OBVIOUS
    <3> QED BY <3>2, <3>3
  <2> HIDE DEF to
  <2>2. f[<<to, acc>>] = g[<<to, acc>>]
    BY <1>1, <1>3, <2>1
  <2>3. R(f) = f[<<to, acc>>] /\ R(g) = g[<<to, acc>>]
    BY <1>10 DEF to
  <2> QED BY <1>6, <2>2, <2>3
<1> QED BY <1>7, <1>8, <1>9, <1>10

\* Good(f, m): f answers for the last m instructions.
Good(f, call, m) == \A at \in Points : at[1] + m >= 110 => f[at] = Runs(f, call, at)

LEMMA Answering ==
    ASSUME NEW call \in AnyCall
    PROVE  Answers(call) = [at \in Points |-> Runs(Answers(call), call, at)]
<1> DEFINE P == {m \in Nat : \E f : DOMAIN f = Points /\ f = [at \in Points |-> f[at]]
                                    /\ Good(f, call, m)}
<1>0. \A at \in Points : at[1] \in 1 .. 109
  BY ProgramDomain DEF Points
<1>1. 0 \in P
  <2> DEFINE f == [at \in Points |-> 0]
  <2>1. Good(f, call, 0)
    BY <1>0 DEF Good
  <2>2. DOMAIN f = Points /\ f = [at \in Points |-> f[at]]
    OBVIOUS
  <2> QED BY <2>1, <2>2
<1>2. ASSUME NEW m \in Nat, m \in P PROVE m + 1 \in P
  <2>1. PICK f : DOMAIN f = Points /\ f = [at \in Points |-> f[at]] /\ Good(f, call, m)
    BY <1>2
  <2> DEFINE g == [at \in Points |-> IF at[1] + m >= 110 THEN f[at] ELSE Runs(f, call, at)]
  <2>2. ASSUME NEW at \in Points, at[1] + (m + 1) >= 110 PROVE g[at] = Runs(g, call, at)
    <3>1. g[at] = Runs(f, call, at)
      BY <2>1 DEF Good
    <3>2. \A next \in Points : next[1] > at[1] => f[next] = g[next]
      <4>1. ASSUME NEW next \in Points, next[1] > at[1] PROVE next[1] + m >= 110
        <5>1. PICK a \in 1 .. 109, n \in 1 .. 109 : a = at[1] /\ n = next[1]
          BY <1>0
        <5>2. n > a /\ a + (m + 1) >= 110
          BY <2>2, <4>1, <5>1
        <5>3. n + m >= 110
          BY <5>2
        <5> QED BY <5>1, <5>3
      <4> QED BY <4>1
    <3> HIDE DEF g
    <3>3. Runs(f, call, at) = Runs(g, call, at)
      BY <3>2, Forward
    <3> QED BY <3>1, <3>3
  <2>3. DOMAIN g = Points /\ g = [at \in Points |-> g[at]]
    OBVIOUS
  <2> HIDE DEF g
  <2>4. Good(g, call, m + 1)
    BY <2>2 DEF Good
  <2> QED BY <2>3, <2>4
<1>3. 109 \in P
  <2> HIDE DEF P
  <2> QED BY <1>1, <1>2, NatInduct
<1>4. PICK f : DOMAIN f = Points /\ f = [at \in Points |-> f[at]] /\ Good(f, call, 109)
  BY <1>3
<1>5. \A at \in Points : f[at] = Runs(f, call, at)
  BY <1>0, <1>4 DEF Good
<1>6. f = [at \in Points |-> Runs(f, call, at)]
  BY <1>4, <1>5
<1>7. \E h : h = [at \in Points |-> Runs(h, call, at)]
  BY <1>6
<1> QED BY <1>7 DEF Answers

\* The answer of a run that is at pc with w loaded.
Answer(call, pc, w) == Answers(call)[<<pc, w>>]

\* The run, one instruction at a time.
LEMMA Execution ==
    ASSUME NEW call \in AnyCall, NEW pc \in 1 .. 109, NEW w \in Words
    PROVE  LET i == BaselineFilter[pc] IN
           Answer(call, pc, w) =
              CASE i.code = "ret" -> i.k
                [] i.code = "ld"  -> Answer(call, pc + 1, call[i.k])
                [] i.code = "and" -> Answer(call, pc + 1, w \cap i.k)
                [] OTHER -> Answer(call, pc + 1 + (IF Taken(i, w) THEN i.jt ELSE i.jf), w)
<1> DEFINE run == Answers(call)
<1>1. \A at \in Points : run[at] = Runs(run, call, at)
  <2>1. run = [at \in Points |-> Runs(run, call, at)]
    BY Answering
  <2> HIDE DEF run
  <2> QED BY <2>1
<1>2. <<pc, w>> \in Points
  BY ProgramDomain DEF Points, Words
<1>3. run[<<pc, w>>] = Runs(run, call, <<pc, w>>)
  BY <1>1, <1>2
<1> HIDE DEF run
<1> QED BY <1>3 DEF Runs, Answer, run

LEMMA Returns ==
    ASSUME NEW call \in AnyCall, NEW pc \in 1 .. 109, NEW w \in Words, NEW v,
           BaselineFilter[pc] = Deny(v)
    PROVE  Answer(call, pc, w) = v
<1> DEFINE i == BaselineFilter[pc]
           Executed == Answer(call, pc, w) =
              CASE i.code = "ret" -> i.k
                [] i.code = "ld"  -> Answer(call, pc + 1, call[i.k])
                [] i.code = "and" -> Answer(call, pc + 1, w \cap i.k)
                [] OTHER -> Answer(call, pc + 1 + (IF Taken(i, w) THEN i.jt ELSE i.jf), w)
<1>1. Executed
  BY Execution
<1>2. i = Deny(v)
  OBVIOUS
<1> HIDE DEF i
<1> QED BY <1>1, <1>2 DEF Deny, Statement, Jump

LEMMA LoadsNext ==
    ASSUME NEW call \in AnyCall, NEW pc \in 1 .. 109, NEW w \in Words, NEW k, NEW to,
           BaselineFilter[pc] = Statement("ld", k), to = pc + 1
    PROVE  Answer(call, pc, w) = Answer(call, to, call[k])
<1> DEFINE i == BaselineFilter[pc]
           Executed == Answer(call, pc, w) =
              CASE i.code = "ret" -> i.k
                [] i.code = "ld"  -> Answer(call, pc + 1, call[i.k])
                [] i.code = "and" -> Answer(call, pc + 1, w \cap i.k)
                [] OTHER -> Answer(call, pc + 1 + (IF Taken(i, w) THEN i.jt ELSE i.jf), w)
<1>1. Executed
  BY Execution
<1>2. i = Statement("ld", k)
  OBVIOUS
<1> HIDE DEF i
<1> QED BY <1>1, <1>2 DEF Statement, Jump

LEMMA MasksNext ==
    ASSUME NEW call \in AnyCall, NEW pc \in 1 .. 109, NEW w \in Words, NEW k, NEW to,
           BaselineFilter[pc] = Statement("and", k), to = pc + 1
    PROVE  Answer(call, pc, w) = Answer(call, to, w \cap k)
<1> DEFINE i == BaselineFilter[pc]
           Executed == Answer(call, pc, w) =
              CASE i.code = "ret" -> i.k
                [] i.code = "ld"  -> Answer(call, pc + 1, call[i.k])
                [] i.code = "and" -> Answer(call, pc + 1, w \cap i.k)
                [] OTHER -> Answer(call, pc + 1 + (IF Taken(i, w) THEN i.jt ELSE i.jf), w)
<1>1. Executed
  BY Execution
<1>2. i = Statement("and", k)
  OBVIOUS
<1> HIDE DEF i
<1> QED BY <1>1, <1>2 DEF Statement, Jump

LEMMA JumpsEqual ==
    ASSUME NEW call \in AnyCall, NEW pc \in 1 .. 109, NEW w \in Words,
           NEW k, NEW jt, NEW jf, NEW to, NEW or,
           BaselineFilter[pc] = Jump("jeq", k, jt, jf), to = pc + 1 + jt, or = pc + 1 + jf
    PROVE  Answer(call, pc, w) = IF w = k THEN Answer(call, to, w) ELSE Answer(call, or, w)
<1> DEFINE i == BaselineFilter[pc]
           Executed == Answer(call, pc, w) =
              CASE i.code = "ret" -> i.k
                [] i.code = "ld"  -> Answer(call, pc + 1, call[i.k])
                [] i.code = "and" -> Answer(call, pc + 1, w \cap i.k)
                [] OTHER -> Answer(call, pc + 1 + (IF Taken(i, w) THEN i.jt ELSE i.jf), w)
<1>1. Executed
  BY Execution
<1>2. i = Jump("jeq", k, jt, jf)
  OBVIOUS
<1> HIDE DEF i
<1> QED BY <1>1, <1>2 DEF Jump, Taken

LEMMA JumpsSet ==
    ASSUME NEW call \in AnyCall, NEW pc \in 1 .. 109, NEW w \in Words,
           NEW k, NEW jt, NEW jf, NEW to, NEW or,
           BaselineFilter[pc] = Jump("jset", k, jt, jf), to = pc + 1 + jt, or = pc + 1 + jf
    PROVE  Answer(call, pc, w) = IF w \cap k # {} THEN Answer(call, to, w) ELSE Answer(call, or, w)
<1> DEFINE i == BaselineFilter[pc]
           Executed == Answer(call, pc, w) =
              CASE i.code = "ret" -> i.k
                [] i.code = "ld"  -> Answer(call, pc + 1, call[i.k])
                [] i.code = "and" -> Answer(call, pc + 1, w \cap i.k)
                [] OTHER -> Answer(call, pc + 1 + (IF Taken(i, w) THEN i.jt ELSE i.jf), w)
<1>1. Executed
  BY Execution
<1>2. i = Jump("jset", k, jt, jf)
  OBVIOUS
<1> HIDE DEF i
<1> QED BY <1>1, <1>2 DEF Jump, Taken

LEMMA JumpsGeq ==
    ASSUME NEW call \in AnyCall, NEW pc \in 1 .. 109, NEW w \in Words,
           NEW k, NEW jt, NEW jf, NEW to, NEW or,
           BaselineFilter[pc] = Jump("jge", k, jt, jf), to = pc + 1 + jt, or = pc + 1 + jf
    PROVE  Answer(call, pc, w) = IF Geq(w, k) THEN Answer(call, to, w) ELSE Answer(call, or, w)
<1> DEFINE i == BaselineFilter[pc]
           Executed == Answer(call, pc, w) =
              CASE i.code = "ret" -> i.k
                [] i.code = "ld"  -> Answer(call, pc + 1, call[i.k])
                [] i.code = "and" -> Answer(call, pc + 1, w \cap i.k)
                [] OTHER -> Answer(call, pc + 1 + (IF Taken(i, w) THEN i.jt ELSE i.jf), w)
<1>1. Executed
  BY Execution
<1>2. i = Jump("jge", k, jt, jf)
  OBVIOUS
<1> HIDE DEF i
<1> QED BY <1>1, <1>2 DEF Jump, Taken

\* The numbers of the policy that the program tells apart.
LEMMA Distinct == Clone # Clone3
<1>1. 3 \in 0 .. 30 /\ 2 ^ 3 = 8 /\ (56 \div 8) % 2 = 1 /\ (435 \div 8) % 2 # 1
  OBVIOUS
<1>2. 3 \in Clone /\ 3 \notin Clone3
  BY <1>1 DEF Clone, Clone3, Word
<1> QED BY <1>2

LEMMA DeniedSet ==
    /\ \A w : w \in ToSet(DeniedSyscalls) <=> \E n \in 1 .. 40 : DeniedSyscalls[n] = w
    /\ \A w : w \in ToSet(PreallocationIoctls) <=> \E n \in 1 .. 3 : PreallocationIoctls[n] = w
    /\ Fallocate \in ToSet(DeniedSyscalls)
<1>1. \A w : w \in ToSet(DeniedSyscalls) <=> \E n \in 1 .. 40 : DeniedSyscalls[n] = w
  BY Denied DEF ToSet
<1>2. \A w : w \in ToSet(PreallocationIoctls) <=> \E n \in 1 .. 3 : PreallocationIoctls[n] = w
  BY Commands
<1>3. 37 \in 1 .. 40 /\ DeniedSyscalls[37] = Fallocate
  BY Denied
<1> QED BY <1>1, <1>2, <1>3

\* The architecture and the x32 ABI.
LEMMA HeaderSteps ==
    ASSUME NEW call \in AnyCall, NEW w \in Words
    PROVE  /\ Answer(call, 1, w) = Answer(call, 2, call.arch)
           /\ Answer(call, 2, w) =
                IF w = AuditArch THEN Answer(call, 4, w) ELSE Answer(call, 3, w)
           /\ Answer(call, 3, w) = "kill"
           /\ Answer(call, 4, w) = Answer(call, 5, call.nr)
           /\ Answer(call, 5, w) = IF Geq(w, X32) THEN Answer(call, 6, w) ELSE Answer(call, 7, w)
           /\ Answer(call, 6, w) = "kill"
<1>1. Answer(call, 1, w) = Answer(call, 2, call.arch)
  <2>1. BaselineFilter[1] = Statement("ld", "arch")
    BY ProgramAt, Zenon
  <2>2. 1 \in 1 .. 109 /\ 2 = 1 + 1
    OBVIOUS
  <2> QED BY <2>1, <2>2, LoadsNext
<1>2. Answer(call, 2, w) = IF w = AuditArch THEN Answer(call, 4, w) ELSE Answer(call, 3, w)
  <2>1. BaselineFilter[2] = Jump("jeq", AuditArch, 1, 0)
    BY ProgramAt, Zenon
  <2>2. 2 \in 1 .. 109 /\ 4 = 2 + 1 + 1 /\ 3 = 2 + 1 + 0
    OBVIOUS
  <2> QED BY <2>1, <2>2, JumpsEqual
<1>3. Answer(call, 3, w) = "kill"
  <2>1. BaselineFilter[3] = Deny("kill")
    BY ProgramAt, Zenon
  <2>2. 3 \in 1 .. 109
    OBVIOUS
  <2> QED BY <2>1, <2>2, Returns
<1>4. Answer(call, 4, w) = Answer(call, 5, call.nr)
  <2>1. BaselineFilter[4] = Statement("ld", "nr")
    BY ProgramAt, Zenon
  <2>2. 4 \in 1 .. 109 /\ 5 = 4 + 1
    OBVIOUS
  <2> QED BY <2>1, <2>2, LoadsNext
<1>5. Answer(call, 5, w) = IF Geq(w, X32) THEN Answer(call, 6, w) ELSE Answer(call, 7, w)
  <2>1. BaselineFilter[5] = Jump("jge", X32, 0, 1)
    BY ProgramAt, Zenon
  <2>2. 5 \in 1 .. 109 /\ 6 = 5 + 1 + 0 /\ 7 = 5 + 1 + 1
    OBVIOUS
  <2> QED BY <2>1, <2>2, JumpsGeq
<1>6. Answer(call, 6, w) = "kill"
  <2>1. BaselineFilter[6] = Deny("kill")
    BY ProgramAt, Zenon
  <2>2. 6 \in 1 .. 109
    OBVIOUS
  <2> QED BY <2>1, <2>2, Returns
<1> QED BY <1>1, <1>2, <1>3, <1>4, <1>5, <1>6, Zenon

\* The blocks that refuse a number.
LEMMA DeniedSteps ==
    ASSUME NEW call \in AnyCall, NEW w \in Words, NEW n \in 1 .. 40
    PROVE  Answer(call, 2 * n + 5, w) =
              IF w = DeniedSyscalls[n] THEN "EPERM" ELSE Answer(call, 2 * n + 7, w)
<1> DEFINE p == 2 * n + 5
           t == 2 * n + 6
           e == 2 * n + 7
<1>1. BaselineFilter[p] = Jump("jeq", DeniedSyscalls[n], 0, 1) /\ BaselineFilter[t] = Deny("EPERM")
  BY ProgramAt, Zenon
<1>2. p \in 1 .. 109 /\ t \in 1 .. 109 /\ t = p + 1 + 0 /\ e = p + 1 + 1
  OBVIOUS
<1> HIDE DEF p, t, e
<1>3. Answer(call, t, w) = "EPERM"
  BY <1>1, <1>2, Returns
<1>4. Answer(call, p, w) =
        IF w = DeniedSyscalls[n] THEN Answer(call, t, w) ELSE Answer(call, e, w)
  BY <1>1, <1>2, JumpsEqual
<1> QED BY <1>3, <1>4 DEF p, e

\* The ioctl block, but for the commands.
LEMMA IoctlSteps ==
    ASSUME NEW call \in AnyCall, NEW w \in Words
    PROVE  /\ Answer(call, 87, w) = IF w = Ioctl THEN Answer(call, 88, w) ELSE Answer(call, 97, w)
           /\ Answer(call, 88, w) = Answer(call, 89, call.arg1)
           /\ Answer(call, 89, w) = Answer(call, 90, w \cap CommandBits)
           /\ Answer(call, 96, w) = Answer(call, 97, call.nr)
<1>1. Answer(call, 87, w) = IF w = Ioctl THEN Answer(call, 88, w) ELSE Answer(call, 97, w)
  <2>1. BaselineFilter[87] = Jump("jeq", Ioctl, 0, 9)
    BY ProgramAt, Zenon
  <2>2. 87 \in 1 .. 109 /\ 88 = 87 + 1 + 0 /\ 97 = 87 + 1 + 9
    OBVIOUS
  <2> QED BY <2>1, <2>2, JumpsEqual
<1>2. Answer(call, 88, w) = Answer(call, 89, call.arg1)
  <2>1. BaselineFilter[88] = Statement("ld", "arg1")
    BY ProgramAt, Zenon
  <2>2. 88 \in 1 .. 109 /\ 89 = 88 + 1
    OBVIOUS
  <2> QED BY <2>1, <2>2, LoadsNext
<1>3. Answer(call, 89, w) = Answer(call, 90, w \cap CommandBits)
  <2>1. BaselineFilter[89] = Statement("and", CommandBits)
    BY ProgramAt, Zenon
  <2>2. 89 \in 1 .. 109 /\ 90 = 89 + 1
    OBVIOUS
  <2> QED BY <2>1, <2>2, MasksNext
<1>4. Answer(call, 96, w) = Answer(call, 97, call.nr)
  <2>1. BaselineFilter[96] = Statement("ld", "nr")
    BY ProgramAt, Zenon
  <2>2. 96 \in 1 .. 109 /\ 97 = 96 + 1
    OBVIOUS
  <2> QED BY <2>1, <2>2, LoadsNext
<1> QED BY <1>1, <1>2, <1>3, <1>4, Zenon

\* The commands of the ioctl block.
LEMMA CommandSteps ==
    ASSUME NEW call \in AnyCall, NEW w \in Words, NEW n \in 1 .. 3
    PROVE  Answer(call, 2 * n + 88, w) =
              IF w = PreallocationIoctls[n] THEN "EPERM" ELSE Answer(call, 2 * n + 90, w)
<1> DEFINE p == 2 * n + 88
           t == 2 * n + 89
           e == 2 * n + 90
<1>1. /\ BaselineFilter[p] = Jump("jeq", PreallocationIoctls[n], 0, 1)
      /\ BaselineFilter[t] = Deny("EPERM")
  BY ProgramAt, Zenon
<1>2. p \in 1 .. 109 /\ t \in 1 .. 109 /\ t = p + 1 + 0 /\ e = p + 1 + 1
  OBVIOUS
<1> HIDE DEF p, t, e
<1>3. Answer(call, t, w) = "EPERM"
  BY <1>1, <1>2, Returns
<1>4. Answer(call, p, w) =
        IF w = PreallocationIoctls[n] THEN Answer(call, t, w) ELSE Answer(call, e, w)
  BY <1>1, <1>2, JumpsEqual
<1> QED BY <1>3, <1>4 DEF p, e

\* The prctl block.
LEMMA PrctlSteps ==
    ASSUME NEW call \in AnyCall, NEW w \in Words
    PROVE  /\ Answer(call, 97, w) =
                IF w = Prctl THEN Answer(call, 98, w) ELSE Answer(call, 102, w)
           /\ Answer(call, 98, w) = Answer(call, 99, call.arg0)
           /\ Answer(call, 99, w) =
                IF w = SetPdeathsig THEN Answer(call, 100, w) ELSE Answer(call, 101, w)
           /\ Answer(call, 100, w) = "EPERM"
           /\ Answer(call, 101, w) = Answer(call, 102, call.nr)
<1>1. Answer(call, 97, w) = IF w = Prctl THEN Answer(call, 98, w) ELSE Answer(call, 102, w)
  <2>1. BaselineFilter[97] = Jump("jeq", Prctl, 0, 4)
    BY ProgramAt, Zenon
  <2>2. 97 \in 1 .. 109 /\ 98 = 97 + 1 + 0 /\ 102 = 97 + 1 + 4
    OBVIOUS
  <2> QED BY <2>1, <2>2, JumpsEqual
<1>2. Answer(call, 98, w) = Answer(call, 99, call.arg0)
  <2>1. BaselineFilter[98] = Statement("ld", "arg0")
    BY ProgramAt, Zenon
  <2>2. 98 \in 1 .. 109 /\ 99 = 98 + 1
    OBVIOUS
  <2> QED BY <2>1, <2>2, LoadsNext
<1>3. Answer(call, 99, w) =
        IF w = SetPdeathsig THEN Answer(call, 100, w) ELSE Answer(call, 101, w)
  <2>1. BaselineFilter[99] = Jump("jeq", SetPdeathsig, 0, 1)
    BY ProgramAt, Zenon
  <2>2. 99 \in 1 .. 109 /\ 100 = 99 + 1 + 0 /\ 101 = 99 + 1 + 1
    OBVIOUS
  <2> QED BY <2>1, <2>2, JumpsEqual
<1>4. Answer(call, 100, w) = "EPERM"
  <2>1. BaselineFilter[100] = Deny("EPERM")
    BY ProgramAt, Zenon
  <2>2. 100 \in 1 .. 109
    OBVIOUS
  <2> QED BY <2>1, <2>2, Returns
<1>5. Answer(call, 101, w) = Answer(call, 102, call.nr)
  <2>1. BaselineFilter[101] = Statement("ld", "nr")
    BY ProgramAt, Zenon
  <2>2. 101 \in 1 .. 109 /\ 102 = 101 + 1
    OBVIOUS
  <2> QED BY <2>1, <2>2, LoadsNext
<1> QED BY <1>1, <1>2, <1>3, <1>4, <1>5, Zenon

\* The clone3 and clone blocks, and the end.
LEMMA CloneSteps ==
    ASSUME NEW call \in AnyCall, NEW w \in Words
    PROVE  /\ Answer(call, 102, w) =
                IF w = Clone3 THEN Answer(call, 103, w) ELSE Answer(call, 104, w)
           /\ Answer(call, 103, w) = "ENOSYS"
           /\ Answer(call, 104, w) =
                IF w = Clone THEN Answer(call, 105, w) ELSE Answer(call, 109, w)
           /\ Answer(call, 105, w) = Answer(call, 106, call.arg0)
           /\ Answer(call, 106, w) =
                IF w \cap NamespaceFlags # {} THEN Answer(call, 107, w) ELSE Answer(call, 108, w)
           /\ Answer(call, 107, w) = "EPERM"
           /\ Answer(call, 108, w) = Answer(call, 109, call.nr)
           /\ Answer(call, 109, w) = "allow"
<1>1. Answer(call, 102, w) = IF w = Clone3 THEN Answer(call, 103, w) ELSE Answer(call, 104, w)
  <2>1. BaselineFilter[102] = Jump("jeq", Clone3, 0, 1)
    BY ProgramAt, Zenon
  <2>2. 102 \in 1 .. 109 /\ 103 = 102 + 1 + 0 /\ 104 = 102 + 1 + 1
    OBVIOUS
  <2> QED BY <2>1, <2>2, JumpsEqual
<1>2. Answer(call, 103, w) = "ENOSYS"
  <2>1. BaselineFilter[103] = Deny("ENOSYS")
    BY ProgramAt, Zenon
  <2>2. 103 \in 1 .. 109
    OBVIOUS
  <2> QED BY <2>1, <2>2, Returns
<1>3. Answer(call, 104, w) = IF w = Clone THEN Answer(call, 105, w) ELSE Answer(call, 109, w)
  <2>1. BaselineFilter[104] = Jump("jeq", Clone, 0, 4)
    BY ProgramAt, Zenon
  <2>2. 104 \in 1 .. 109 /\ 105 = 104 + 1 + 0 /\ 109 = 104 + 1 + 4
    OBVIOUS
  <2> QED BY <2>1, <2>2, JumpsEqual
<1>4. Answer(call, 105, w) = Answer(call, 106, call.arg0)
  <2>1. BaselineFilter[105] = Statement("ld", "arg0")
    BY ProgramAt, Zenon
  <2>2. 105 \in 1 .. 109 /\ 106 = 105 + 1
    OBVIOUS
  <2> QED BY <2>1, <2>2, LoadsNext
<1>5. Answer(call, 106, w) =
        IF w \cap NamespaceFlags # {} THEN Answer(call, 107, w) ELSE Answer(call, 108, w)
  <2>1. BaselineFilter[106] = Jump("jset", NamespaceFlags, 0, 1)
    BY ProgramAt, Zenon
  <2>2. 106 \in 1 .. 109 /\ 107 = 106 + 1 + 0 /\ 108 = 106 + 1 + 1
    OBVIOUS
  <2> QED BY <2>1, <2>2, JumpsSet
<1>6. Answer(call, 107, w) = "EPERM"
  <2>1. BaselineFilter[107] = Deny("EPERM")
    BY ProgramAt, Zenon
  <2>2. 107 \in 1 .. 109
    OBVIOUS
  <2> QED BY <2>1, <2>2, Returns
<1>7. Answer(call, 108, w) = Answer(call, 109, call.nr)
  <2>1. BaselineFilter[108] = Statement("ld", "nr")
    BY ProgramAt, Zenon
  <2>2. 108 \in 1 .. 109 /\ 109 = 108 + 1
    OBVIOUS
  <2> QED BY <2>1, <2>2, LoadsNext
<1>8. Answer(call, 109, w) = "allow"
  <2>1. BaselineFilter[109] = Deny("allow")
    BY ProgramAt, Zenon
  <2>2. 109 \in 1 .. 109
    OBVIOUS
  <2> QED BY <2>1, <2>2, Returns
<1> QED BY <1>1, <1>2, <1>3, <1>4, <1>5, <1>6, <1>7, <1>8, Zenon

LEMMA MaskedWords == \A w \in Words : \A k : w \cap k \in Words
BY DEF Words

\* The number of a call passes the blocks that refuse one, from the last to the first.
LEMMA DeniedRun ==
    ASSUME NEW call \in AnyCall, NEW w \in Words
    PROVE  Answer(call, 7, w) =
              IF w \in ToSet(DeniedSyscalls) THEN "EPERM" ELSE Answer(call, 87, w)
<1> DEFINE Refused(n) == \E m \in n .. 40 : DeniedSyscalls[m] = w
           P == {k \in Nat : k \in 0 .. 40 =>
                   Answer(call, 2 * (41 - k) + 5, w) =
                      IF Refused(41 - k) THEN "EPERM" ELSE Answer(call, 87, w)}
<1>1. 0 \in P
  <2>1. 2 * (41 - 0) + 5 = 87 /\ ~Refused(41 - 0)
    OBVIOUS
  <2> QED BY <2>1
<1>2. ASSUME NEW k \in Nat, k \in P PROVE k + 1 \in P
  <2>1. SUFFICES ASSUME k + 1 \in 0 .. 40
        PROVE  Answer(call, 2 * (41 - (k + 1)) + 5, w) =
                  IF Refused(41 - (k + 1)) THEN "EPERM" ELSE Answer(call, 87, w)
    OBVIOUS
  <2> DEFINE n == 40 - k
  <2>2. n \in 1 .. 40 /\ 41 - (k + 1) = n /\ 41 - k = n + 1 /\ 2 * (n + 1) + 5 = 2 * n + 7
        /\ k \in 0 .. 40
    BY <2>1
  <2>3. Answer(call, 2 * n + 7, w) = IF Refused(n + 1) THEN "EPERM" ELSE Answer(call, 87, w)
    <3> HIDE DEF Refused, n
    <3>1. Answer(call, 2 * (41 - k) + 5, w) =
             IF Refused(41 - k) THEN "EPERM" ELSE Answer(call, 87, w)
      BY <1>2, <2>2
    <3> QED BY <2>2, <3>1
  <2> HIDE DEF n
  <2>4. Refused(n) <=> DeniedSyscalls[n] = w \/ Refused(n + 1)
    <3>1. \A m : m \in n .. 40 <=> m = n \/ m \in n + 1 .. 40
      BY <2>2
    <3> QED BY <3>1
  <2> HIDE DEF Refused
  <2>5. Answer(call, 2 * n + 5, w) =
           IF w = DeniedSyscalls[n] THEN "EPERM" ELSE Answer(call, 2 * n + 7, w)
    BY <2>2, DeniedSteps
  <2>6. Answer(call, 2 * n + 5, w) = IF Refused(n) THEN "EPERM" ELSE Answer(call, 87, w)
    BY <2>3, <2>4, <2>5
  <2> QED BY <2>2, <2>6
<1> HIDE DEF P
<1>3. Nat \subseteq P
  BY <1>1, <1>2, NatInduct
<1>4. 40 \in P
  BY <1>3
<1>5. Answer(call, 2 * (41 - 40) + 5, w) =
         IF Refused(41 - 40) THEN "EPERM" ELSE Answer(call, 87, w)
  <2> HIDE DEF Refused
  <2> QED BY <1>4 DEF P
<1>6. Refused(1) <=> w \in ToSet(DeniedSyscalls)
  BY DeniedSet
<1> HIDE DEF Refused
<1>7. 2 * (41 - 40) + 5 = 7 /\ 41 - 40 = 1
  OBVIOUS
<1> QED BY <1>5, <1>6, <1>7

LEMMA IoctlRun ==
    ASSUME NEW call \in AnyCall
    PROVE  Answer(call, 87, call.nr) =
              IF call.nr = Ioctl /\ call.arg1 \cap CommandBits \in ToSet(PreallocationIoctls)
              THEN "EPERM" ELSE Answer(call, 97, call.nr)
<1> DEFINE w == call.nr
           a == call.arg1
           c == call.arg1 \cap CommandBits
<1>1. w \in Words /\ a \in Words /\ c \in Words
  BY MaskedWords DEF AnyCall
<1>2. c \in ToSet(PreallocationIoctls) <=> \E n \in 1 .. 3 : PreallocationIoctls[n] = c
  BY DeniedSet
<1>3. Answer(call, 87, w) = IF w = Ioctl THEN Answer(call, 88, w) ELSE Answer(call, 97, w)
  BY <1>1, IoctlSteps, ZenonT(40)
<1>4. Answer(call, 88, w) = Answer(call, 89, a)
  BY <1>1, IoctlSteps, ZenonT(40)
<1>5. Answer(call, 89, a) = Answer(call, 90, c)
  BY <1>1, IoctlSteps, ZenonT(40)
<1>6. Answer(call, 96, c) = Answer(call, 97, w)
  BY <1>1, IoctlSteps, ZenonT(40)
<1> HIDE DEF w, a, c
<1>7. \A n \in 1 .. 3 : Answer(call, 2 * n + 88, c) =
         IF c = PreallocationIoctls[n] THEN "EPERM" ELSE Answer(call, 2 * n + 90, c)
  BY <1>1, CommandSteps
<1>8. /\ Answer(call, 90, c) =
            IF c = PreallocationIoctls[1] THEN "EPERM" ELSE Answer(call, 92, c)
      /\ Answer(call, 92, c) =
            IF c = PreallocationIoctls[2] THEN "EPERM" ELSE Answer(call, 94, c)
      /\ Answer(call, 94, c) =
            IF c = PreallocationIoctls[3] THEN "EPERM" ELSE Answer(call, 96, c)
  <2>1. /\ 1 \in 1 .. 3 /\ 2 \in 1 .. 3 /\ 3 \in 1 .. 3
        /\ 2 * 1 + 88 = 90 /\ 2 * 1 + 90 = 92 /\ 2 * 2 + 88 = 92 /\ 2 * 2 + 90 = 94
        /\ 2 * 3 + 88 = 94 /\ 2 * 3 + 90 = 96
    OBVIOUS
  <2> QED BY <1>7, <2>1
<1>9. Answer(call, 90, c) =
         IF \E n \in 1 .. 3 : PreallocationIoctls[n] = c THEN "EPERM" ELSE Answer(call, 96, c)
  <2>1. (\E n \in 1 .. 3 : PreallocationIoctls[n] = c)
        <=> PreallocationIoctls[1] = c \/ PreallocationIoctls[2] = c \/ PreallocationIoctls[3] = c
    OBVIOUS
  <2> QED BY <1>8, <2>1
<1>10. Answer(call, 87, w) =
          IF w = Ioctl /\ c \in ToSet(PreallocationIoctls) THEN "EPERM" ELSE Answer(call, 97, w)
  BY <1>2, <1>3, <1>4, <1>5, <1>6, <1>9
<1> QED BY <1>10 DEF w, c

LEMMA PrctlRun ==
    ASSUME NEW call \in AnyCall
    PROVE  Answer(call, 97, call.nr) =
              IF call.nr = Prctl /\ call.arg0 = SetPdeathsig
              THEN "EPERM" ELSE Answer(call, 102, call.nr)
<1> DEFINE w == call.nr
           a == call.arg0
<1>1. w \in Words /\ a \in Words
  BY DEF AnyCall
<1>2. Answer(call, 97, w) = IF w = Prctl THEN Answer(call, 98, w) ELSE Answer(call, 102, w)
  BY <1>1, PrctlSteps
<1>3. Answer(call, 98, w) = Answer(call, 99, a)
  BY <1>1, PrctlSteps
<1>4. Answer(call, 99, a) = IF a = SetPdeathsig THEN Answer(call, 100, a) ELSE Answer(call, 101, a)
  BY <1>1, PrctlSteps
<1>5. Answer(call, 100, a) = "EPERM" /\ Answer(call, 101, a) = Answer(call, 102, w)
  BY <1>1, PrctlSteps
<1> HIDE DEF w, a
<1>6. Answer(call, 97, w) =
         IF w = Prctl /\ a = SetPdeathsig THEN "EPERM" ELSE Answer(call, 102, w)
  BY <1>2, <1>3, <1>4, <1>5
<1> QED BY <1>6 DEF w, a

LEMMA CloneRun ==
    ASSUME NEW call \in AnyCall
    PROVE  Answer(call, 102, call.nr) =
              IF call.nr = Clone3 THEN "ENOSYS"
              ELSE IF call.nr = Clone /\ call.arg0 \cap NamespaceFlags # {} THEN "EPERM"
              ELSE "allow"
<1> DEFINE w == call.nr
           a == call.arg0
<1>1. w \in Words /\ a \in Words
  BY DEF AnyCall
<1>2. /\ Answer(call, 102, w) = IF w = Clone3 THEN Answer(call, 103, w) ELSE Answer(call, 104, w)
      /\ Answer(call, 103, w) = "ENOSYS"
  BY <1>1, CloneSteps
<1>3. Answer(call, 104, w) = IF w = Clone THEN Answer(call, 105, w) ELSE Answer(call, 109, w)
  BY <1>1, CloneSteps
<1>4. Answer(call, 105, w) = Answer(call, 106, a)
  BY <1>1, CloneSteps
<1>5. Answer(call, 106, a) =
         IF a \cap NamespaceFlags # {} THEN Answer(call, 107, a) ELSE Answer(call, 108, a)
  BY <1>1, CloneSteps
<1>6. Answer(call, 107, a) = "EPERM" /\ Answer(call, 108, a) = Answer(call, 109, w)
      /\ Answer(call, 109, w) = "allow"
  BY <1>1, CloneSteps
<1> DEFINE flagged == call.arg0 \cap NamespaceFlags # {}
<1>7. flagged <=> a \cap NamespaceFlags # {}
  OBVIOUS
<1> HIDE DEF w, a, flagged
<1>8. Answer(call, 102, w) =
         IF w = Clone3 THEN "ENOSYS" ELSE IF w = Clone /\ flagged THEN "EPERM" ELSE "allow"
  BY <1>2, <1>3, <1>4, <1>5, <1>6, <1>7
<1> QED BY <1>8 DEF w, flagged

\* The program decides every system call, of any architecture, number and
\* arguments, as the policy says: seccomp.rs implements what ARCHITECTURE.md
\* and its own comments promise.
THEOREM VerdictIsPolicy == \A call \in AnyCall : Verdict(call) = Policy(call)
<1> SUFFICES ASSUME NEW call \in AnyCall PROVE Verdict(call) = Policy(call)
  OBVIOUS
<1> DEFINE w == call.nr
           a == call.arch
<1>1. w \in Words /\ a \in Words /\ {} \in Words
  BY DEF AnyCall, Words
<1>2. Verdict(call) = Answer(call, 1, {})
  BY VerdictIs DEF Answer
<1>3. Answer(call, 1, {}) = Answer(call, 2, a)
  BY <1>1, HeaderSteps, Zenon
<1>4. /\ Answer(call, 2, a) = IF a = AuditArch THEN Answer(call, 4, a) ELSE Answer(call, 3, a)
      /\ Answer(call, 3, a) = "kill" /\ Answer(call, 4, a) = Answer(call, 5, w)
  BY <1>1, HeaderSteps, Zenon
<1>5. /\ Answer(call, 5, w) = IF Geq(w, X32) THEN Answer(call, 6, w) ELSE Answer(call, 7, w)
      /\ Answer(call, 6, w) = "kill"
  BY <1>1, HeaderSteps, Zenon
<1>6. Answer(call, 7, w) =
         IF w \in ToSet(DeniedSyscalls) THEN "EPERM" ELSE Answer(call, 87, w)
  BY <1>1, DeniedRun, Zenon
<1> DEFINE io == call.nr = Ioctl /\ call.arg1 \cap CommandBits \in ToSet(PreallocationIoctls)
           pr == call.nr = Prctl /\ call.arg0 = SetPdeathsig
           cl == call.nr = Clone /\ call.arg0 \cap NamespaceFlags # {}
           fa == call.nr = Fallocate
           c3 == call.nr = Clone3
<1>7. Answer(call, 87, w) = IF io THEN "EPERM" ELSE Answer(call, 97, w)
  BY IoctlRun, Zenon
<1>8. Answer(call, 97, w) = IF pr THEN "EPERM" ELSE Answer(call, 102, w)
  BY PrctlRun, Zenon
<1>9. Answer(call, 102, w) = IF c3 THEN "ENOSYS" ELSE IF cl THEN "EPERM" ELSE "allow"
  BY CloneRun, Zenon
<1>10. (fa => w \in ToSet(DeniedSyscalls)) /\ (c3 => ~cl)
  BY DeniedSet, Distinct
<1>11. Policy(call) =
          IF a # AuditArch \/ Geq(w, X32) THEN "kill"
          ELSE IF w \in ToSet(DeniedSyscalls) \/ (fa \/ io) \/ pr \/ cl THEN "EPERM"
          ELSE IF c3 THEN "ENOSYS" ELSE "allow"
  BY DEF Policy, Preallocates
<1> HIDE DEF w, a, io, pr, cl, fa, c3
<1> QED BY <1>2, <1>3, <1>4, <1>5, <1>6, <1>7, <1>8, <1>9, <1>10, <1>11

LEMMA CallsAreCalls == Calls \subseteq AnyCall
<1>1. \A w : w \in ToSet(DeniedSyscalls) => w \in Words
  BY ZenonT(40), Denied, DeniedSet
<1>2. \A w : w \in ToSet(PreallocationIoctls) => w \in Words
  BY Commands, DeniedSet
<1>3. Numbers \subseteq Words
  <2>1. Read \in Words /\ Ioctl \cup X32 \in Words /\ Ioctl \cup {31} \in Words
    BY WordType, WordTypes DEF Read, Words, X32
  <2> QED BY <1>1, <2>1, WordTypes DEF Numbers
<1>4. FirstArguments \subseteq Words
  <2>1. Word(0) \in Words /\ Word(17) \in Words /\ Word(17) \cup {7} \in Words
        /\ \A f \in NamespaceFlags : Word(17) \cup {f} \in Words
    BY WordType DEF Words, NamespaceFlags
  <2> QED BY <2>1, WordTypes DEF FirstArguments
<1>5. SecondArguments \subseteq Words
  <2> DEFINE commands == ToSet(PreallocationIoctls) \cup {Word(21531), Clone3}
  <2>1. \A c \in commands : c \in Words
    BY <1>2, WordType, WordTypes
  <2>2. \A c \in commands : c \cup {21, 30, 31} \in Words
    BY <2>1 DEF Words
  <2>3. SecondArguments = commands \cup {c \cup {21, 30, 31} : c \in commands}
    BY DEF SecondArguments
  <2> HIDE DEF commands
  <2> QED BY <2>1, <2>2, <2>3
<1>6. {AuditArch, Word(3) \cup {30}} \subseteq Words
  BY WordType, WordTypes DEF Words
<1> QED BY <1>3, <1>4, <1>5, <1>6 DEF Calls, AnyCall

LEMMA FilterRight == Misjudged = {} /\ Bypasses = {}
<1>1. \A c \in Calls : Verdict(c) = Policy(c)
  BY VerdictIsPolicy, CallsAreCalls
<1>2. Misjudged = {}
  BY <1>1 DEF Misjudged
<1>3. \A c \in Calls : Preallocates(c) => Policy(c) # "allow"
  BY DEF Policy
<1> QED BY <1>1, <1>2, <1>3 DEF Bypasses

\* No call of the runs is judged otherwise than the policy says (the run's
\* property of seccomp.rs), because none at all is.
THEOREM FilterMeetsPolicyHolds == Spec => []FilterMeetsPolicy
<1>1. FilterMeetsPolicy
  BY FilterRight DEF FilterMeetsPolicy
<1> QED BY <1>1, PTL

-----------------------------------------------------------------------------
(* What the outputs hold is within what was reserved for them.              *)

Rounded(f) == f.blocks <= f.len + (Block - 1)

\* No file has more blocks than its length needs; the guest has the limit of its first
\* output, and its outputs are within it.
BoundInv ==
    /\ \A n \in DOMAIN file : Rounded(file[n])
    /\ fsize <= limits.outputFileBytes
    /\ phase = "guest" => fsize = IF outputs = <<>> THEN 0 ELSE Maximum(outputs[1])
    /\ phase = "guest" /\ ~Meddled({"written"}) =>
          \A n \in DOMAIN mounted : file[mounted[n]].len <= fsize

\* Files are written with the blocks of their length, or sparse; what would allocate more
\* does not pass the filter.
LEMMA NextRounded ==
    ASSUME TypeInv, TreeInv, [Next]_vars, \A n \in DOMAIN file : Rounded(file[n])
    PROVE  \A n \in DOMAIN file' : Rounded(file'[n])
<1>0. /\ file \in Seq(Inode) /\ DOMAIN file = 1 .. Len(file) /\ Len(file) \in Nat
      /\ \A n \in DOMAIN file : file[n] \in Inode
      /\ \A n \in DOMAIN mounted : mounted[n] \in DOMAIN file
  BY Elements DEF TypeInv
<1> DEFINE All == \A n \in DOMAIN file' : Rounded(file'[n])
<1>1. ASSUME file' = file PROVE All
  BY <1>1
<1>2. ASSUME file' = Append(file, Empty) PROVE All
  <2>1. DOMAIN file' = 1 .. Len(file) + 1 /\ file'[Len(file) + 1] = Empty
        /\ \A n \in 1 .. Len(file) : file'[n] = file[n]
    BY <1>0, <1>2, Appended, InodeTypes
  <2>2. Rounded(Empty)
    BY ArtifactsAssumption DEF Rounded, Empty
  <2>3. \A n \in DOMAIN file' : n \in 1 .. Len(file) \/ n = Len(file) + 1
    BY <1>0, <2>1
  <2> QED BY <1>0, <2>1, <2>2, <2>3
<1>3. ASSUME NEW k, NEW f, file' = [file EXCEPT ![k] = f], k \in DOMAIN file => Rounded(f)
      PROVE  All
  BY <1>0, <1>3
<1>4. ASSUME NEW n \in DOMAIN mounted, GuestPreallocates(n) PROVE All
  BY <1>1, <1>4, FilterRight DEF GuestPreallocates, Wrote
<1>5. ASSUME NEW p, HostReplaces(p) PROVE All
  <2>1. /\ Unlinked(p) \in Seq(Inode) /\ Len(Unlinked(p)) = Len(file)
        /\ \A n \in 1 .. Len(file) : Unlinked(p)[n].len = file[n].len
                                     /\ Unlinked(p)[n].blocks = file[n].blocks
    BY <1>0, UnlinkedType
  <2>2. DOMAIN Unlinked(p) = 1 .. Len(file)
    BY <2>1, Elements
  <2>3. \A n \in 1 .. Len(file) : Rounded(Unlinked(p)[n])
    BY <1>0, <2>1 DEF Rounded
  <2>4. ASSUME NEW c \in Contents, NEW l \in {1, 2},
               file' = Append(Unlinked(p), [len |-> c.len, data |-> c.data, links |-> l,
                                            blocks |-> BlocksOf(c.len)])
        PROVE  All
    <3> DEFINE f == [len |-> c.len, data |-> c.data, links |-> l, blocks |-> BlocksOf(c.len)]
    <3>1. c \in Written
      BY InodeTypes
    <3>2. c.len \in Nat /\ c.data \in 0 .. 1
      BY <3>1 DEF Written
    <3>3. BlocksOf(c.len) \in Nat /\ BlocksOf(c.len) <= c.len + (Block - 1)
      BY <3>2, BlocksBound
    <3>4. f \in Inode /\ Rounded(f)
      BY <3>2, <3>3 DEF Inode, Rounded
    <3>5. file' = Append(Unlinked(p), f)
      BY <2>4
    <3> HIDE DEF f
    <3>6. DOMAIN file' = 1 .. Len(file) + 1 /\ file'[Len(file) + 1] = f
          /\ \A n \in 1 .. Len(file) : file'[n] = Unlinked(p)[n]
      BY <2>1, <3>4, <3>5, Appended
    <3>7. \A n \in DOMAIN file' : n \in 1 .. Len(file) \/ n = Len(file) + 1
      BY <1>0, <3>6
    <3> QED BY <2>3, <3>4, <3>6, <3>7
  <2>5. ASSUME file' = Unlinked(p) PROVE All
    BY <2>2, <2>3, <2>5
  <2> QED BY <1>5, <2>4, <2>5 DEF HostReplaces
<1>6. ASSUME NEW why, Refuse(why) PROVE All
  BY <1>6 DEF Refuse
<1>7. ASSUME CopyChunk PROVE All
  <2>1. file' = [file EXCEPT ![Len(file)] = Grow(file[Len(file)], copy.len + 1)]
    BY <1>7 DEF CopyChunk
  <2>2. copy.len + 1 \in Nat
    BY DEF TypeInv
  <2>3. BlocksOf(copy.len + 1) <= (copy.len + 1) + (Block - 1)
    BY <2>2, BlocksBound
  <2>4. Len(file) \in DOMAIN file =>
          /\ Grow(file[Len(file)], copy.len + 1).len = copy.len + 1
          /\ Grow(file[Len(file)], copy.len + 1).blocks = BlocksOf(copy.len + 1)
    BY <1>0 DEF Grow, Inode
  <2>5. Len(file) \in DOMAIN file => Rounded(Grow(file[Len(file)], copy.len + 1))
    BY <2>3, <2>4 DEF Rounded
  <2> QED BY <1>3, <2>1, <2>5
<1>8. ASSUME NEW n \in DOMAIN mounted, GuestWrites(n) PROVE All
  <2>1. PICK c \in Contents, sparse \in BOOLEAN :
          file' = [file EXCEPT ![mounted[n]] =
                      [@ EXCEPT !.len = c.len, !.data = c.data,
                                !.blocks = IF sparse THEN 0 ELSE BlocksOf(c.len)]]
    BY <1>8 DEF GuestWrites, Wrote
  <2> DEFINE b == IF sparse THEN 0 ELSE BlocksOf(c.len)
             f == [file[mounted[n]] EXCEPT !.len = c.len, !.data = c.data, !.blocks = b]
  <2>2. f.len = c.len /\ f.blocks = b
    BY <1>0 DEF Inode
  <2>3. c \in Written
    BY InodeTypes
  <2>4. c.len \in Nat
    BY <2>3 DEF Written
  <2>5. b <= c.len + (Block - 1)
    <3>1. BlocksOf(c.len) <= c.len + (Block - 1)
      BY <2>4, BlocksBound
    <3>2. 0 <= c.len + (Block - 1)
      BY <2>4, ArtifactsAssumption
    <3> QED BY <3>1, <3>2
  <2>6. file' = [file EXCEPT ![mounted[n]] = f]
    BY <2>1
  <2> HIDE DEF f, b
  <2>7. Rounded(f)
    BY <2>2, <2>5 DEF Rounded
  <2> QED BY <1>3, <2>6, <2>7
<1>9. ASSUME NEW p \in DOMAIN tree, HostWrites(p) PROVE All
  <2>0. tree[p] \in DOMAIN file
    <3>1. tree[p] \in {0, -1} \cup 1 .. Len(file)
      BY DEF TypeInv, Dir, Symlink
    <3> QED BY <1>0, <1>9, <3>1 DEF HostWrites
  <2>1. PICK c \in Contents :
          file' = [file EXCEPT ![tree[p]] = [@ EXCEPT !.len = c.len, !.data = c.data,
                                                      !.blocks = BlocksOf(c.len)]]
    BY <1>9 DEF HostWrites
  <2> DEFINE b == BlocksOf(c.len)
             f == [file[tree[p]] EXCEPT !.len = c.len, !.data = c.data, !.blocks = b]
  <2>2. f.len = c.len /\ f.blocks = b
    BY <1>0, <2>0 DEF Inode
  <2>3. c \in Written
    BY InodeTypes
  <2>4. c.len \in Nat
    BY <2>3 DEF Written
  <2>5. b <= c.len + (Block - 1)
    BY <2>4, BlocksBound
  <2>6. file' = [file EXCEPT ![tree[p]] = f]
    BY <2>1
  <2> HIDE DEF f, b
  <2>7. Rounded(f)
    BY <2>2, <2>5 DEF Rounded
  <2> QED BY <1>3, <2>6, <2>7
<1> HIDE DEF All
<1> USE DEF vars, nodeVars, nativeVars, Skip
<1>10. ASSUME Node PROVE All
  BY <1>1, <1>2, <1>6, <1>7, <1>10 DEF Node, Plan, PlanRefuses, BeginInput, StageOutput,
     InputCollides, InputTooLarge, SourceShrank, ChunkTooLarge, EndInput, InputTaken,
     InputsStaged, Staged, Aborted, ReadArtifact, Deliver, Collected
<1>11. ASSUME Native PROVE All
  BY <1>1, <1>6, <1>11 DEF Native, ValidateInputs, StatOutput, OpenOutput,
     OutputsPinned, MountOutput, Harden, ScanFile, ScanFolder, Alarm, ScanDone, ScanGoesOn, InspectOutputs, HashOutput,
     Answered
<1>12. ASSUME GuestEnds \/ SourceEdited \/ HostLoosens \/ UNCHANGED vars PROVE All
  BY <1>1, <1>12 DEF GuestEnds, SourceEdited, HostLoosens
<1>13. Files("output") \subseteq DOMAIN tree
  BY DEF Files
<1>14. All
  BY <1>4, <1>5, <1>8, <1>9, <1>10, <1>11, <1>12, <1>13 DEF Next
<1> QED BY <1>14 DEF All

\* The limit on what a file holds is set when the guest starts, and stays.
LEMMA GuestSteps ==
    ASSUME [Next]_vars
    PROVE  \/ Harden
           \/ fsize' = fsize /\ (phase' = "guest" => phase = "guest" /\ mounted' = mounted)
<1> DEFINE Same == fsize' = fsize /\ (phase' = "guest" => phase = "guest" /\ mounted' = mounted)
<1> USE DEF vars, nodeVars, nativeVars, Skip, Go
<1>1. ASSUME NEW why, Refuse(why) PROVE Same
  BY <1>1 DEF Refuse
<1>2. ASSUME UNCHANGED <<phase, mounted, fsize>> PROVE Same
  BY <1>2
<1>3. ASSUME fsize' = fsize, phase' # "guest" PROVE Same
  BY <1>3
<1>4. ASSUME Node PROVE Same
  <2>1. CASE Plan \/ BeginInput \/ CopyChunk \/ InputsStaged \/ Staged \/ ReadArtifact \/ Collected
    BY <1>1, <1>3, <2>1 DEF Plan, BeginInput, CopyChunk, InputsStaged, Staged, ReadArtifact,
       Deliver, Collected
  <2>2. CASE EndInput \/ StageOutput
    BY <1>1, <1>3, <2>2 DEF EndInput, InputTaken, StageOutput
  <2> QED BY <1>1, <1>4, <2>1, <2>2 DEF Node, PlanRefuses, InputCollides, InputTooLarge,
     SourceShrank, ChunkTooLarge, Aborted
<1>5. ASSUME Native, ~Harden PROVE Same
  <2>1. CASE ValidateInputs \/ StatOutput \/ OpenOutput \/ OutputsPinned \/ MountOutput
    BY <1>1, <1>3, <2>1 DEF ValidateInputs, StatOutput, OpenOutput, OutputsPinned, MountOutput
  <2>2. ASSUME NEW p, ScanFile(p) \/ ScanFolder(p) PROVE Same
    BY <1>2, <1>3, <2>2 DEF ScanFile, ScanFolder, ScanGoesOn, Alarm
  <2>3. CASE ScanDone
    BY <1>2, <2>3 DEF ScanDone, ScanGoesOn
  <2>4. CASE InspectOutputs \/ HashOutput \/ Answered
    BY <1>1, <1>3, <2>4 DEF InspectOutputs, HashOutput, Answered
  <2> QED BY <1>5, <2>1, <2>2, <2>3, <2>4 DEF Native
<1>6. ASSUME NEW n \in DOMAIN mounted, GuestWrites(n) \/ GuestPreallocates(n) PROVE Same
  BY <1>2, <1>6 DEF GuestWrites, GuestPreallocates, Wrote
<1>7. ASSUME NEW p, HostReplaces(p) \/ HostWrites(p) PROVE Same
  BY <1>2, <1>7 DEF HostReplaces, HostWrites, Meddle
<1>8. ASSUME GuestEnds \/ SourceEdited \/ HostLoosens \/ UNCHANGED vars PROVE Same
  BY <1>2, <1>3, <1>8 DEF GuestEnds, SourceEdited, HostLoosens, Meddle
<1> HIDE DEF Same
<1>9. Same \/ Harden
  BY <1>4, <1>5, <1>6, <1>7, <1>8 DEF Next
<1> QED BY <1>9 DEF Same

\* What the plan accepted, of the maxima of the outputs.
LEMMA Accepted ==
    ASSUME TypeInv, ItemInv, phase \notin {"plan", "refused"}
    PROVE  LET maxima == [n \in DOMAIN outputs |-> Maximum(outputs[n])] IN
           /\ Len(outputs) <= limits.outputFiles
           /\ \A n \in DOMAIN outputs : Maximum(outputs[n]) = Maximum(outputs[1])
                                        /\ Maximum(outputs[n]) <= limits.outputFileBytes
           /\ SumFunction(maxima) <= limits.outputBytes
           /\ outputs # <<>> => 1 \in DOMAIN outputs
<1> DEFINE maxima == [n \in DOMAIN outputs |-> Maximum(outputs[n])]
<1>1. PlanAccepts
  BY DEF ItemInv
<1>2. outputs # <<>> => 1 \in DOMAIN outputs
  <2>1. outputs \in Seq(Outputs)
    BY RequestType
  <2> QED BY <2>1
<1>3. \A n \in DOMAIN maxima : maxima[n] = maxima[1] /\ maxima[n] <= limits.outputFileBytes
  BY <1>1 DEF PlanAccepts
<1>4. DOMAIN outputs # {} => 1 \in DOMAIN outputs
  BY RequestType
<1>5. \A n \in DOMAIN outputs : Maximum(outputs[n]) = Maximum(outputs[1])
                                /\ Maximum(outputs[n]) <= limits.outputFileBytes
  BY <1>3, <1>4
<1> QED BY <1>1, <1>2, <1>5 DEF PlanAccepts

LEMMA NextBound ==
    ASSUME IInv, BoundInv, [Next]_vars
    PROVE  BoundInv'
<1>0. /\ file \in Seq(Inode) /\ DOMAIN file = 1 .. Len(file)
      /\ \A n \in DOMAIN file : file[n] \in Inode
      /\ \A n \in DOMAIN mounted : mounted[n] \in DOMAIN file
      /\ mounted \in Seq(1 .. Len(file))
      /\ fsize \in Nat
  BY Elements DEF IInv, TypeInv
<1>1. /\ request' = request /\ outputs' = outputs /\ limits' = limits
      /\ \A o : Maximum(o)' = Maximum(o)
  BY PhaseSteps, SameRequest DEF Maximum, IInv
<1>2. \A n \in DOMAIN file' : Rounded(file'[n])
  BY NextRounded DEF BoundInv, IInv
<1>3. Meddled({"written"}) => Meddled({"written"})'
  BY MeddledStays DEF IInv
<1>4. CASE Harden
  <2>1. /\ phase = "mount" /\ phase' = "guest" /\ file' = file /\ mounted' = mounted
        /\ fsize' = IF outputs = <<>> THEN 0 ELSE Maximum(outputs[1])
    BY <1>4 DEF Harden, Go
  <2>2. outputs # <<>> =>
          Maximum(outputs[1]) \in Nat /\ Maximum(outputs[1]) <= limits.outputFileBytes
    BY <2>1, Accepted, RequestType DEF IInv
  <2>3. limits.outputFileBytes \in Nat
    BY RequestType DEF IInv, Limits
  <2>4. fsize' \in Nat /\ fsize' <= limits.outputFileBytes
    BY <2>1, <2>2, <2>3
  <2>5. ~Meddled({"written"})' => \A n \in DOMAIN mounted : file[mounted[n]].len = 0
    BY <1>3, <2>1 DEF IInv, ContentInv
  <2>6. ~Meddled({"written"})' => \A n \in DOMAIN mounted' : file'[mounted'[n]].len <= fsize'
    BY <2>1, <2>4, <2>5
  <2> QED BY <1>1, <1>2, <2>1, <2>4, <2>6 DEF BoundInv
<1>5. CASE fsize' = fsize /\ (phase' = "guest" => phase = "guest" /\ mounted' = mounted)
  <2>1. ASSUME phase' = "guest", ~Meddled({"written"})', NEW n \in DOMAIN mounted
        PROVE  file'[mounted[n]].len <= fsize
    <3>1. file[mounted[n]].len <= fsize /\ phase = "guest"
      BY <1>3, <1>5, <2>1 DEF BoundInv
    <3>2. mounted[n] \in 1 .. Len(file)
      BY <1>0
    <3>3. CASE CopyChunk
      BY <3>1, <3>3 DEF CopyChunk
    <3>4. ASSUME NEW m \in DOMAIN mounted, GuestWrites(m) PROVE file'[mounted[n]].len <= fsize
      <4>1. PICK c \in Contents, sparse \in BOOLEAN :
              /\ c.len <= fsize
              /\ file' = [file EXCEPT ![mounted[m]] =
                            [@ EXCEPT !.len = c.len, !.data = c.data,
                                      !.blocks = IF sparse THEN 0 ELSE BlocksOf(c.len)]]
        BY <3>4 DEF GuestWrites, Wrote
      <4>2. [file[mounted[m]] EXCEPT !.len = c.len, !.data = c.data,
                 !.blocks = IF sparse THEN 0 ELSE BlocksOf(c.len)].len = c.len
        BY <1>0 DEF Inode
      <4> QED BY <1>0, <3>1, <4>1, <4>2
    <3>5. ASSUME NEW p \in Files("output"), HostWrites(p) PROVE FALSE
      <4>1. meddled' = Append(meddled, "written")
        BY <3>5 DEF HostWrites, Meddle
      <4>2. meddled \in Seq(Hows)
        BY DEF IInv, TypeInv
      <4>3. Len(meddled) + 1 \in DOMAIN meddled' /\ meddled'[Len(meddled) + 1] = "written"
        BY <4>1, <4>2, Appended
      <4> QED BY <2>1, <4>3 DEF Meddled
    <3>6. CASE \A k \in 1 .. Len(file) : file'[k].len = file[k].len /\ file'[k].data = file[k].data
      BY <3>1, <3>2, <3>6
    <3> QED BY <3>3, <3>4, <3>5, <3>6, ContentSteps DEF IInv
  <2>2. fsize <= limits.outputFileBytes
        /\ (phase' = "guest" => fsize = IF outputs = <<>> THEN 0 ELSE Maximum(outputs[1]))
    BY <1>5 DEF BoundInv
  <2>3. phase' = "guest" /\ ~Meddled({"written"})' =>
          \A n \in DOMAIN mounted' : file'[mounted'[n]].len <= fsize'
    BY <1>5, <2>1
  <2> QED BY <1>1, <1>2, <1>5, <2>2, <2>3 DEF BoundInv
<1> QED BY <1>4, <1>5, GuestSteps

LEMMA BoundInvariant ==
    Spec => [](IInv /\ BoundInv)
<1>1. Init => BoundInv
  <2> SUFFICES ASSUME Init PROVE BoundInv
    OBVIOUS
  <2>1. TypeInv
    BY InitInv DEF IInv
  <2>2. limits.outputFileBytes \in Nat
    BY <2>1, RequestType DEF Limits
  <2>3. DOMAIN file = {} /\ fsize = 0 /\ phase = "plan"
    BY DEF Init
  <2> QED BY <2>2, <2>3 DEF BoundInv
<1>2. ASSUME IInv, BoundInv, [Next]_vars PROVE IInv' /\ BoundInv'
  <2>1. IInv'
    BY <1>2, NextType, NextItem, NextSource, NextTree, NextPin, NextContent, NextReport DEF IInv
  <2>2. BoundInv'
    BY <1>2, NextBound
  <2> QED BY <2>1, <2>2
<1> QED BY InitInv, <1>1, <1>2, PTL DEF Spec

\* What the mounted outputs hold, and the disk blocks of it, within the plan's sums.
LEMMA DiskIsBounded ==
    ASSUME IInv, BoundInv
    PROVE  DiskBounded
<1> SUFFICES ASSUME phase = "guest", ~Meddled({"written", "replaced"})
             PROVE
               /\ SumFunction([n \in DOMAIN mounted |-> file[mounted[n]].len]) <= limits.outputBytes
               /\ SumFunction([n \in DOMAIN mounted |-> file[mounted[n]].blocks])
                     <= limits.outputBytes + limits.outputFiles * (Block - 1)
  BY DEF DiskBounded
<1> DEFINE maxima == [n \in DOMAIN outputs |-> Maximum(outputs[n])]
           lens == [n \in DOMAIN mounted |-> file[mounted[n]].len]
           blocks == [n \in DOMAIN mounted |-> file[mounted[n]].blocks]
           D == DOMAIN outputs
<1>1. ~Meddled({"written"})
  BY DEF Meddled
<1>2. /\ outputs \in Seq(Outputs) /\ DOMAIN outputs = 1 .. Len(outputs) /\ Len(outputs) \in Nat
      /\ \A n \in DOMAIN outputs : Maximum(outputs[n]) \in Nat \ {0}
      /\ limits \in Limits
  BY RequestType DEF IInv
<1>3. DOMAIN mounted = D
  <2>1. DOMAIN mounted = 1 .. Len(mounted)
    BY Elements DEF IInv, TypeInv
  <2>2. Len(mounted) = Len(outputs)
    BY DEF IInv, PinInv
  <2> QED BY <1>2, <2>1, <2>2
<1>4. IsFiniteSet(D) /\ Cardinality(D) = Len(outputs)
  <2> DEFINE len == Len(outputs)
  <2>1. len \in Nat /\ D = 1 .. len
    BY <1>2
  <2> HIDE DEF len, D
  <2>2. IsFiniteSet(1 .. len)
    BY <2>1, FS_Interval
  <2>3. Cardinality(1 .. len) = IF 1 > len THEN 0 ELSE len - 1 + 1
    BY <2>1, FS_Interval
  <2>4. Cardinality(1 .. len) = len
    BY <2>1, <2>3
  <2> QED BY <2>1, <2>2, <2>4 DEF len
<1>5. /\ Len(outputs) <= limits.outputFiles
      /\ SumFunction(maxima) <= limits.outputBytes
      /\ \A n \in DOMAIN outputs : Maximum(outputs[n]) = Maximum(outputs[1])
  BY Accepted DEF IInv
<1>6. \A n \in DOMAIN mounted : file[mounted[n]] \in Inode /\ mounted[n] \in DOMAIN file
  BY Elements DEF IInv, TypeInv
<1>7. \A n \in DOMAIN mounted : /\ file[mounted[n]].len \in Nat /\ file[mounted[n]].blocks \in Nat
                               /\ file[mounted[n]].len <= fsize
                               /\ Rounded(file[mounted[n]])
  BY <1>1, <1>6 DEF BoundInv, Inode
<1>8. \A n \in D : fsize = Maximum(outputs[n])
  <2>1. ASSUME NEW n \in D PROVE fsize = Maximum(outputs[n])
    <3>1. outputs # <<>>
      BY <1>2, <2>1
    <3> QED BY <1>5, <2>1, <3>1 DEF BoundInv
  <2> QED BY <2>1
<1>9. \A n \in D : /\ maxima[n] \in Int /\ lens[n] \in Int /\ blocks[n] \in Int
                   /\ lens[n] <= maxima[n] /\ blocks[n] <= lens[n] + (Block - 1)
  <2> SUFFICES ASSUME NEW n \in D
               PROVE  /\ maxima[n] \in Int /\ lens[n] \in Int /\ blocks[n] \in Int
                      /\ lens[n] <= maxima[n] /\ blocks[n] <= lens[n] + (Block - 1)
    OBVIOUS
  <2>1. /\ maxima[n] = Maximum(outputs[n]) /\ lens[n] = file[mounted[n]].len
        /\ blocks[n] = file[mounted[n]].blocks
    BY <1>3
  <2>2. Maximum(outputs[n]) \in Nat /\ fsize = Maximum(outputs[n])
    BY <1>2, <1>8
  <2>3. /\ file[mounted[n]].len \in Nat /\ file[mounted[n]].blocks \in Nat
        /\ file[mounted[n]].len <= fsize
        /\ file[mounted[n]].blocks <= file[mounted[n]].len + (Block - 1)
    BY <1>3, <1>7 DEF Rounded
  <2> HIDE DEF maxima, lens, blocks
  <2> QED BY <2>1, <2>2, <2>3
<1>10. DOMAIN maxima = D /\ DOMAIN lens = D /\ DOMAIN blocks = D
  BY <1>3
<1> HIDE DEF maxima, lens, blocks, D
<1>11. SumFunctionOnSet(maxima, D) <= limits.outputBytes
  BY <1>5, <1>10 DEF SumFunction
<1>12. Terms(maxima, D) /\ Terms(lens, D) /\ Terms(blocks, D)
  BY <1>9 DEF Terms
<1>13. SumFunctionOnSet(lens, D) <= SumFunctionOnSet(maxima, D)
  BY <1>4, <1>9, <1>12, SumMonotone
<1>14. Block - 1 \in Nat
  BY ArtifactsAssumption
<1>15. SumFunctionOnSet(blocks, D) <= SumFunctionOnSet(lens, D) + Cardinality(D) * (Block - 1)
  <2> DEFINE m == Block - 1
  <2>1. m \in Int /\ (\A n \in D : blocks[n] <= lens[n] + m)
    BY <1>9, <1>14
  <2> HIDE DEF m
  <2>2. SumFunctionOnSet(blocks, D) <= SumFunctionOnSet(lens, D) + Cardinality(D) * m
    BY <1>4, <1>12, <2>1, SumMargin
  <2> QED BY <2>2 DEF m
<1>16. limits.outputFiles \in Nat /\ limits.outputBytes \in Nat
  BY <1>2 DEF Limits
<1>17. Cardinality(D) * (Block - 1) <= limits.outputFiles * (Block - 1)
  BY <1>2, <1>4, <1>5, <1>14, <1>16, Times
<1>18. /\ SumFunctionOnSet(maxima, D) \in Int /\ SumFunctionOnSet(lens, D) \in Int
       /\ SumFunctionOnSet(blocks, D) \in Int
  BY <1>4, <1>12, SumType
<1>19. Cardinality(D) * (Block - 1) \in Int /\ limits.outputFiles * (Block - 1) \in Int
  BY <1>2, <1>4, <1>14, <1>16
<1>20. SumFunctionOnSet(lens, D) <= limits.outputBytes
  BY <1>11, <1>13, <1>16, <1>18
<1>21. SumFunctionOnSet(blocks, D) <= limits.outputBytes + limits.outputFiles * (Block - 1)
  BY <1>15, <1>16, <1>17, <1>18, <1>19, <1>20
<1>22. SumFunction(lens) <= limits.outputBytes
  BY <1>10, <1>20 DEF SumFunction
<1>23. SumFunction(blocks) <= limits.outputBytes + limits.outputFiles * (Block - 1)
  BY <1>10, <1>21 DEF SumFunction
<1> QED BY <1>22, <1>23 DEF lens, blocks

\* The outputs of a running guest never hold more than the plan reserved, in bytes or in
\* blocks but for their rounding, whatever the guest writes, truncates or preallocates
\* (linux/mod.rs, harden; OPERATIONS.md:33), for every request, limit and block size.
THEOREM WithinBoundsHolds ==
    Spec => []WithinBounds
<1>1. ASSUME IInv, BoundInv PROVE TypeOK
  <2>1. /\ phase \in Phases /\ refusal \in Refusals /\ (phase = "refused" <=> refusal # "none")
        /\ item \in Nat \ {0} /\ item <= 1 + Len(inputs) + Len(outputs)
    BY <1>1 DEF IInv, TypeInv, ItemInv
  <2>2. DOMAIN file = 1 .. Len(file) /\ \A n \in DOMAIN file : file[n] \in Inode
    BY <1>1, Elements DEF IInv, TypeInv
  <2>3. \A p \in DOMAIN tree : tree[p] \in {Dir, Symlink} \cup DOMAIN file
    BY <1>1, <2>2 DEF IInv, TypeInv
  <2>4. Len(mounted) <= Len(pinned) /\ Len(pinned) <= Len(outputs)
    BY <1>1 DEF IInv, PinInv
  <2>5. fsize \in Nat /\ fsize <= limits.outputFileBytes /\ limits.outputFileBytes \in Nat
    BY <1>1, RequestType DEF IInv, TypeInv, BoundInv, Limits
  <2>6. Len(inputs) \in Nat /\ Len(outputs) \in Nat
    BY <1>1, RequestType DEF IInv
  <2>7. item \in 1 .. 1 + Len(inputs) + Len(outputs)
    BY <2>1, <2>6
  <2>8. fsize \in 0 .. limits.outputFileBytes
    BY <2>5
  <2>9. \A n \in DOMAIN file : /\ file[n].len \in Nat /\ file[n].data \in 0 .. 1
                              /\ file[n].links \in 0 .. 2 /\ file[n].blocks \in Nat
    BY <2>2 DEF Inode
  <2> QED BY <2>1, <2>3, <2>4, <2>7, <2>8, <2>9 DEF TypeOK, Phases, Refusals
<1>2. IInv /\ BoundInv => WithinBounds
  BY <1>1, DiskIsBounded DEF WithinBounds
<1> QED BY BoundInvariant, <1>2, PTL

-----------------------------------------------------------------------------
(* Paths, their places in the workspace, and the directories they are in.   *)

LEMMA SameParts ==
    ASSUME NEW S, NEW p \in Seq(S), NEW q \in Seq(S), Len(p) = Len(q),
           \A i \in 1 .. Len(p) : p[i] = q[i]
    PROVE  p = q
OBVIOUS

LEMMA Rooted ==
    ASSUME NEW S, NEW r \in S, NEW n \in Seq(S)
    PROVE  /\ <<r>> \o n \in Seq(S) /\ Len(<<r>> \o n) = Len(n) + 1 /\ Len(n) \in Nat
           /\ (<<r>> \o n)[1] = r /\ \A i \in 1 .. Len(n) : (<<r>> \o n)[i + 1] = n[i]
           /\ Len(n) = 0 => <<r>> \o n = <<r>>
<1>1. /\ <<r>> \o n \in Seq(S) /\ Len(<<r>> \o n) = Len(n) + 1 /\ Len(n) \in Nat
      /\ (<<r>> \o n)[1] = r /\ \A i \in 1 .. Len(n) : (<<r>> \o n)[i + 1] = n[i]
  OBVIOUS
<1>2. <<r>> \in Seq(S) /\ Len(<<r>>) = 1 /\ <<r>>[1] = r
  OBVIOUS
<1> DEFINE s == <<r>> \o n
           t == <<r>>
<1> HIDE DEF s, t
<1>3. ASSUME Len(n) = 0 PROVE s = t
  <2>1. s \in Seq(S) /\ t \in Seq(S) /\ Len(s) = 1 /\ Len(t) = 1 /\ s[1] = r /\ t[1] = r
    BY <1>1, <1>2, <1>3 DEF s, t
  <2>2. \A i \in 1 .. Len(s) : s[i] = t[i]
    BY <2>1
  <2> QED BY <2>1, <2>2, SameParts
<1> QED BY <1>1, <1>3 DEF s, t

LEMMA ParentParts ==
    ASSUME NEW S, NEW s \in Seq(S), NEW q
    PROVE  q \in Parents(s) <=> /\ q \in Seq(S) /\ Len(q) \in 1 .. Len(s) - 1
                                /\ \A i \in 1 .. Len(q) : q[i] = s[i]
<1>1. ASSUME NEW n \in 1 .. Len(s) - 1
      PROVE  /\ SubSeq(s, 1, n) \in Seq(S) /\ Len(SubSeq(s, 1, n)) = n
             /\ \A i \in 1 .. n : SubSeq(s, 1, n)[i] = s[i]
  OBVIOUS
<1>2. ASSUME q \in Parents(s)
      PROVE  /\ q \in Seq(S) /\ Len(q) \in 1 .. Len(s) - 1
             /\ \A i \in 1 .. Len(q) : q[i] = s[i]
  <2>1. PICK n \in 1 .. Len(s) - 1 : q = SubSeq(s, 1, n)
    BY <1>2 DEF Parents
  <2> QED BY <1>1, <2>1
<1>3. ASSUME q \in Seq(S), Len(q) \in 1 .. Len(s) - 1, \A i \in 1 .. Len(q) : q[i] = s[i]
      PROVE  q \in Parents(s)
  <2>1. /\ SubSeq(s, 1, Len(q)) \in Seq(S) /\ Len(SubSeq(s, 1, Len(q))) = Len(q)
        /\ \A i \in 1 .. Len(q) : SubSeq(s, 1, Len(q))[i] = s[i]
    BY <1>1, <1>3
  <2>2. q = SubSeq(s, 1, Len(q))
    BY <1>3, <2>1
  <2> QED BY <1>3, <2>2 DEF Parents
<1> QED BY <1>2, <1>3

\* The names in a place.
Parts == STRING \cup {"input", "output"}

LEMMA PathParts ==
    ASSUME NEW p \in Paths
    PROVE  p \in Seq(Parts) /\ Names(p) \in Seq(Parts) /\ p # <<>>
<1>1. p \in Seq(STRING) /\ Names(p) \in Seq(STRING) /\ p # <<>>
  BY NamesType DEF Paths
<1>2. STRING \subseteq Parts
  BY DEF Parts
<1> QED BY <1>1, <1>2, WiderSeq

\* What a path's place is made of.
LEMMA PlaceParts ==
    ASSUME NEW r \in Parts, NEW p \in Paths
    PROVE  /\ Place(r, p) \in Seq(Parts) /\ Len(Place(r, p)) \in Nat \ {0} /\ Place(r, p)[1] = r
           /\ Len(Place(r, p)) = 1 => Place(r, p) = <<r>>
           /\ ~EndsInSlash(p) =>
                 /\ Len(Place(r, p)) = Len(p) + 1
                 /\ \A i \in 1 .. Len(p) : Place(r, p)[i + 1] = p[i]
<1> DEFINE n == Names(p)
<1>1. n \in Seq(Parts) /\ Place(r, p) = <<r>> \o n
  BY PathParts DEF Place
<1>2. ASSUME ~EndsInSlash(p) PROVE n = p
  <2>1. ASSUME p = <<".", "">> PROVE FALSE
    <3>1. Len(p) = 2 /\ p[2] = ""
      BY <2>1
    <3> QED BY <1>2, <3>1 DEF EndsInSlash
  <2> QED BY <1>2, <2>1 DEF Names
<1> HIDE DEF n
<1>3. /\ Place(r, p) \in Seq(Parts) /\ Len(Place(r, p)) = Len(n) + 1 /\ Len(n) \in Nat
      /\ Place(r, p)[1] = r /\ \A i \in 1 .. Len(n) : Place(r, p)[i + 1] = n[i]
  BY <1>1, Rooted
<1>4. ASSUME Len(Place(r, p)) = 1 PROVE Place(r, p) = <<r>>
  <2>0. Len(Place(r, p)) = Len(n) + 1 /\ Len(n) \in Nat
    BY <1>3
  <2> DEFINE k == Len(Place(r, p))
             l == Len(n)
  <2> HIDE DEF k, l
  <2>1. k = l + 1 /\ l \in Nat /\ k = 1 => l = 0
    OBVIOUS
  <2>2. Len(n) = 0
    BY <1>4, <2>0, <2>1 DEF k, l
  <2> QED BY <1>1, <2>2, Rooted
<1>5. Len(Place(r, p)) \in Nat \ {0}
  BY <1>3
<1>6. ASSUME ~EndsInSlash(p)
      PROVE  /\ Len(Place(r, p)) = Len(p) + 1
             /\ \A i \in 1 .. Len(p) : Place(r, p)[i + 1] = p[i]
  BY <1>2, <1>3, <1>6
<1> QED BY <1>3, <1>4, <1>5, <1>6

\* A place has what its path has, unless a slash at the end was dropped.
LEMMA PlaceSame ==
    ASSUME NEW r \in Parts, NEW p \in Paths, NEW q \in Paths, ~EndsInSlash(p), ~EndsInSlash(q)
    PROVE  /\ Place(r, p) = Place(r, q) => p = q
           /\ Place(r, q) \in Parents(Place(r, p)) => q \in Parents(p)
           /\ Place(r, p) # <<r>>
<1>1. p \in Seq(Parts) /\ q \in Seq(Parts) /\ p # <<>> /\ q # <<>>
  BY PathParts
<1> DEFINE P == Place(r, p)
           Q == Place(r, q)
<1>2. /\ P \in Seq(Parts) /\ Q \in Seq(Parts)
      /\ Len(P) = Len(p) + 1 /\ Len(Q) = Len(q) + 1
      /\ \A i \in 1 .. Len(p) : P[i + 1] = p[i]
      /\ \A i \in 1 .. Len(q) : Q[i + 1] = q[i]
  BY PlaceParts
<1> HIDE DEF P, Q
<1>0. Len(p) \in Nat \ {0} /\ Len(q) \in Nat \ {0}
  BY <1>1
<1>3. ASSUME P = Q PROVE p = q
  <2>1. Len(p) = Len(q)
    BY <1>0, <1>2, <1>3
  <2>2. \A i \in 1 .. Len(p) : p[i] = q[i]
    BY <1>2, <1>3, <2>1
  <2> QED BY <1>1, <2>1, <2>2, SameParts
<1>4. ASSUME Q \in Parents(P) PROVE q \in Parents(p)
  <2>1. Len(Q) \in 1 .. Len(P) - 1 /\ \A i \in 1 .. Len(Q) : Q[i] = P[i]
    <3>1. P \in Seq(Parts)
      BY <1>2
    <3> QED BY ONLY <1>4, <3>1, ParentParts
  <2>2. Len(q) \in 1 .. Len(p) - 1
    BY <1>0, <1>2, <2>1
  <2>3. ASSUME NEW i \in 1 .. Len(q) PROVE q[i] = p[i]
    <3>1. i + 1 \in 1 .. Len(Q) /\ i \in 1 .. Len(p)
      BY <1>0, <1>2, <2>2
    <3>2. Q[i + 1] = P[i + 1]
      BY <2>1, <3>1
    <3> QED BY <1>2, <3>1, <3>2
  <2> QED BY <1>1, <2>2, <2>3, ParentParts
<1>5. P # <<r>>
  <2>0. Len(P) = Len(p) + 1
    BY <1>2
  <2>1. Len(P) # 1
    BY <1>0, <2>0
  <2>2. Len(<<r>>) = 1
    OBVIOUS
  <2> QED BY <2>1, <2>2
<1> QED BY <1>3, <1>4, <1>5 DEF P, Q

\* What is below one root is not below another.
LEMMA RootsApart ==
    ASSUME NEW r \in Parts, NEW p \in Paths
    PROVE  /\ \A q \in Parents(Place(r, p)) : q[1] = r /\ q # <<>>
           /\ <<r>>[1] = r
<1>1. /\ Place(r, p) \in Seq(Parts) /\ Place(r, p)[1] = r
  BY PlaceParts
<1>2. ASSUME NEW q \in Parents(Place(r, p)) PROVE q[1] = r /\ q # <<>>
  <2>1. /\ q \in Seq(Parts) /\ Len(q) \in 1 .. Len(Place(r, p)) - 1
        /\ \A i \in 1 .. Len(q) : q[i] = Place(r, p)[i]
    <3> DEFINE P == Place(r, p)
    <3>1. P \in Seq(Parts) /\ q \in Parents(P)
      BY <1>1, <1>2
    <3> HIDE DEF P
    <3>2. q \in Seq(Parts) /\ Len(q) \in 1 .. Len(P) - 1 /\ \A i \in 1 .. Len(q) : q[i] = P[i]
      BY <3>1, ParentParts
    <3> QED BY <3>2 DEF P
  <2>2. 1 \in 1 .. Len(q)
    BY <2>1
  <2>3. q # <<>>
    BY <2>2
  <2> QED BY <1>1, <2>1, <2>2, <2>3
<1> QED BY <1>2

-----------------------------------------------------------------------------
(* Runs nobody interfered with.                                             *)

Touched == Meddled({"written", "replaced"})
Calm == phase \notin {"plan", "refused"} /\ ~Touched
Running == {"guest", "inspect", "hash", "read", "done"}

\* The files in the order they are created.
InPlace(n) == Place("input", inputs[n].target)
Spot(k) == IF k <= Len(inputs) THEN InPlace(k) ELSE HostPath(k - Len(inputs))

Made ==
    CASE phase = "stageInput" -> item - 1
      [] phase = "copy" -> item
      [] phase = "stageOutput" -> Len(inputs) + item - 1
      [] OTHER -> Len(inputs) + Len(outputs)

\* The tree is what was staged: each file at its spot, with the directories above it.
PlacedInv ==
    /\ Len(file) = Made
    /\ \A k \in DOMAIN file : Spot(k) \in DOMAIN tree /\ tree[Spot(k)] = k /\ file[k].links = 1
    /\ \A p \in DOMAIN tree :
          \/ \E k \in DOMAIN file : tree[p] = k /\ p = Spot(k)
          \/ tree[p] = Dir /\ p \in {<<"input">>, <<"output">>}
          \/ tree[p] = Dir /\ \E k \in DOMAIN file : p \in Parents(Spot(k))
    /\ \A k \in DOMAIN file : \A p \in Parents(Spot(k)) : p \in DOMAIN tree /\ tree[p] = Dir
    /\ \A r \in {"input", "output"} : <<r>> \in DOMAIN tree /\ tree[<<r>>] = Dir

MaximumOf(n) == Maximum(outputs[n])

\* Inputs are within their limits; outputs are empty before the guest runs, and within
\* theirs from then on.
SizeInv ==
    /\ phase \notin {"stageInput", "copy"} => Len(taken) = Len(inputs)
    /\ \A k \in DOMAIN taken : file[k].len = taken[k].len /\ taken[k].len <= limits.inputFileBytes
    /\ SumFunction([n \in DOMAIN taken |-> taken[n].len]) <= limits.inputBytes
    /\ phase = "copy" => /\ file[item].len = copy.len /\ copy.len <= Remaining
                         /\ FromFile => copy.size <= Remaining
    /\ \A k \in DOMAIN file : k > Len(inputs) =>
          IF phase \in Running THEN file[k].len <= fsize
          ELSE file[k].len = 0 /\ file[k].blocks = 0
    /\ phase \in Running => \A n \in DOMAIN outputs : fsize = MaximumOf(n)

\* The outputs were opened as they were created.
HandleInv == \A n \in DOMAIN pinned : pinned[n] = Len(inputs) + n

\* The monitor has counted entries of the output tree, no file for more than it may hold.
ScanInv ==
    /\ phase # "guest" => scan = NoScan
    /\ phase = "guest" =>
          /\ DOMAIN scan = {"seen", "folders", "bytes", "allocated"}
          /\ IsFiniteSet(scan.seen) /\ scan.seen \subseteq Files("output")
          /\ IsFiniteSet(scan.folders) /\ scan.folders \subseteq Folders("output")
          /\ scan.bytes \in Nat /\ scan.allocated \in Nat
          /\ scan.bytes <= Cardinality(scan.seen) * fsize
          /\ scan.allocated <= Cardinality(scan.seen) * (fsize + (Block - 1))

\* The manifest has outputs in their order, none larger than the guest could write.
ListInv ==
    /\ \A k \in DOMAIN manifest : manifest[k].content.len <= fsize
    /\ phase = "hash" => \A k \in DOMAIN manifest : manifest[k].output < item
    /\ \A k, m \in DOMAIN manifest : k < m => manifest[k].output < manifest[m].output

CalmInv == Calm => PlacedInv /\ SizeInv /\ HandleInv /\ ScanInv /\ ListInv

\* An edited source leaves its trace; nobody finds the workspace while it is staged.
EditInv ==
    /\ Len(source) > 1 \/ (phase = "copy" /\ copy.edited) => Meddled({"source", "unseen"})
    /\ phase \in {"plan", "stageInput", "copy", "stageOutput"} => ~Touched
    /\ phase = "plan" => file = <<>> /\ scan = NoScan

-----------------------------------------------------------------------------
(* The steps of such a run.                                                 *)

StageMade ==
    /\ phase = "stageOutput" /\ item \in DOMAIN outputs
    /\ Create(HostPath(item)) /\ file' = Append(file, Empty)
    /\ Go("stageOutput", item + 1) /\ UNCHANGED <<nodeVars, nativeVars>>

TakeMade == phase = "copy" /\ InputTaken

OpenMade ==
    /\ phase = "open" /\ pinned' = Append(pinned, tree[HostPath(item)])
    /\ Go("stat", item + 1)
    /\ UNCHANGED <<tree, file, nodeVars, mounted, fsize, scan, manifest>>

MountMade ==
    /\ phase = "mount" /\ Go("mount", item + 1)
    /\ UNCHANGED <<tree, file, nodeVars, pinned, fsize, scan, manifest>>

ScanMade(p) ==
    /\ phase = "guest"
    /\ \/ /\ p \in Files("output") /\ p \notin scan.seen
          /\ scan' = [seen |-> scan.seen \cup {p}, folders |-> scan.folders,
                      bytes |-> scan.bytes + file[tree[p]].len,
                      allocated |-> scan.allocated + file[tree[p]].blocks]
       \/ /\ p \in Folders("output")
          /\ scan' = [scan EXCEPT !.folders = scan.folders \cup {p}]
    /\ UNCHANGED <<request, phase, item, tree, file, nodeVars, pinned, fsize, manifest>>

ScanOver ==
    /\ phase = "guest" /\ scan' = NoScan
    /\ UNCHANGED <<request, phase, item, tree, file, nodeVars, pinned, fsize, manifest>>

HashMade ==
    /\ phase = "hash" /\ item \in DOMAIN outputs
    /\ manifest' = Append(manifest, [output |-> item, content |-> Content(file[pinned[item]])])
    /\ file[pinned[item]].len <= Maximum(outputs[item])
    /\ Go("hash", item + 1)
    /\ UNCHANGED <<tree, file, nodeVars, pinned, fsize, scan>>

ReadMade ==
    /\ phase = "read" /\ phase' = "read" /\ request' = request
    /\ UNCHANGED <<tree, file, source, copy, taken, nativeVars>>

\* Those that only go on.
Passed(from, to) ==
    /\ phase = from /\ phase' = to /\ request' = request
    /\ UNCHANGED <<tree, file, nodeVars, nativeVars>>

Moves ==
    \/ Passed("stageOutput", "validate") /\ item = Len(outputs) + 1
    \/ Passed("validate", "stat") \/ Passed("stat", "open") \/ Passed("stat", "mount")
    \/ Passed("guest", "inspect") /\ scan = NoScan
    \/ Passed("inspect", "hash")
    \/ Passed("hash", "hash") /\ item' = item + 1
    \/ Passed("hash", "read") \/ Passed("read", "done")

\* Those that change nothing a calm run is about.
Still ==
    /\ copy'.len = copy.len /\ copy'.size = copy.size
    /\ UNCHANGED <<request, phase, item, tree, file, taken, nativeVars>>

CalmStep ==
    \/ BeginInput \/ CopyChunk \/ TakeMade \/ InputsStaged \/ StageMade
    \/ OpenMade \/ MountMade \/ Harden
    \/ (\E p : ScanMade(p)) \/ ScanOver \/ HashMade \/ ReadMade
    \/ Moves \/ Still
    \/ (\E n \in DOMAIN mounted : GuestWrites(n))

LEMMA Untouched ==
    ASSUME TypeInv, [Next]_vars, ~Touched'
    PROVE  /\ ~Touched
           /\ \A p \in Files("output") : ~HostWrites(p)
           /\ \A p : ~HostReplaces(p)
<1>1. Touched => Meddled({"written"}) \/ Meddled({"replaced"})
  BY DEF Touched, Meddled
<1>2. Meddled({"written"})' \/ Meddled({"replaced"})' => Touched'
  BY DEF Touched, Meddled
<1>3. ~Touched
  BY <1>1, <1>2, MeddledStays
<1>4. ASSUME NEW how \in {"written", "replaced"}, Meddle(how) PROVE FALSE
  <2>1. meddled \in Seq(Hows) /\ meddled' = Append(meddled, how)
    BY <1>4 DEF TypeInv, Meddle
  <2>2. Len(meddled) + 1 \in DOMAIN meddled' /\ meddled'[Len(meddled) + 1] = how
    BY <2>1, Appended
  <2> QED BY <2>2 DEF Touched, Meddled
<1> QED BY <1>3, <1>4 DEF HostWrites, HostReplaces

LEMMA CalmSteps ==
    ASSUME TypeInv, [Next]_vars, Calm'
    PROVE  Plan \/ (Calm /\ CalmStep)
<1>1. ~Touched /\ (\A p \in Files("output") : ~HostWrites(p)) /\ \A p : ~HostReplaces(p)
  BY Untouched DEF Calm
<1>2. (\A why : ~Refuse(why)) /\ ~Alarm /\ phase' # "refused" /\ phase' # "plan"
  BY DEF Refuse, Alarm, Calm
<1> DEFINE Goal == Plan \/ CalmStep
<1> USE DEF vars, nodeVars, nativeVars, Skip, Go
<1>3. ASSUME Node PROVE Goal
  <2>1. CASE Plan \/ BeginInput \/ CopyChunk \/ InputsStaged
    BY <2>1 DEF CalmStep
  <2>2. CASE EndInput
    BY <1>2, <2>2 DEF EndInput, CalmStep, TakeMade
  <2>3. CASE StageOutput
    BY <1>2, <2>3 DEF StageOutput, CalmStep, StageMade, HostPath
  <2>4. CASE Staged
    BY <2>4 DEF Staged, CalmStep, Moves, Passed
  <2>5. CASE ReadArtifact
    BY <1>2, <2>5 DEF ReadArtifact, Deliver, CalmStep, ReadMade
  <2>6. CASE Collected
    BY <1>2, <2>6 DEF Collected, CalmStep, Moves, Passed
  <2> QED BY <1>2, <1>3, <2>1, <2>2, <2>3, <2>4, <2>5, <2>6 DEF Node, PlanRefuses, InputCollides,
     InputTooLarge, SourceShrank, ChunkTooLarge, Aborted
<1>4. ASSUME Native PROVE Goal
  <2>1. CASE ValidateInputs \/ StatOutput \/ OutputsPinned
    BY <1>2, <2>1 DEF ValidateInputs, StatOutput, OutputsPinned, CalmStep, Moves, Passed
  <2>2. CASE OpenOutput
    BY <1>2, <2>2 DEF OpenOutput, CalmStep, OpenMade
  <2>3. CASE MountOutput
    BY <1>2, <2>3 DEF MountOutput, CalmStep, MountMade
  <2>4. CASE Harden
    BY <2>4 DEF CalmStep
  <2>5. ASSUME NEW p \in Files("output"), ScanFile(p) PROVE Goal
    <3>1. ScanMade(p)
      BY <1>2, <2>5 DEF ScanFile, ScanGoesOn, ScanMade
    <3> QED BY <3>1 DEF CalmStep
  <2>10. ASSUME NEW p \in Folders("output"), ScanFolder(p) PROVE Goal
    <3>1. ScanMade(p)
      BY <1>2, <2>10 DEF ScanFolder, ScanGoesOn, ScanMade
    <3> QED BY <3>1 DEF CalmStep
  <2>6. CASE ScanDone
    BY <2>6 DEF ScanDone, ScanGoesOn, CalmStep, ScanOver
  <2>7. CASE InspectOutputs
    <3>1. phase = "inspect" /\ Skip("hash", 1)
      BY <1>2, <2>7 DEF InspectOutputs
    <3>2. Passed("inspect", "hash")
      BY <3>1 DEF Passed
    <3> QED BY <3>2 DEF CalmStep, Moves
  <2>9. CASE Answered
    BY <2>9 DEF Answered, CalmStep, Moves, Passed
  <2>8. CASE HashOutput
    <3>1. (Passed("hash", "hash") /\ item' = item + 1) \/ HashMade
      BY <1>2, <2>8 DEF HashOutput, Passed, HashMade
    <3> QED BY <3>1 DEF CalmStep, Moves
  <2> QED BY <1>4, <2>1, <2>2, <2>3, <2>4, <2>5, <2>6, <2>7, <2>8, <2>9, <2>10 DEF Native
<1>5. ASSUME NEW n \in DOMAIN mounted, GuestWrites(n) \/ GuestPreallocates(n) PROVE Goal
  <2>1. CASE GuestWrites(n)
    BY <2>1 DEF CalmStep
  <2>2. CASE GuestPreallocates(n)
    BY <2>2, FilterRight DEF GuestPreallocates, Wrote, CalmStep, Still
  <2> QED BY <1>5, <2>1, <2>2
<1>6. ASSUME GuestEnds PROVE Goal
  BY <1>6 DEF GuestEnds, CalmStep, Moves, Passed
<1>7. ASSUME SourceEdited \/ HostLoosens PROVE Goal
  <2>1. copy'.len = copy.len /\ copy'.size = copy.size
    BY <1>7 DEF SourceEdited, HostLoosens, TypeInv
  <2> QED BY <1>7, <2>1 DEF SourceEdited, HostLoosens, Meddle, CalmStep, Still
<1>8. ASSUME UNCHANGED vars PROVE Goal
  BY <1>8 DEF CalmStep, Still
<1> HIDE DEF Goal
<1>9. Goal
  BY <1>1, <1>3, <1>4, <1>5, <1>6, <1>7, <1>8 DEF Next
<1>10. phase = "plan" /\ CalmStep => Plan
  <2>1. ASSUME phase = "plan", CalmStep PROVE FALSE
    <3>1. ~Still
      BY <1>2, <2>1 DEF Still
    <3> QED BY <2>1, <3>1 DEF CalmStep, BeginInput, Staging, CopyChunk, TakeMade, InputsStaged,
       StageMade, OpenMade, MountMade, Harden, ScanMade, ScanOver, HashMade, ReadMade, Moves,
       Passed, GuestWrites
  <2> QED BY <2>1
<1>11. phase = "refused" /\ CalmStep => FALSE
  <2>1. ASSUME phase = "refused", CalmStep PROVE FALSE
    <3>1. ~Still
      BY <1>2, <2>1 DEF Still
    <3> QED BY <2>1, <3>1 DEF CalmStep, BeginInput, Staging, CopyChunk, TakeMade, InputsStaged,
       StageMade, OpenMade, MountMade, Harden, ScanMade, ScanOver, HashMade, ReadMade, Moves,
       Passed, GuestWrites
  <2> QED BY <2>1
<1> QED BY <1>1, <1>9, <1>10, <1>11 DEF Goal, Calm

-----------------------------------------------------------------------------
(* The tree of such a run is what was staged.                               *)

\* Where the k-th file goes.
LEMMA SpotParts ==
    ASSUME TypeInv, NEW k \in 1 .. Len(inputs) + Len(outputs)
    PROVE  /\ k <= Len(inputs) => k \in DOMAIN inputs /\ Spot(k) = Place("input", inputs[k].target)
                                  /\ inputs[k].target \in Paths
           /\ k > Len(inputs) => /\ k - Len(inputs) \in DOMAIN outputs
                                 /\ Spot(k) = HostPath(k - Len(inputs))
                                 /\ Spot(k) = Place("output", outputs[k - Len(inputs)].path)
                                 /\ outputs[k - Len(inputs)].path \in Paths
           /\ Spot(k) \in Seq(Parts) /\ Spot(k) # <<>>
           /\ Spot(k)[1] = IF k <= Len(inputs) THEN "input" ELSE "output"
           /\ Len(Spot(k)) = 1 => Spot(k) = <<"input">> \/ Spot(k) = <<"output">>
<1>1. /\ DOMAIN inputs = 1 .. Len(inputs) /\ Len(inputs) \in Nat
      /\ DOMAIN outputs = 1 .. Len(outputs) /\ Len(outputs) \in Nat
      /\ \A n \in DOMAIN outputs : outputs[n].path \in Paths
      /\ \A n \in DOMAIN inputs : inputs[n].target \in Paths
  BY RequestType
<1>2. CASE k <= Len(inputs)
  <2>1. k \in DOMAIN inputs /\ ~(k > Len(inputs))
    BY <1>1, <1>2
  <2>2. Spot(k) = Place("input", inputs[k].target) /\ inputs[k].target \in Paths
    BY <1>1, <1>2, <2>1 DEF Spot, InPlace
  <2> DEFINE t == inputs[k].target
  <2> HIDE DEF t
  <2>0. t \in Paths
    BY <2>2 DEF t
  <2>3. "input" \in Parts
    BY DEF Parts
  <2>4. /\ Place("input", t) \in Seq(Parts) /\ Len(Place("input", t)) \in Nat \ {0}
        /\ Place("input", t)[1] = "input"
        /\ Len(Place("input", t)) = 1 => Place("input", t) = <<"input">>
    BY <2>0, <2>3, PlaceParts
  <2>5. Place("input", t) # <<>>
    BY <2>4
  <2> QED BY <1>2, <2>1, <2>2, <2>4, <2>5 DEF t
<1>3. CASE ~(k <= Len(inputs))
  <2>1. k - Len(inputs) \in DOMAIN outputs /\ k > Len(inputs)
    BY <1>1, <1>3
  <2>2. /\ Spot(k) = HostPath(k - Len(inputs))
        /\ Spot(k) = Place("output", outputs[k - Len(inputs)].path)
        /\ outputs[k - Len(inputs)].path \in Paths
    BY <1>1, <1>3, <2>1 DEF Spot, HostPath
  <2> DEFINE t == outputs[k - Len(inputs)].path
  <2> HIDE DEF t
  <2>0. t \in Paths
    BY <2>2 DEF t
  <2>3. "output" \in Parts
    BY DEF Parts
  <2>4. /\ Place("output", t) \in Seq(Parts) /\ Len(Place("output", t)) \in Nat \ {0}
        /\ Place("output", t)[1] = "output"
        /\ Len(Place("output", t)) = 1 => Place("output", t) = <<"output">>
    BY <2>0, <2>3, PlaceParts
  <2>5. Place("output", t) # <<>>
    BY <2>4
  <2> QED BY <1>3, <2>1, <2>2, <2>4, <2>5 DEF t
<1> QED BY <1>2, <1>3

\* How many files there are, and how many there will be.
LEMMA MadeBound ==
    ASSUME TypeInv, ItemInv, phase \notin {"plan", "refused"}
    PROVE  /\ Made \in 0 .. Len(inputs) + Len(outputs)
           /\ phase = "stageInput" /\ item <= Len(inputs) => Made = item - 1
           /\ phase \notin {"stageInput", "copy", "stageOutput"} => Made = Len(inputs) + Len(outputs)
<1>1. Len(inputs) \in Nat /\ Len(outputs) \in Nat /\ item \in Nat \ {0}
  BY RequestType DEF TypeInv
<1>2. CASE phase = "stageInput"
  BY <1>1, <1>2 DEF ItemInv, Made
<1>3. CASE phase = "copy"
  BY <1>1, <1>3 DEF ItemInv, Made
<1>4. CASE phase = "stageOutput"
  BY <1>1, <1>4 DEF ItemInv, Made
<1>5. CASE phase \notin {"stageInput", "copy", "stageOutput"}
  <2>1. Made = Len(inputs) + Len(outputs)
    BY <1>5 DEF Made
  <2> QED BY <1>1, <1>5, <2>1
<1> QED BY <1>2, <1>3, <1>4, <1>5

LEMMA SpotStays ==
    ASSUME request' = request
    PROVE  \A k : Spot(k)' = Spot(k)
BY DEF Spot, InPlace, HostPath, inputs, outputs

\* Nothing is created.
LEMMA PlacedStays ==
    ASSUME PlacedInv, request' = request, tree' = tree, Made' = Made,
           DOMAIN file' = DOMAIN file, Len(file') = Len(file),
           \A k \in DOMAIN file : file'[k].links = file[k].links
    PROVE  PlacedInv'
<1>1. \A k : Spot(k)' = Spot(k)
  BY SpotStays
<1>2. Len(file') = Made'
  BY DEF PlacedInv
<1>3. \A k \in DOMAIN file' : /\ Spot(k)' \in DOMAIN tree' /\ tree'[Spot(k)'] = k
                              /\ file'[k].links = 1
  BY <1>1 DEF PlacedInv
<1>4. ASSUME NEW p \in DOMAIN tree'
      PROVE  \/ \E k \in DOMAIN file' : tree'[p] = k /\ p = Spot(k)'
             \/ tree'[p] = Dir /\ p \in {<<"input">>, <<"output">>}
             \/ tree'[p] = Dir /\ \E k \in DOMAIN file' : p \in Parents(Spot(k)')
  <2>1. \/ \E k \in DOMAIN file : tree[p] = k /\ p = Spot(k)
        \/ tree[p] = Dir /\ p \in {<<"input">>, <<"output">>}
        \/ tree[p] = Dir /\ \E k \in DOMAIN file : p \in Parents(Spot(k))
    BY DEF PlacedInv
  <2> QED BY <1>1, <2>1
<1>5. \A k \in DOMAIN file' : \A p \in Parents(Spot(k)') : p \in DOMAIN tree' /\ tree'[p] = Dir
  BY <1>1 DEF PlacedInv
<1>6. \A r \in {"input", "output"} : <<r>> \in DOMAIN tree' /\ tree'[<<r>>] = Dir
  BY DEF PlacedInv
<1> QED BY <1>2, <1>3, <1>4, <1>5, <1>6 DEF PlacedInv

LEMMA NotOwnParent ==
    ASSUME NEW p \in Seq(Parts)
    PROVE  p \notin Parents(p)
<1>1. ASSUME p \in Parents(p) PROVE FALSE
  <2>1. Len(p) \in 1 .. Len(p) - 1
    BY <1>1, ParentParts
  <2>2. Len(p) \in Nat
    OBVIOUS
  <2> QED BY <2>1, <2>2
<1> QED BY <1>1

\* The next file is created.
LEMMA PlacedMore ==
    ASSUME TypeInv, PlacedInv, request' = request, Made' = Made + 1,
           NEW at \in Seq(Parts), Create(at), at = Spot(Len(file) + 1),
           file' = Append(file, Empty)
    PROVE  PlacedInv'
<1>n. PICK n : n = Len(file) + 1
  OBVIOUS
<1>0. /\ Len(file) \in Nat /\ DOMAIN file = 1 .. Len(file) /\ DOMAIN file' = 1 .. n
      /\ Len(file') = n /\ file'[n] = Empty /\ \A k \in 1 .. Len(file) : file'[k] = file[k]
  <2>1. file \in Seq(Inode) /\ Empty \in Inode
    BY InodeTypes DEF TypeInv
  <2>2. /\ Append(file, Empty) \in Seq(Inode) /\ Len(Append(file, Empty)) = Len(file) + 1
        /\ Append(file, Empty)[Len(file) + 1] = Empty
        /\ \A k \in 1 .. Len(file) : Append(file, Empty)[k] = file[k]
        /\ DOMAIN Append(file, Empty) = 1 .. Len(file) + 1 /\ DOMAIN file = 1 .. Len(file)
        /\ Len(file) \in Nat
    BY <2>1, Appended
  <2> QED BY <1>n, <2>2
<1>1. \A k : Spot(k)' = Spot(k)
  BY SpotStays
<1>2. /\ at \notin DOMAIN tree /\ \A d \in Parents(at) : d \in DOMAIN tree => tree[d] = Dir
      /\ tree' = [p \in DOMAIN tree \cup Parents(at) \cup {at} |->
                    IF p = at THEN n ELSE IF p \in Parents(at) THEN Dir ELSE tree[p]]
  BY <1>n DEF Create, DirsFree
<1>3. at \notin Parents(at)
  BY NotOwnParent
<1>4. /\ DOMAIN tree' = DOMAIN tree \cup Parents(at) \cup {at} /\ tree'[at] = n
      /\ \A p \in Parents(at) : tree'[p] = Dir
      /\ \A p \in DOMAIN tree : tree'[p] = tree[p]
  BY <1>2, <1>3
<1>5. n \in Nat \ {0} /\ Dir = 0 /\ n \in DOMAIN file' /\ \A k \in DOMAIN file : k \in DOMAIN file'
  BY <1>n, <1>0 DEF Dir
<1>6. \A k \in DOMAIN file' : k \in DOMAIN file \/ k = n
  BY <1>0
<1>7. Empty.links = 1
  BY DEF Empty
<1>8. Len(file') = Made'
  BY <1>0, <1>n DEF PlacedInv
<1>9. ASSUME NEW k \in DOMAIN file'
      PROVE  Spot(k)' \in DOMAIN tree' /\ tree'[Spot(k)'] = k /\ file'[k].links = 1
  <2>1. CASE k \in DOMAIN file
    <3>1. Spot(k) \in DOMAIN tree /\ tree[Spot(k)] = k /\ file[k].links = 1
      BY <2>1 DEF PlacedInv
    <3> QED BY <1>0, <1>1, <1>4, <2>1, <3>1
  <2>2. CASE k = n
    BY <1>n, <1>0, <1>1, <1>4, <1>7, <2>2
  <2> QED BY <1>6, <2>1, <2>2
<1>10. ASSUME NEW p \in DOMAIN tree'
       PROVE  \/ \E k \in DOMAIN file' : tree'[p] = k /\ p = Spot(k)'
              \/ tree'[p] = Dir /\ p \in {<<"input">>, <<"output">>}
              \/ tree'[p] = Dir /\ \E k \in DOMAIN file' : p \in Parents(Spot(k)')
  <2>1. CASE p = at
    <3>1. tree'[at] = n /\ at = Spot(n)
      BY <1>n, <1>4
    <3>2. Spot(n)' = Spot(n)
      BY <1>1
    <3> QED BY <1>5, <2>1, <3>1, <3>2
  <2>2. CASE p \in Parents(at)
    <3>1. tree'[p] = Dir /\ at = Spot(n)
      BY <1>n, <1>4, <2>2
    <3>2. Spot(n)' = Spot(n)
      BY <1>1
    <3> QED BY <1>5, <2>2, <3>1, <3>2
  <2>3. CASE p \in DOMAIN tree
    <3>1. \/ \E k \in DOMAIN file : tree[p] = k /\ p = Spot(k)
          \/ tree[p] = Dir /\ p \in {<<"input">>, <<"output">>}
          \/ tree[p] = Dir /\ \E k \in DOMAIN file : p \in Parents(Spot(k))
      BY <2>3 DEF PlacedInv
    <3>2. tree'[p] = tree[p]
      BY <1>4, <2>3
    <3> QED BY <1>1, <1>5, <3>1, <3>2
  <2> QED BY <1>4, <2>1, <2>2, <2>3
<1>11. \A r \in {"input", "output"} : <<r>> \in DOMAIN tree' /\ tree'[<<r>>] = Dir
  BY <1>4 DEF PlacedInv
<1>12. ASSUME NEW k \in DOMAIN file', NEW p \in Parents(Spot(k)')
       PROVE  p \in DOMAIN tree' /\ tree'[p] = Dir
  <2>1. CASE k \in DOMAIN file
    <3>1. p \in DOMAIN tree /\ tree[p] = Dir
      BY <1>1, <2>1 DEF PlacedInv
    <3> QED BY <1>4, <3>1
  <2>2. CASE k = n
    <3>1. Spot(k)' = at
      BY <1>n, <1>1, <2>2
    <3> QED BY <1>4, <3>1
  <2> QED BY <1>6, <2>1, <2>2
<1> QED BY <1>8, <1>9, <1>10, <1>11, <1>12 DEF PlacedInv

LEMMA CreatedSpot ==
    ASSUME TypeInv, ItemInv, PlacedInv, phase \notin {"plan", "refused"}
    PROVE  /\ BeginInput => /\ Target = Spot(Len(file) + 1) /\ Target \in Seq(Parts)
                            /\ item \in 1 .. Len(inputs) /\ Len(file) = item - 1
                            /\ phase = "stageInput"
           /\ StageMade => /\ HostPath(item) = Spot(Len(file) + 1)
                           /\ HostPath(item) \in Seq(Parts)
                           /\ Len(file) = Len(inputs) + item - 1 /\ item \in 1 .. Len(outputs)
<1>1. /\ DOMAIN inputs = 1 .. Len(inputs) /\ Len(inputs) \in Nat
      /\ DOMAIN outputs = 1 .. Len(outputs) /\ Len(outputs) \in Nat
      /\ item \in Nat \ {0} /\ Len(file) = Made
  BY RequestType DEF TypeInv, PlacedInv
<1>2. ASSUME BeginInput
      PROVE  /\ Target = Spot(Len(file) + 1) /\ Target \in Seq(Parts)
             /\ item \in 1 .. Len(inputs) /\ Len(file) = item - 1 /\ phase = "stageInput"
  <2>1. phase = "stageInput" /\ item \in 1 .. Len(inputs) /\ Len(file) = item - 1
    BY <1>1, <1>2 DEF BeginInput, Staging, Made
  <2>2. item \in 1 .. Len(inputs) + Len(outputs) /\ Len(file) + 1 = item /\ item <= Len(inputs)
    BY <1>1, <2>1
  <2>3. Spot(item) = Place("input", inputs[item].target) /\ Spot(item) \in Seq(Parts)
    BY <2>2, SpotParts
  <2> QED BY <2>1, <2>2, <2>3 DEF Target
<1>3. ASSUME StageMade
      PROVE  /\ HostPath(item) = Spot(Len(file) + 1) /\ HostPath(item) \in Seq(Parts)
             /\ Len(file) = Len(inputs) + item - 1 /\ item \in 1 .. Len(outputs)
  <2>1. item \in 1 .. Len(outputs) /\ Len(file) = Len(inputs) + item - 1
    BY <1>1, <1>3 DEF StageMade, Made
  <2> DEFINE k == Len(file) + 1
  <2>2. k \in 1 .. Len(inputs) + Len(outputs) /\ k > Len(inputs) /\ k - Len(inputs) = item
    BY <1>1, <2>1
  <2> HIDE DEF k
  <2>3. Spot(k) = HostPath(item) /\ Spot(k) \in Seq(Parts)
    BY <2>2, SpotParts
  <2> QED BY <2>1, <2>3 DEF k
<1> QED BY <1>2, <1>3

-----------------------------------------------------------------------------
(* Each step of such a run keeps what is known of it.                       *)

LEMMA CalmRequest ==
    ASSUME CalmStep
    PROVE  request' = request
BY DEF CalmStep, BeginInput, CopyChunk, TakeMade, InputTaken, InputsStaged, StageMade, OpenMade,
   MountMade, Harden, ScanMade, ScanOver, HashMade, ReadMade, Moves, Passed, Still, GuestWrites,
   Wrote, Go

\* Which steps create or write a file.
LEMMA CalmFiles ==
    ASSUME CalmStep
    PROVE  \/ BeginInput \/ StageMade \/ CopyChunk
           \/ \E n \in DOMAIN mounted : GuestWrites(n)
           \/ tree' = tree /\ file' = file
BY DEF CalmStep, TakeMade, InputTaken, InputsStaged, OpenMade,
   MountMade, Harden, ScanMade, ScanOver, HashMade, ReadMade, Moves, Passed, Still

LEMMA MadeSteps ==
    ASSUME TypeInv, ItemInv, CalmStep
    PROVE  /\ BeginInput \/ StageMade => Made' = Made + 1
           /\ BeginInput \/ StageMade \/ Made' = Made
<1>1. Len(inputs) \in Nat /\ Len(outputs) \in Nat /\ item \in Nat \ {0}
  BY RequestType DEF TypeInv
<1>2. inputs' = inputs /\ outputs' = outputs
  BY CalmRequest DEF inputs, outputs
<1>3. ASSUME BeginInput PROVE Made' = Made + 1
  BY <1>1, <1>3 DEF BeginInput, Staging, Go, Made
<1>4. ASSUME StageMade PROVE Made' = Made + 1
  BY <1>1, <1>2, <1>4 DEF StageMade, Go, Made
<1>5. ASSUME phase' = phase /\ item' = item PROVE Made' = Made
  BY <1>2, <1>5 DEF Made
<1>6. ASSUME CopyChunk \/ TakeMade PROVE Made' = Made
  <2>1. phase = "copy" /\ \/ phase' = "copy" /\ item' = item
                          \/ phase' = "stageInput" /\ item' = item + 1
    BY <1>6 DEF CopyChunk, TakeMade, InputTaken, Go
  <2> QED BY <1>1, <2>1 DEF Made
<1>7. ASSUME InputsStaged PROVE Made' = Made
  BY <1>1, <1>2, <1>7 DEF InputsStaged, Go, Made
<1>8. ASSUME phase \notin {"stageInput", "copy", "stageOutput"},
             phase' \notin {"stageInput", "copy", "stageOutput"}
      PROVE  Made' = Made
  BY <1>2, <1>8 DEF Made
<1>9. ASSUME OpenMade \/ MountMade \/ Harden \/ HashMade \/ ReadMade PROVE Made' = Made
  <2>1. /\ phase \notin {"stageInput", "copy", "stageOutput"}
        /\ phase' \notin {"stageInput", "copy", "stageOutput"}
    BY <1>9 DEF OpenMade, MountMade, Harden, HashMade, ReadMade, Go
  <2> QED BY <1>8, <2>1
<1>10. ASSUME Moves PROVE Made' = Made
  <2>1. CASE Passed("stageOutput", "validate") /\ item = Len(outputs) + 1
    BY <1>1, <1>2, <2>1 DEF Passed, Made
  <2>2. CASE ~(Passed("stageOutput", "validate") /\ item = Len(outputs) + 1)
    <3>1. /\ phase \notin {"stageInput", "copy", "stageOutput"}
          /\ phase' \notin {"stageInput", "copy", "stageOutput"}
      BY <1>10, <2>2 DEF Moves, Passed
    <3> QED BY <1>8, <3>1
  <2> QED BY <2>1, <2>2
<1>11. ASSUME Still \/ (\E p : ScanMade(p)) \/ \E n \in DOMAIN mounted : GuestWrites(n) PROVE Made' = Made
  BY <1>5, <1>11 DEF Still, ScanMade, GuestWrites, Wrote
<1>12. ASSUME ScanOver PROVE Made' = Made
  BY <1>5, <1>12 DEF ScanOver
<1> QED BY <1>3, <1>4, <1>6, <1>7, <1>9, <1>10, <1>11, <1>12 DEF CalmStep

\* What the guest writes is an output's file.
LEMMA GuestFile ==
    ASSUME TypeInv, PinInv, HandleInv, NEW n \in DOMAIN mounted, GuestWrites(n)
    PROVE  /\ tree' = tree /\ phase = "guest" /\ n \in Nat \ {0}
           /\ Len(inputs) + n \in 1 .. Len(file)
           /\ \E f \in Inode : /\ file' = [file EXCEPT ![Len(inputs) + n] = f]
                               /\ f.links = file[Len(inputs) + n].links /\ f.len <= fsize
<1>1. /\ file \in Seq(Inode) /\ \A k \in 1 .. Len(file) : file[k] \in Inode
      /\ DOMAIN mounted = 1 .. Len(mounted) /\ DOMAIN pinned = 1 .. Len(pinned)
      /\ Len(mounted) \in Nat /\ Len(pinned) \in Nat
      /\ mounted[n] \in 1 .. Len(file)
  BY Elements DEF TypeInv
<1>2. n \in DOMAIN pinned
  BY <1>1 DEF PinInv
<1>3. mounted[n] = Len(inputs) + n
  BY <1>2 DEF PinInv, HandleInv
<1>4. PICK c \in Contents, sparse \in BOOLEAN :
        /\ c.len <= fsize
        /\ file' = [file EXCEPT ![mounted[n]] =
                      [@ EXCEPT !.len = c.len, !.data = c.data,
                                !.blocks = IF sparse THEN 0 ELSE BlocksOf(c.len)]]
  BY DEF GuestWrites, Wrote
<1> DEFINE b == IF sparse THEN 0 ELSE BlocksOf(c.len)
           g == file[mounted[n]]
           f == [g EXCEPT !.len = c.len, !.data = c.data, !.blocks = b]
<1>5. c \in Written
  BY InodeTypes
<1>6. c.len \in Nat /\ c.data \in 0 .. 1
  BY <1>5 DEF Written
<1>7. b \in Nat
  BY <1>6, BlocksBound
<1>8. g \in Inode /\ file' = [file EXCEPT ![mounted[n]] = f]
  BY <1>1, <1>4
<1> HIDE DEF b, g
<1>9. f \in Inode /\ f.links = g.links /\ f.len = c.len
  BY <1>6, <1>7, <1>8 DEF Inode
<1> HIDE DEF f
<1>10. tree' = tree /\ phase = "guest" /\ n \in Nat \ {0}
  BY <1>1 DEF GuestWrites, Wrote
<1> QED BY <1>1, <1>3, <1>4, <1>8, <1>9, <1>10 DEF g

LEMMA NextPlaced ==
    ASSUME TypeInv, ItemInv, PinInv, PlacedInv, HandleInv, phase \notin {"plan", "refused"}, CalmStep
    PROVE  PlacedInv'
<1>1. request' = request
  BY CalmRequest
<1>2. file \in Seq(Inode) /\ Len(file) \in Nat /\ DOMAIN file = 1 .. Len(file)
  BY Elements DEF TypeInv
<1>3. CASE BeginInput
  <2>1. Target = Spot(Len(file) + 1) /\ Target \in Seq(Parts)
    BY <1>3, CreatedSpot
  <2>2. Create(Target) /\ file' = Append(file, Empty)
    BY <1>3 DEF BeginInput
  <2>3. Made' = Made + 1
    BY <1>3, MadeSteps
  <2> QED BY <1>1, <2>1, <2>2, <2>3, PlacedMore
<1>4. CASE StageMade
  <2>1. HostPath(item) = Spot(Len(file) + 1) /\ HostPath(item) \in Seq(Parts)
    BY <1>4, CreatedSpot
  <2>2. Create(HostPath(item)) /\ file' = Append(file, Empty)
    BY <1>4 DEF StageMade
  <2>3. Made' = Made + 1
    BY <1>4, MadeSteps
  <2> QED BY <1>1, <2>1, <2>2, <2>3, PlacedMore
<1>5. CASE ~BeginInput /\ ~StageMade
  <2>1. Made' = Made
    BY <1>5, MadeSteps
  <2>2. CASE tree' = tree /\ file' = file
    BY <1>1, <2>1, <2>2, PlacedStays
  <2>3. CASE CopyChunk
    <3>1. tree' = tree /\ file' = [file EXCEPT ![Len(file)] = Grow(file[Len(file)], copy.len + 1)]
      BY <2>3 DEF CopyChunk
    <3>2. Len(file) = item /\ item \in Nat \ {0}
      BY <2>3 DEF CopyChunk, PlacedInv, Made, TypeInv
    <3>3. Len(file) \in DOMAIN file /\ file[Len(file)] \in Inode
      BY <1>2, <3>2, Elements
    <3>4. Grow(file[Len(file)], copy.len + 1).links = file[Len(file)].links
      BY <3>3 DEF Grow, Inode
    <3>5. /\ DOMAIN file' = DOMAIN file /\ Len(file') = Len(file)
          /\ \A k \in DOMAIN file : file'[k].links = file[k].links
      BY <1>2, <3>1, <3>3, <3>4
    <3> QED BY <1>1, <2>1, <3>1, <3>5, PlacedStays
  <2>4. ASSUME NEW n \in DOMAIN mounted, GuestWrites(n) PROVE PlacedInv'
    <3>1. PICK f \in Inode : /\ file' = [file EXCEPT ![Len(inputs) + n] = f]
                             /\ f.links = file[Len(inputs) + n].links
      BY <2>4, GuestFile
    <3>2. tree' = tree /\ Len(inputs) + n \in 1 .. Len(file)
      BY <2>4, GuestFile
    <3>5. /\ DOMAIN file' = DOMAIN file /\ Len(file') = Len(file)
          /\ \A k \in DOMAIN file : file'[k].links = file[k].links
      <4> DEFINE j == Len(inputs) + n
      <4> HIDE DEF j
      <4>1. file' = [file EXCEPT ![j] = f] /\ f.links = file[j].links /\ j \in DOMAIN file
        BY <1>2, <3>1, <3>2 DEF j
      <4> QED BY <1>2, <4>1
    <3> QED BY <1>1, <2>1, <3>2, <3>5, PlacedStays
  <2> QED BY <1>5, <2>2, <2>3, <2>4, CalmFiles
<1> QED BY <1>3, <1>4, <1>5

\* An output's file is the one created for it.
LEMMA OutputFile ==
    ASSUME TypeInv, ItemInv, PlacedInv, NEW n \in DOMAIN outputs,
           phase \notin {"plan", "refused", "stageInput", "copy", "stageOutput"}
    PROVE  /\ n \in Nat \ {0} /\ Len(inputs) \in Nat
           /\ Len(inputs) + n \in DOMAIN file /\ Len(inputs) + n > Len(inputs)
           /\ HostPath(n) = Spot(Len(inputs) + n)
           /\ HostPath(n) \in DOMAIN tree
           /\ tree[HostPath(n)] = Len(inputs) + n
           /\ file[Len(inputs) + n].links = 1
<1>1. /\ DOMAIN outputs = 1 .. Len(outputs) /\ Len(outputs) \in Nat /\ Len(inputs) \in Nat
  BY RequestType
<1>2. Len(file) = Len(inputs) + Len(outputs) /\ DOMAIN file = 1 .. Len(file)
  BY MadeBound, Elements DEF PlacedInv, TypeInv
<1>3. n \in 1 .. Len(outputs)
  BY <1>1
<1> DEFINE k == Len(inputs) + n
<1>4. k \in 1 .. Len(inputs) + Len(outputs) /\ k > Len(inputs) /\ k - Len(inputs) = n /\ n \in Nat \ {0}
  BY <1>1, <1>3
<1>5. k \in DOMAIN file
  BY <1>2, <1>4
<1> HIDE DEF k
<1>6. Spot(k) = HostPath(n)
  BY <1>4, SpotParts
<1>7. Spot(k) \in DOMAIN tree /\ tree[Spot(k)] = k /\ file[k].links = 1
  BY <1>5 DEF PlacedInv
<1> QED BY <1>1, <1>4, <1>5, <1>6, <1>7 DEF k

LEMMA NextHandle ==
    ASSUME TypeInv, ItemInv, PinInv, PlacedInv, HandleInv, phase \notin {"plan", "refused"}, CalmStep
    PROVE  HandleInv'
<1>1. inputs' = inputs
  BY CalmRequest DEF inputs
<1>2. CASE pinned' = pinned
  BY <1>1, <1>2 DEF HandleInv
<1>3. CASE OpenMade
  <2>1. phase = "open" /\ pinned' = Append(pinned, tree[HostPath(item)]) /\ Len(pinned) = item - 1
    BY <1>3 DEF OpenMade, PinInv
  <2>2. item \in 1 .. Len(outputs) /\ item \in Nat /\ DOMAIN outputs = 1 .. Len(outputs)
    BY <2>1, RequestType DEF ItemInv, TypeInv
  <2>3. tree[HostPath(item)] = Len(inputs) + item /\ Len(inputs) + item \in DOMAIN file
    BY <2>1, <2>2, OutputFile
  <2>4. pinned \in Seq(1 .. Len(file)) /\ DOMAIN file = 1 .. Len(file)
    BY Elements DEF TypeInv
  <2> DEFINE S == 1 .. Len(file)
             x == tree[HostPath(item)]
  <2>5. pinned \in Seq(S) /\ x \in S /\ pinned' = Append(pinned, x)
    BY <2>1, <2>3, <2>4
  <2> HIDE DEF S, x
  <2>6. /\ DOMAIN pinned' = 1 .. Len(pinned) + 1 /\ pinned'[Len(pinned) + 1] = x
        /\ \A k \in 1 .. Len(pinned) : pinned'[k] = pinned[k]
        /\ DOMAIN pinned = 1 .. Len(pinned) /\ Len(pinned) \in Nat
    BY <2>5, Appended
  <2>7. \A k \in DOMAIN pinned' : k \in DOMAIN pinned \/ k = item
    BY <2>1, <2>2, <2>6
  <2>8. pinned'[item] = Len(inputs) + item
    BY <2>1, <2>2, <2>3, <2>6 DEF x
  <2>9. \A k \in DOMAIN pinned : pinned'[k] = Len(inputs) + k
    BY <2>6 DEF HandleInv
  <2> QED BY <1>1, <2>7, <2>8, <2>9 DEF HandleInv
<1>4. pinned' = pinned \/ OpenMade
  BY DEF CalmStep, BeginInput, CopyChunk, TakeMade, InputTaken, InputsStaged, StageMade,
     MountMade, Harden, ScanMade, ScanOver, HashMade, ReadMade, Moves, Passed, Still, GuestWrites,
     Wrote, nativeVars
<1> QED BY <1>2, <1>3, <1>4

\* The lengths of the staged inputs, and what is left for the one being staged.
TakenBytes == SumFunction([n \in DOMAIN taken |-> taken[n].len])

LEMMA TakenType ==
    ASSUME TypeInv
    PROVE  /\ TakenBytes \in Nat
           /\ DOMAIN taken = 1 .. Len(taken) /\ Len(taken) \in Nat
           /\ \A k \in DOMAIN taken : taken[k].len \in Nat
           /\ limits.inputBytes \in Nat /\ limits.inputFileBytes \in Nat
           /\ Remaining = MinOf(limits.inputFileBytes, limits.inputBytes - TakenBytes)
<1> DEFINE f == [n \in DOMAIN taken |-> taken[n].len]
<1>1. /\ DOMAIN taken = 1 .. Len(taken) /\ Len(taken) \in Nat
      /\ \A k \in DOMAIN taken : taken[k].len \in Nat
  <2>1. taken \in Seq([len : Nat, from : SUBSET Nat])
    BY DEF TypeInv
  <2>2. /\ DOMAIN taken = 1 .. Len(taken) /\ Len(taken) \in Nat
        /\ \A k \in DOMAIN taken : taken[k] \in [len : Nat, from : SUBSET Nat]
    BY <2>1, Elements
  <2> QED BY <2>2
<1>2. IsFiniteSet(DOMAIN taken)
  BY <1>1, FS_Interval
<1>3. DOMAIN f = DOMAIN taken /\ \A k \in DOMAIN taken : f[k] \in Nat
  BY <1>1
<1> HIDE DEF f
<1>4. SumFunctionOnSet(f, DOMAIN f) \in Nat
  BY <1>2, <1>3, SumNat
<1>5. TakenBytes \in Nat
  BY <1>4 DEF TakenBytes, SumFunction, f
<1>6. limits.inputBytes \in Nat /\ limits.inputFileBytes \in Nat
  BY RequestType DEF Limits
<1>7. Remaining = MinOf(limits.inputFileBytes, limits.inputBytes - TakenBytes)
  BY DEF Remaining, TakenBytes
<1> QED BY <1>1, <1>5, <1>6, <1>7

LEMMA TakenGrows ==
    ASSUME TypeInv, TypeInv', InputTaken
    PROVE  TakenBytes' = TakenBytes + copy.len
<1> DEFINE r == [len |-> copy.len, from |-> copy.from]
           D == DOMAIN taken
           f == [n \in D |-> taken[n].len]
           n == Len(taken) + 1
           g == [k \in D \cup {n} |-> taken'[k].len]
<1>1. taken' = Append(taken, r)
  BY DEF InputTaken
<1>2. taken \in Seq([len : Nat, from : SUBSET Nat]) /\ r \in [len : Nat, from : SUBSET Nat]
  BY DEF TypeInv
<1>3. r.len = copy.len
  OBVIOUS
<1> HIDE DEF r
<1>4. /\ taken'[n] = r /\ \A k \in 1 .. Len(taken) : taken'[k] = taken[k]
      /\ DOMAIN taken' = 1 .. n /\ D = 1 .. Len(taken) /\ Len(taken) \in Nat
  BY <1>1, <1>2, Appended
<1>5. DOMAIN taken' = D \cup {n} /\ n \notin D
  BY <1>4
<1>6. IsFiniteSet(D)
  BY <1>4, FS_Interval
<1>7. \A k \in D \cup {n} : taken'[k].len \in Nat
  <2>1. \A k \in D : taken'[k].len \in Nat
    BY <1>4, TakenType
  <2>2. copy.len \in Nat
    BY DEF TypeInv
  <2> QED BY <1>3, <1>4, <2>1, <2>2
<1>8. \A k \in D : g[k] = f[k]
  BY <1>4
<1>9. DOMAIN f = D /\ DOMAIN g = D \cup {n} /\ g[n] = copy.len
        /\ \A k \in D \cup {n} : g[k] \in Nat
  BY <1>3, <1>4, <1>7
<1>10. TakenBytes = SumFunction(f) /\ TakenBytes' = SumFunction(g)
  BY <1>5 DEF TakenBytes
<1> HIDE DEF D, f, n, g
<1>11. SumFunctionOnSet(g, D \cup {n}) = g[n] + SumFunctionOnSet(g, D)
  BY <1>5, <1>6, <1>9, SumAdd DEF Terms
<1>12. SumFunctionOnSet(g, D) = SumFunctionOnSet(f, D)
  BY <1>6, <1>8, <1>9, SumSame DEF Terms
<1>13. SumFunctionOnSet(g, D) \in Nat /\ copy.len \in Nat
  BY <1>6, <1>9, SumNat
<1> QED BY <1>9, <1>10, <1>11, <1>12, <1>13 DEF SumFunction

\* Where the lengths of files, and what bounds them, stay.
LEMMA SizeStays ==
    ASSUME SizeInv, request' = request, file' = file, taken' = taken, fsize' = fsize,
           phase' \notin {"stageInput", "copy"}, phase \notin {"stageInput", "copy"},
           phase' \in Running <=> phase \in Running
    PROVE  SizeInv'
<1>1. inputs' = inputs /\ outputs' = outputs /\ limits' = limits
  BY DEF inputs, outputs, limits
<1>2. \A n : MaximumOf(n)' = MaximumOf(n)
  BY <1>1 DEF Maximum, MaximumOf
<1>3. Running' = Running
  BY DEF Running
<1> QED BY <1>1, <1>2, <1>3 DEF SizeInv

LEMMA SizeBegins ==
    ASSUME TypeInv, TypeInv', ItemInv, SourceInv, PlacedInv, SizeInv, BeginInput
    PROVE  SizeInv'
<1>1. /\ request' = request /\ taken' = taken /\ phase' = "copy" /\ item' = item
      /\ phase = "stageInput" /\ ~TooLarge /\ file' = Append(file, Empty)
      /\ copy'.len = 0 /\ copy'.size = Last(source)
  BY DEF BeginInput, Staging, Go
<1>2. inputs' = inputs /\ outputs' = outputs /\ limits' = limits
  BY <1>1 DEF inputs, outputs, limits
<1>3. item \in 1 .. Len(inputs) /\ Len(file) = item - 1 /\ Len(inputs) \in Nat
  BY CreatedSpot, RequestType, <1>1
<1>4. /\ DOMAIN file' = 1 .. item /\ file'[item] = Empty
      /\ \A k \in 1 .. item - 1 : file'[k] = file[k]
  <2>1. file \in Seq(Inode) /\ Empty \in Inode
    BY InodeTypes DEF TypeInv
  <2>2. /\ file'[Len(file) + 1] = Empty /\ DOMAIN file' = 1 .. Len(file) + 1
        /\ \A k \in 1 .. Len(file) : file'[k] = file[k]
    BY <1>1, <2>1, Appended
  <2> QED BY <1>3, <2>2
<1>5. DOMAIN taken = 1 .. item - 1
  BY <1>1, TakenType DEF SourceInv
<1>6. Remaining' = Remaining /\ FromFile' = FromFile /\ 0 <= Remaining /\ Remaining \in Int
  <2>1. Remaining' = Remaining /\ FromFile' = FromFile
    BY <1>1, <1>2 DEF Remaining, FromFile
  <2>2. TakenBytes <= limits.inputBytes
    BY DEF SizeInv, TakenBytes
  <2> QED BY <2>1, <2>2, TakenType DEF MinOf
<1>7. Last(source) \in Nat
  BY LastIs DEF TypeInv
<1>8. FromFile' => copy'.size <= Remaining'
  BY <1>1, <1>6, <1>7 DEF TooLarge
<1>9. file'[item'].len = copy'.len /\ copy'.len <= Remaining'
  <2>1. Empty.len = 0
    BY DEF Empty
  <2>2. file'[item].len = 0
    BY <1>4, <2>1
  <2> QED BY <1>1, <1>6, <2>2
<1>10. \A k \in DOMAIN taken' : file'[k].len = taken'[k].len /\ taken'[k].len <= limits'.inputFileBytes
  BY <1>1, <1>2, <1>4, <1>5 DEF SizeInv
<1>11. SumFunction([n \in DOMAIN taken' |-> taken'[n].len]) <= limits'.inputBytes
  BY <1>1, <1>2 DEF SizeInv
<1>12. \A k \in DOMAIN file' : ~(k > Len(inputs'))
  BY <1>2, <1>3, <1>4
<1>13. phase' \notin Running'
  BY <1>1 DEF Running
<1> QED BY <1>1, <1>8, <1>9, <1>10, <1>11, <1>12, <1>13 DEF SizeInv

\* The last file is the input being copied.
LEMMA Copying ==
    ASSUME TypeInv, ItemInv, PlacedInv, phase = "copy"
    PROVE  /\ item \in 1 .. Len(inputs) /\ Len(file) = item /\ Len(inputs) \in Nat
           /\ DOMAIN file = 1 .. item
<1>1. Len(inputs) \in Nat /\ item \in Nat \ {0}
  BY RequestType DEF TypeInv
<1>2. item <= Len(inputs)
  BY DEF ItemInv
<1>3. Len(file) = item
  BY DEF PlacedInv, Made
<1>4. file \in Seq(Inode)
  BY DEF TypeInv
<1>5. DOMAIN file = 1 .. Len(file)
  BY <1>4, Elements
<1> QED BY <1>1, <1>2, <1>3, <1>5

LEMMA SizeCopies ==
    ASSUME TypeInv, TypeInv', ItemInv, SourceInv, PlacedInv, SizeInv, CopyChunk
    PROVE  SizeInv'
<1>1. /\ request' = request /\ taken' = taken /\ phase' = "copy" /\ item' = item
      /\ phase = "copy"
      /\ copy.len < IF FromFile THEN MinOf(copy.size, Last(source)) ELSE Remaining
      /\ file' = [file EXCEPT ![Len(file)] = Grow(file[Len(file)], copy.len + 1)]
      /\ copy' = [copy EXCEPT !.len = copy.len + 1, !.from = copy.from \cup {Len(source)}]
  BY DEF CopyChunk, Go
<1>2. inputs' = inputs /\ outputs' = outputs /\ limits' = limits
  BY <1>1 DEF inputs, outputs, limits
<1>3. item \in 1 .. Len(inputs) /\ Len(file) = item /\ Len(inputs) \in Nat
  BY <1>1, Copying
<1>4. copy.len \in Nat /\ copy.size \in Nat /\ copy'.len = copy.len + 1 /\ copy'.size = copy.size
  BY <1>1 DEF TypeInv
<1>5. /\ DOMAIN file' = 1 .. item /\ file'[item].len = copy.len + 1
      /\ \A k \in 1 .. item - 1 : file'[k] = file[k]
  <2>1. file \in Seq(Inode) /\ item \in DOMAIN file /\ file[item] \in Inode
        /\ DOMAIN file = 1 .. item
    BY <1>3, Elements DEF TypeInv
  <2>2. Grow(file[item], copy.len + 1).len = copy.len + 1
    BY <2>1 DEF Grow, Inode
  <2> DEFINE g == Grow(file[item], copy.len + 1)
  <2>3. file' = [file EXCEPT ![item] = g] /\ g.len = copy.len + 1
    BY <1>1, <1>3, <2>2
  <2> HIDE DEF g
  <2> QED BY <1>3, <2>1, <2>3
<1>6. DOMAIN taken = 1 .. item - 1
  BY <1>1, TakenType DEF SourceInv
<1>7. Remaining' = Remaining /\ FromFile' = FromFile /\ Remaining \in Int
  <2>1. Remaining' = Remaining /\ FromFile' = FromFile
    BY <1>1, <1>2 DEF Remaining, FromFile
  <2> QED BY <2>1, TakenType DEF MinOf
<1>8. FromFile => copy.size <= Remaining
  BY <1>1 DEF SizeInv
<1>9. copy.len + 1 <= Remaining
  <2>1. CASE FromFile
    <3>1. Last(source) \in Nat
      BY LastIs DEF TypeInv
    <3>2. copy.len < copy.size
      BY <1>1, <1>4, <2>1, <3>1 DEF MinOf
    <3> QED BY <1>4, <1>7, <1>8, <2>1, <3>2
  <2>2. CASE ~FromFile
    BY <1>1, <1>4, <1>7, <2>2
  <2> QED BY <2>1, <2>2
<1>10. \A k \in DOMAIN taken' : file'[k].len = taken'[k].len /\ taken'[k].len <= limits'.inputFileBytes
  BY <1>1, <1>2, <1>5, <1>6 DEF SizeInv
<1>11. SumFunction([n \in DOMAIN taken' |-> taken'[n].len]) <= limits'.inputBytes
  BY <1>1, <1>2 DEF SizeInv
<1>12. \A k \in DOMAIN file' : ~(k > Len(inputs'))
  BY <1>2, <1>3, <1>5
<1>13. phase' \notin Running'
  BY <1>1 DEF Running
<1>14. /\ file'[item'].len = copy'.len /\ copy'.len <= Remaining'
       /\ FromFile' => copy'.size <= Remaining'
  BY <1>1, <1>4, <1>5, <1>7, <1>8, <1>9
<1> QED BY <1>1, <1>10, <1>11, <1>12, <1>13, <1>14 DEF SizeInv

LEMMA SizeTaken ==
    ASSUME TypeInv, TypeInv', ItemInv, SourceInv, PlacedInv, SizeInv, TakeMade
    PROVE  SizeInv'
<1>1. /\ request' = request /\ file' = file /\ phase' = "stageInput" /\ phase = "copy" /\ InputTaken
      /\ taken' = Append(taken, [len |-> copy.len, from |-> copy.from])
  BY DEF TakeMade, InputTaken, Go
<1>2. inputs' = inputs /\ outputs' = outputs /\ limits' = limits
  BY <1>1 DEF inputs, outputs, limits
<1>3. item \in 1 .. Len(inputs) /\ Len(file) = item /\ Len(inputs) \in Nat /\ DOMAIN file = 1 .. item
  BY <1>1, Copying
<1>4. copy.len \in Nat /\ copy.from \in SUBSET Nat
  BY DEF TypeInv
<1>5. Len(taken) = item - 1 /\ file[item].len = copy.len /\ copy.len <= Remaining
  BY <1>1 DEF SourceInv, SizeInv
<1>6. /\ DOMAIN taken' = 1 .. item /\ taken'[item].len = copy.len
      /\ \A k \in 1 .. item - 1 : taken'[k] = taken[k]
      /\ DOMAIN taken = 1 .. item - 1
  <2> DEFINE r == [len |-> copy.len, from |-> copy.from]
             S == [len : Nat, from : SUBSET Nat]
  <2>1. taken \in Seq(S) /\ r \in S /\ r.len = copy.len /\ taken' = Append(taken, r)
    BY <1>1, <1>4 DEF TypeInv
  <2> HIDE DEF r, S
  <2>2. /\ taken'[Len(taken) + 1] = r /\ DOMAIN taken' = 1 .. Len(taken) + 1
        /\ \A k \in 1 .. Len(taken) : taken'[k] = taken[k]
        /\ DOMAIN taken = 1 .. Len(taken)
    BY <2>1, Appended
  <2> QED BY <1>3, <1>5, <2>1, <2>2
<1>7. TakenBytes <= limits.inputBytes
  BY DEF SizeInv, TakenBytes
<1>8. copy.len <= limits.inputFileBytes /\ copy.len + TakenBytes <= limits.inputBytes
  BY <1>4, <1>5, TakenType DEF MinOf
<1>9. TakenBytes' <= limits'.inputBytes
  BY <1>1, <1>2, <1>4, <1>8, TakenGrows, TakenType
<1>10. \A k \in DOMAIN taken' : k = item \/ k \in DOMAIN taken
  BY <1>3, <1>6
<1>11. \A k \in DOMAIN taken' : file'[k].len = taken'[k].len /\ taken'[k].len <= limits'.inputFileBytes
  BY <1>1, <1>2, <1>5, <1>6, <1>8, <1>10 DEF SizeInv
<1>12. SumFunction([n \in DOMAIN taken' |-> taken'[n].len]) <= limits'.inputBytes
  BY <1>9 DEF TakenBytes
<1>13. \A k \in DOMAIN file' : ~(k > Len(inputs'))
  BY <1>1, <1>2, <1>3
<1>14. phase' \notin Running'
  BY <1>1 DEF Running
<1> QED BY <1>1, <1>11, <1>12, <1>13, <1>14 DEF SizeInv

LEMMA SizeStaged ==
    ASSUME TypeInv, ItemInv, SourceInv, PlacedInv, SizeInv, InputsStaged
    PROVE  SizeInv'
<1>1. /\ request' = request /\ taken' = taken /\ file' = file /\ phase' = "stageOutput"
      /\ phase = "stageInput" /\ item = Len(inputs) + 1
  BY DEF InputsStaged, Go, nodeVars
<1>2. inputs' = inputs /\ limits' = limits
  BY <1>1 DEF inputs, limits
<1>3. Len(inputs) \in Nat
  BY RequestType
<1>4. Len(taken) = Len(inputs) /\ Len(file) = Len(inputs)
  BY <1>1, <1>3 DEF SourceInv, PlacedInv, Made
<1>5. file \in Seq(Inode)
  BY DEF TypeInv
<1>6. DOMAIN file = 1 .. Len(inputs)
  BY <1>4, <1>5, Elements
<1>7. \A k \in DOMAIN file' : ~(k > Len(inputs'))
  BY <1>1, <1>2, <1>3, <1>6
<1>8. phase' \notin Running'
  BY <1>1 DEF Running
<1> QED BY <1>1, <1>2, <1>4, <1>7, <1>8 DEF SizeInv

LEMMA SizeMade ==
    ASSUME TypeInv, ItemInv, PlacedInv, SizeInv, StageMade
    PROVE  SizeInv'
<1>1. /\ request' = request /\ taken' = taken /\ file' = Append(file, Empty)
      /\ phase = "stageOutput" /\ phase' = "stageOutput"
  BY DEF StageMade, Go, nodeVars
<1>2. inputs' = inputs /\ limits' = limits
  BY <1>1 DEF inputs, limits
<1>3. /\ Len(inputs) \in Nat /\ Len(taken) = Len(inputs)
      /\ DOMAIN taken = 1 .. Len(inputs) /\ Len(inputs) <= Len(file)
  <2>1. Len(file) = Len(inputs) + item - 1 /\ item \in 1 .. Len(outputs)
    BY <1>1, CreatedSpot
  <2>2. Len(inputs) \in Nat /\ Len(outputs) \in Nat
    BY RequestType
  <2>3. Len(taken) = Len(inputs)
    BY <1>1 DEF SizeInv
  <2> QED BY <2>1, <2>2, <2>3, TakenType
<1>4. /\ DOMAIN file' = 1 .. Len(file) + 1 /\ file'[Len(file) + 1] = Empty
      /\ \A k \in 1 .. Len(file) : file'[k] = file[k]
      /\ DOMAIN file = 1 .. Len(file) /\ Len(file) \in Nat
  <2>1. file \in Seq(Inode) /\ Empty \in Inode
    BY InodeTypes DEF TypeInv
  <2> QED BY <1>1, <2>1, Appended
<1>5. phase \notin Running /\ phase' \notin Running'
  BY <1>1 DEF Running
<1>6. \A k \in DOMAIN file' : k \in DOMAIN file \/ k = Len(file) + 1
  BY <1>4
<1>7. ASSUME NEW k \in DOMAIN file', k > Len(inputs')
      PROVE  file'[k].len = 0 /\ file'[k].blocks = 0
  <2>1. CASE k \in DOMAIN file
    <3>1. file[k].len = 0 /\ file[k].blocks = 0
      BY <1>2, <1>5, <1>7, <2>1 DEF SizeInv
    <3> QED BY <1>4, <2>1, <3>1
  <2>2. CASE k = Len(file) + 1
    <3>1. Empty.len = 0 /\ Empty.blocks = 0
      BY DEF Empty
    <3> QED BY <1>4, <2>2, <3>1
  <2> QED BY <1>6, <2>1, <2>2
<1>8. \A k \in DOMAIN taken : k \in 1 .. Len(file)
  BY <1>3, <1>4
<1>9. \A k \in DOMAIN taken' : file'[k].len = taken'[k].len /\ taken'[k].len <= limits'.inputFileBytes
  BY <1>1, <1>2, <1>4, <1>8 DEF SizeInv
<1>10. SumFunction([n \in DOMAIN taken' |-> taken'[n].len]) <= limits'.inputBytes
  BY <1>1, <1>2 DEF SizeInv
<1> QED BY <1>1, <1>2, <1>3, <1>5, <1>7, <1>9, <1>10 DEF SizeInv

LEMMA SizeHardens ==
    ASSUME TypeInv, ItemInv, SizeInv, Harden
    PROVE  SizeInv'
<1>1. /\ request' = request /\ taken' = taken /\ file' = file
      /\ phase = "mount" /\ phase' = "guest"
      /\ fsize' = IF outputs = <<>> THEN 0 ELSE Maximum(outputs[1])
  BY DEF Harden, Go, nodeVars
<1>2. inputs' = inputs /\ outputs' = outputs /\ limits' = limits
  BY <1>1 DEF inputs, outputs, limits
<1>3. \A k : MaximumOf(k)' = MaximumOf(k)
  BY <1>2 DEF Maximum, MaximumOf
<1>4. /\ \A n \in DOMAIN outputs : Maximum(outputs[n]) = Maximum(outputs[1])
      /\ outputs # <<>> => 1 \in DOMAIN outputs
  BY <1>1, Accepted
<1>5. /\ \A n \in DOMAIN outputs : Maximum(outputs[n]) \in Nat \ {0}
      /\ outputs = <<>> => DOMAIN outputs = {}
  BY RequestType
<1>6. \A n \in DOMAIN outputs : fsize' = MaximumOf(n)
  BY <1>1, <1>4, <1>5 DEF MaximumOf
<1>7. fsize' \in Nat
  BY <1>1, <1>4, <1>5
<1>8. phase \notin Running /\ phase' \in Running'
  BY <1>1 DEF Running
<1>9. \A k \in DOMAIN file' : k > Len(inputs') => file'[k].len <= fsize'
  <2>1. \A k \in DOMAIN file : k > Len(inputs) => file[k].len = 0
    BY <1>8 DEF SizeInv
  <2> QED BY <1>1, <1>2, <1>7, <2>1
<1>10. \A n \in DOMAIN outputs' : fsize' = MaximumOf(n)'
  BY <1>2, <1>3, <1>6
<1>11. /\ phase' \notin {"stageInput", "copy"} => Len(taken') = Len(inputs')
       /\ \A k \in DOMAIN taken' : file'[k].len = taken'[k].len /\ taken'[k].len <= limits'.inputFileBytes
       /\ SumFunction([n \in DOMAIN taken' |-> taken'[n].len]) <= limits'.inputBytes
       /\ phase' # "copy"
  BY <1>1, <1>2 DEF SizeInv
<1> QED BY <1>8, <1>9, <1>10, <1>11 DEF SizeInv

LEMMA SizeWritten ==
    ASSUME TypeInv, PinInv, HandleInv, SizeInv, NEW n \in DOMAIN mounted, GuestWrites(n)
    PROVE  SizeInv'
<1>1. /\ request' = request /\ taken' = taken /\ fsize' = fsize
      /\ phase = "guest" /\ phase' = "guest"
  BY DEF GuestWrites, Wrote, nodeVars, nativeVars
<1>2. inputs' = inputs /\ outputs' = outputs /\ limits' = limits
  BY <1>1 DEF inputs, outputs, limits
<1>3. \A k : MaximumOf(k)' = MaximumOf(k)
  BY <1>2 DEF Maximum, MaximumOf
<1>4. PICK f \in Inode : file' = [file EXCEPT ![Len(inputs) + n] = f] /\ f.len <= fsize
  BY GuestFile
<1>5. Len(inputs) + n \in 1 .. Len(file) /\ n \in Nat \ {0} /\ Len(inputs) \in Nat
  BY GuestFile, RequestType
<1>6. file \in Seq(Inode) /\ DOMAIN file = 1 .. Len(file)
  BY Elements DEF TypeInv
<1>7. /\ DOMAIN file' = DOMAIN file
      /\ \A k \in DOMAIN file : k # Len(inputs) + n => file'[k] = file[k]
      /\ file'[Len(inputs) + n] = f
  <2> DEFINE j == Len(inputs) + n
  <2> HIDE DEF j
  <2>1. file' = [file EXCEPT ![j] = f] /\ j \in DOMAIN file
    BY <1>4, <1>5, <1>6 DEF j
  <2>2. /\ DOMAIN file' = DOMAIN file /\ file'[j] = f
        /\ \A k \in DOMAIN file : k # j => file'[k] = file[k]
    BY <2>1
  <2> QED BY <2>2 DEF j
<1>8. phase \in Running /\ phase' \in Running'
  BY <1>1 DEF Running
<1>9. Len(taken) = Len(inputs) /\ DOMAIN taken = 1 .. Len(inputs)
  <2>1. Len(taken) = Len(inputs)
    BY <1>1 DEF SizeInv
  <2> QED BY <2>1, TakenType
<1>10. \A k \in DOMAIN taken : k \in DOMAIN file /\ k # Len(inputs) + n
  BY <1>5, <1>6, <1>9
<1>11. \A k \in DOMAIN taken' : file'[k].len = taken'[k].len /\ taken'[k].len <= limits'.inputFileBytes
  BY <1>1, <1>2, <1>7, <1>10 DEF SizeInv
<1>12. \A k \in DOMAIN file' : k > Len(inputs') => file'[k].len <= fsize'
  BY <1>1, <1>2, <1>4, <1>7, <1>8 DEF SizeInv
<1>13. \A m \in DOMAIN outputs' : fsize' = MaximumOf(m)'
  BY <1>1, <1>2, <1>3, <1>8 DEF SizeInv
<1>14. SumFunction([m \in DOMAIN taken' |-> taken'[m].len]) <= limits'.inputBytes
  BY <1>1, <1>2 DEF SizeInv
<1> QED BY <1>1, <1>2, <1>8, <1>9, <1>11, <1>12, <1>13, <1>14 DEF SizeInv

LEMMA NextSize ==
    ASSUME TypeInv, TypeInv', ItemInv, SourceInv, PinInv, PlacedInv, HandleInv, SizeInv,
           phase \notin {"plan", "refused"}, CalmStep
    PROVE  SizeInv'
<1>1. CASE BeginInput \/ CopyChunk \/ TakeMade \/ InputsStaged \/ StageMade \/ Harden
  BY <1>1, SizeBegins, SizeCopies, SizeTaken, SizeStaged, SizeMade, SizeHardens
<1>2. ASSUME NEW n \in DOMAIN mounted, GuestWrites(n) PROVE SizeInv'
  BY <1>2, SizeWritten
<1>3. CASE OpenMade \/ MountMade \/ HashMade \/ ReadMade
  <2>1. /\ request' = request /\ file' = file /\ taken' = taken /\ fsize' = fsize
        /\ phase' \notin {"stageInput", "copy"} /\ phase \notin {"stageInput", "copy"}
        /\ phase' \in Running <=> phase \in Running
    BY <1>3 DEF OpenMade, MountMade, HashMade, ReadMade, Go, Running, nodeVars, nativeVars
  <2> QED BY <2>1, SizeStays
<1>4. CASE (\E p : ScanMade(p)) \/ ScanOver
  <2>1. /\ request' = request /\ file' = file /\ taken' = taken /\ fsize' = fsize
        /\ phase' \notin {"stageInput", "copy"} /\ phase \notin {"stageInput", "copy"}
        /\ phase' \in Running <=> phase \in Running
    BY <1>4 DEF ScanMade, ScanOver, Running, nodeVars
  <2> QED BY <2>1, SizeStays
<1>5. CASE Moves
  <2>1. /\ request' = request /\ file' = file /\ taken' = taken /\ fsize' = fsize
        /\ phase' \notin {"stageInput", "copy"} /\ phase \notin {"stageInput", "copy"}
        /\ phase' \in Running <=> phase \in Running
    BY <1>5 DEF Moves, Passed, Running, nodeVars, nativeVars
  <2> QED BY <2>1, SizeStays
<1>6. CASE Still
  <2>1. /\ request' = request /\ phase' = phase /\ item' = item /\ file' = file
        /\ copy'.len = copy.len /\ copy'.size = copy.size /\ taken' = taken /\ fsize' = fsize
    BY <1>6 DEF Still, nativeVars
  <2>2. inputs' = inputs /\ outputs' = outputs /\ limits' = limits
    BY <2>1 DEF inputs, outputs, limits
  <2>3. Remaining' = Remaining /\ FromFile' = FromFile /\ \A k : MaximumOf(k)' = MaximumOf(k)
    BY <2>1, <2>2 DEF Remaining, FromFile, Maximum, MaximumOf
  <2>4. Running' = Running
    BY DEF Running
  <2> QED BY <2>1, <2>2, <2>3, <2>4 DEF SizeInv
<1> QED BY <1>1, <1>2, <1>3, <1>4, <1>5, <1>6 DEF CalmStep

-----------------------------------------------------------------------------
\* An entry of the output tree is an output's file.
LEMMA EntryFile ==
    ASSUME TypeInv, ItemInv, PlacedInv, NEW p \in Files("output"),
           phase \notin {"plan", "refused", "stageInput", "copy", "stageOutput"}
    PROVE  /\ tree[p] \in DOMAIN file /\ tree[p] > Len(inputs) /\ p = Spot(tree[p])
           /\ tree[p] - Len(inputs) \in DOMAIN outputs /\ p = HostPath(tree[p] - Len(inputs))
           /\ tree[p] # Symlink /\ tree[p] > 0 /\ file[tree[p]].links = 1
<1>1. p \in DOMAIN tree /\ p[1] = "output" /\ tree[p] # Dir
  BY DEF Files
<1>2. PICK k \in DOMAIN file : tree[p] = k /\ p = Spot(k)
  BY <1>1 DEF PlacedInv
<1>3. Len(inputs) \in Nat /\ Len(outputs) \in Nat
  BY RequestType
<1>4. file \in Seq(Inode) /\ Len(file) = Len(inputs) + Len(outputs)
  BY MadeBound DEF PlacedInv, TypeInv
<1>5. DOMAIN file = 1 .. Len(file)
  BY <1>4, Elements
<1>6. k \in 1 .. Len(inputs) + Len(outputs)
  BY <1>2, <1>4, <1>5
<1>7. Spot(k)[1] = IF k <= Len(inputs) THEN "input" ELSE "output"
  BY <1>6, SpotParts
<1>8. ~(k <= Len(inputs))
  BY <1>1, <1>2, <1>7
<1>9. k > Len(inputs)
  BY <1>3, <1>6, <1>8
<1>10. k - Len(inputs) \in DOMAIN outputs /\ Spot(k) = HostPath(k - Len(inputs))
  BY <1>6, <1>9, SpotParts
<1>11. k > 0 /\ k # Symlink
  BY <1>6 DEF Symlink
<1>12. file[k].links = 1
  BY <1>2 DEF PlacedInv
<1> QED BY <1>2, <1>9, <1>10, <1>11, <1>12

LEMMA LongerThanOne ==
    ASSUME NEW S, NEW s \in Seq(S), s # <<>>, Len(s) # 1
    PROVE  Len(s) > 1
<1> DEFINE k == Len(s)
<1>1. k \in Nat \ {0} /\ k # 1
  BY EmptySeq
<1> HIDE DEF k
<1>2. k > 1
  BY <1>1
<1> QED BY <1>2 DEF k

\* The entries of a tree, and how many they are.
LEMMA EntriesOf ==
    ASSUME TypeInv, ItemInv, PlacedInv, NEW root \in {"input", "output"},
           phase \notin {"plan", "refused", "stageInput", "copy", "stageOutput"}
    PROVE  LET ks == IF root = "input" THEN 1 .. Len(inputs)
                     ELSE Len(inputs) + 1 .. Len(inputs) + Len(outputs)
               h == [k \in ks |-> Spot(k)]
           IN  /\ ks \subseteq DOMAIN file /\ IsFiniteSet(ks)
               /\ Cardinality(ks) = IF root = "input" THEN Len(inputs) ELSE Len(outputs)
               /\ h \in [ks -> Files(root)]
               /\ \A p \in Files(root) : \E k \in ks : h[k] = p
               /\ \A k, m \in ks : h[k] = h[m] => k = m
               /\ IsFiniteSet(Files(root)) /\ Cardinality(Files(root)) = Cardinality(ks)
               /\ \A k \in ks : tree[h[k]] = k
               /\ \A p \in Files(root) : tree[p] # Symlink
<1> DEFINE ks == IF root = "input" THEN 1 .. Len(inputs)
                 ELSE Len(inputs) + 1 .. Len(inputs) + Len(outputs)
           h == [k \in ks |-> Spot(k)]
           i == Len(inputs)
           o == Len(outputs)
<1>1. i \in Nat /\ o \in Nat
  BY RequestType
<1>2. file \in Seq(Inode) /\ Len(file) = i + o
  BY MadeBound DEF PlacedInv, TypeInv
<1>3. DOMAIN file = 1 .. i + o
  BY <1>2, Elements
<1>4. /\ ks \subseteq 1 .. i + o
      /\ \A k \in 1 .. i + o : k \in ks <=> (root = IF k <= i THEN "input" ELSE "output")
  BY <1>1
<1>5. IsFiniteSet(ks) /\ Cardinality(ks) = IF root = "input" THEN i ELSE o
  <2> HIDE DEF i, o
  <2>1. IsFiniteSet(1 .. i) /\ IsFiniteSet(i + 1 .. i + o)
    BY <1>1, FS_Interval
  <2>2. Cardinality(1 .. i) = IF 1 > i THEN 0 ELSE i - 1 + 1
    BY <1>1, FS_Interval
  <2>3. Cardinality(i + 1 .. i + o) = IF i + 1 > i + o THEN 0 ELSE (i + o) - (i + 1) + 1
    BY <1>1, FS_Interval
  <2>4. Cardinality(1 .. i) = i
    BY <1>1, <2>2
  <2>5. Cardinality(i + 1 .. i + o) = o
    BY <1>1, <2>3
  <2> QED BY <2>1, <2>4, <2>5 DEF i, o
<1> HIDE DEF ks
<1>6. ASSUME NEW k \in ks
      PROVE  Spot(k) \in Files(root) /\ tree[Spot(k)] = k /\ k \in 1 .. i + o
  <2>1. k \in 1 .. i + o /\ k \in DOMAIN file
    BY <1>3, <1>4
  <2>2. Spot(k) \in DOMAIN tree /\ tree[Spot(k)] = k
    BY <2>1 DEF PlacedInv
  <2>3. tree[Spot(k)] # Dir
    BY <2>1, <2>2 DEF Dir
  <2>4. /\ Spot(k) \in Seq(Parts) /\ Spot(k) # <<>>
        /\ Spot(k)[1] = IF k <= i THEN "input" ELSE "output"
        /\ Len(Spot(k)) = 1 => Spot(k) = <<"input">> \/ Spot(k) = <<"output">>
    BY <2>1, SpotParts
  <2>5. Len(Spot(k)) # 1
    BY <2>2, <2>3, <2>4 DEF PlacedInv
  <2>6. Len(Spot(k)) > 1
    BY <2>4, <2>5, LongerThanOne
  <2>7. Spot(k)[1] = root
    BY <1>4, <2>1, <2>4
  <2> QED BY <2>1, <2>2, <2>3, <2>6, <2>7 DEF Files
<1>7. ASSUME NEW p \in Files(root)
      PROVE  /\ \E k \in ks : Spot(k) = p
             /\ tree[p] # Symlink
  <2>1. p \in DOMAIN tree /\ p[1] = root /\ tree[p] # Dir
    BY DEF Files
  <2>2. PICK k \in DOMAIN file : tree[p] = k /\ p = Spot(k)
    BY <2>1 DEF PlacedInv
  <2>3. Spot(k)[1] = IF k <= i THEN "input" ELSE "output"
    BY <1>3, SpotParts
  <2>4. k \in ks
    BY <1>3, <1>4, <2>1, <2>2, <2>3
  <2>5. k # Symlink
    BY <1>3 DEF Symlink
  <2> QED BY <2>2, <2>4, <2>5
<1>8. h \in [ks -> Files(root)]
  BY <1>6
<1>9. \A p \in Files(root) : \E k \in ks : h[k] = p
  BY <1>7
<1>10. \A k \in ks : tree[h[k]] = k
  BY <1>6
<1>11. \A k, m \in ks : h[k] = h[m] => k = m
  BY <1>10
<1> HIDE DEF h
<1>12. h \in Bijection(ks, Files(root))
  BY <1>8, <1>9, <1>11 DEF Bijection, Injection, Surjection, IsInjective
<1>13. IsFiniteSet(Files(root)) /\ Cardinality(Files(root)) = Cardinality(ks)
  BY <1>5, <1>12, FS_Bijection DEF ExistsBijection
<1>14. ks \subseteq DOMAIN file
  BY <1>3, <1>4
<1> QED BY <1>5, <1>7, <1>8, <1>9, <1>10, <1>11, <1>13, <1>14 DEF ks, h

LEMMA ParentsFinite ==
    ASSUME NEW S, NEW s \in Seq(S)
    PROVE  IsFiniteSet(Parents(s))
<1> DEFINE D == 1 .. Len(s) - 1
           f == [n \in D |-> SubSeq(s, 1, n)]
           P == Parents(s)
<1>1. f \in Surjection(D, P)
  BY DEF Surjection, Parents
<1>2. Len(s) - 1 \in Int /\ 1 \in Int
  OBVIOUS
<1> HIDE DEF f, P
<1>3. IsFiniteSet(D)
  BY <1>2, FS_Interval
<1> HIDE DEF D
<1>4. IsFiniteSet(P)
  BY <1>1, <1>3, FS_Surjection
<1> QED BY <1>4 DEF P

\* The directories above some paths are finitely many.
LEMMA AboveFinite ==
    ASSUME NEW r \in Parts, NEW n \in Nat, NEW paths \in [1 .. n -> Paths]
    PROVE  LET A == Above(r, {paths[k] : k \in 1 .. n}) IN IsFiniteSet(A) /\ Cardinality(A) \in Nat
<1> DEFINE D == 1 .. n
           f == [k \in D |-> Parents(Place(r, paths[k]))]
           P == {Parents(Place(r, p)) : p \in {paths[k] : k \in D}}
           A == Above(r, {paths[k] : k \in D})
<1>1. f \in Surjection(D, P)
  BY DEF Surjection
<1>2. \A q \in P : IsFiniteSet(q)
  BY PlaceParts, ParentsFinite
<1>3. A \in SUBSET UNION P
  BY DEF Above
<1> HIDE DEF A, P, f
<1>4. IsFiniteSet(D)
  <2>1. 1 \in Int /\ n \in Int
    OBVIOUS
  <2> QED BY <2>1, FS_Interval
<1>5. IsFiniteSet(P)
  BY <1>1, <1>4, FS_Surjection
<1>6. IsFiniteSet(UNION P)
  BY <1>2, <1>5, FS_UNION
<1>7. IsFiniteSet(A) /\ Cardinality(A) \in Nat
  BY <1>3, <1>6, FS_Subset, FS_CardinalityType
<1> QED BY <1>7 DEF A, D

\* The directories of a tree are those above its files.
Under(root) == IF root = "input" THEN Above("input", TargetPaths) ELSE Above("output", OutputPaths)

LEMMA FoldersOf ==
    ASSUME TypeInv, ItemInv, PlacedInv, NEW root \in {"input", "output"},
           phase \notin {"plan", "refused", "stageInput", "copy", "stageOutput"}
    PROVE  /\ Folders(root) = Under(root)
           /\ IsFiniteSet(Folders(root)) /\ Cardinality(Folders(root)) \in Nat
<1> DEFINE i == Len(inputs)
           o == Len(outputs)
           ins == [n \in 1 .. i |-> inputs[n].target]
           outs == [n \in 1 .. o |-> outputs[n].path]
<1>1. /\ i \in Nat /\ o \in Nat /\ DOMAIN inputs = 1 .. i /\ DOMAIN outputs = 1 .. o
      /\ ins \in [1 .. i -> Paths] /\ outs \in [1 .. o -> Paths]
  BY RequestType
<1>2. file \in Seq(Inode) /\ Len(file) = i + o
  BY MadeBound DEF PlacedInv, TypeInv
<1>3. DOMAIN file = 1 .. i + o
  BY <1>2, Elements
<1>4. "input" \in Parts /\ "output" \in Parts
  BY DEF Parts
<1>5. TargetPaths = {ins[n] : n \in 1 .. i} /\ OutputPaths = {outs[n] : n \in 1 .. o}
  BY <1>1 DEF TargetPaths, OutputPaths
<1>6. \A k \in 1 .. i : Spot(k) = Place("input", ins[k]) /\ k \in 1 .. i + o
  <2>1. ASSUME NEW k \in 1 .. i PROVE Spot(k) = Place("input", ins[k]) /\ k \in 1 .. i + o
    <3>1. k \in 1 .. i + o /\ k <= i
      BY <1>1
    <3> QED BY <3>1, SpotParts
  <2> QED BY <2>1
<1>7. \A k \in 1 .. o : Spot(i + k) = Place("output", outs[k]) /\ i + k \in 1 .. i + o
  <2>1. ASSUME NEW k \in 1 .. o PROVE Spot(i + k) = Place("output", outs[k]) /\ i + k \in 1 .. i + o
    <3> DEFINE j == i + k
    <3>1. j \in 1 .. i + o /\ j > i /\ j - i = k
      BY <1>1
    <3> HIDE DEF j
    <3>2. Spot(j) = Place("output", outputs[k].path)
      BY <3>1, SpotParts
    <3> QED BY <3>1, <3>2 DEF j
  <2> QED BY <2>1
<1>8. \A k \in 1 .. i + o : \/ k \in 1 .. i
                             \/ \E m \in 1 .. o : k = i + m
  <2>1. ASSUME NEW k \in 1 .. i + o, k \notin 1 .. i PROVE k - i \in 1 .. o /\ k = i + (k - i)
    BY <1>1, <2>1
  <2> QED BY <2>1
<1> HIDE DEF ins, outs, i, o
<1>9. /\ \A k \in 1 .. i : \A q \in Parents(Place("input", ins[k])) : q[1] = "input" /\ q \in Seq(Parts) /\ q # <<>>
      /\ \A k \in 1 .. o : \A q \in Parents(Place("output", outs[k])) : q[1] = "output" /\ q \in Seq(Parts) /\ q # <<>>
  BY <1>1, <1>4, RootsApart, PlaceParts, ParentParts
<1>10. ASSUME NEW p \in Folders(root) PROVE p \in Under(root)
  <2>1. p \in DOMAIN tree /\ p[1] = root /\ Len(p) > 1 /\ tree[p] = Dir
    BY DEF Folders
  <2>2. p # <<"input">> /\ p # <<"output">>
    <3>1. Len(<<"input">>) = 1 /\ Len(<<"output">>) = 1
      OBVIOUS
    <3>2. ~(Len(<<"input">>) > 1) /\ ~(Len(<<"output">>) > 1)
      BY <3>1
    <3> QED BY <2>1, <3>2, Zenon
  <2>3. PICK k \in DOMAIN file : p \in Parents(Spot(k))
    <3>1. \A k \in DOMAIN file : tree[p] # k
      BY <1>3, <2>1 DEF Dir
    <3> QED BY <2>1, <2>2, <3>1 DEF PlacedInv
  <2>4. CASE k \in 1 .. i
    <3>1. p \in Parents(Place("input", ins[k])) /\ ins[k] \in TargetPaths /\ root = "input"
      BY <1>5, <1>6, <1>9, <2>1, <2>3, <2>4
    <3> QED BY <2>2, <3>1 DEF Under, Above
  <2>5. ASSUME NEW m \in 1 .. o, k = i + m PROVE p \in Under(root)
    <3>1. p \in Parents(Place("output", outs[m])) /\ outs[m] \in OutputPaths /\ root = "output"
      BY <1>5, <1>7, <1>9, <2>1, <2>3, <2>5
    <3> QED BY <2>2, <3>1 DEF Under, Above
  <2> QED BY <1>3, <1>8, <2>4, <2>5
<1>11. ASSUME NEW p \in Under(root) PROVE p \in Folders(root)
  <2>1. PICK k \in DOMAIN file : p \in Parents(Spot(k)) /\ p[1] = root /\ p \in Seq(Parts) /\ p # <<>> /\ p # <<root>>
    <3>1. CASE root = "input"
      <4>1. PICK n \in 1 .. i : p \in Parents(Place("input", ins[n])) /\ p # <<"input">>
        BY <1>5, <3>1 DEF Under, Above
      <4> QED BY <1>3, <1>6, <1>9, <3>1, <4>1
    <3>2. CASE root = "output"
      <4>1. PICK n \in 1 .. o : p \in Parents(Place("output", outs[n])) /\ p # <<"output">>
        BY <1>5, <3>2 DEF Under, Above
      <4> QED BY <1>3, <1>7, <1>9, <3>2, <4>1
    <3> QED BY <3>1, <3>2
  <2>2. p \in DOMAIN tree /\ tree[p] = Dir
    BY <2>1 DEF PlacedInv
  <2>3. Len(p) # 1
    <3>1. ASSUME Len(p) = 1 PROVE p = <<root>>
      <4> DEFINE t == <<root>>
      <4>1. t \in Seq(Parts) /\ Len(t) = 1 /\ t[1] = root
        BY <1>4
      <4> HIDE DEF t
      <4>2. Len(p) = Len(t) /\ \A n \in 1 .. Len(p) : p[n] = t[n]
        BY <2>1, <3>1, <4>1
      <4>3. p = t
        BY <2>1, <4>1, <4>2, SameParts
      <4> QED BY <4>3 DEF t
    <3> QED BY <2>1, <3>1
  <2>4. Len(p) > 1
    BY <2>1, <2>3, LongerThanOne
  <2> QED BY <2>1, <2>2, <2>4 DEF Folders
<1>12. IsFiniteSet(Under(root)) /\ Cardinality(Under(root)) \in Nat
  <2>1. LET A == Above("input", {ins[k] : k \in 1 .. i}) IN IsFiniteSet(A) /\ Cardinality(A) \in Nat
    BY <1>1, <1>4, AboveFinite
  <2>2. LET A == Above("output", {outs[k] : k \in 1 .. o}) IN IsFiniteSet(A) /\ Cardinality(A) \in Nat
    BY <1>1, <1>4, AboveFinite
  <2> QED BY <1>5, <2>1, <2>2 DEF Under
<1>13. Folders(root) = Under(root)
  BY <1>10, <1>11
<1> QED BY <1>12, <1>13

\* What the guest wrote in an output is within its maximum, in blocks up to rounding.
LEMMA WrittenFits ==
    ASSUME TypeInv, SizeInv, BoundInv, phase \in Running,
           NEW k \in DOMAIN file, k > Len(inputs)
    PROVE  /\ file[k].len \in Nat /\ file[k].blocks \in Nat /\ fsize \in Nat
           /\ file[k].len <= fsize /\ file[k].blocks <= fsize + (Block - 1)
           /\ fsize + (Block - 1) \in Nat
<1>1. file \in Seq(Inode)
  BY DEF TypeInv
<1>2. file[k] \in Inode
  BY <1>1, Elements
<1>3. file[k].len \in Nat /\ file[k].blocks \in Nat
  BY <1>2 DEF Inode
<1>4. file[k].len <= fsize
  BY DEF SizeInv
<1>5. file[k].blocks <= file[k].len + (Block - 1)
  BY DEF BoundInv, Rounded
<1>6. fsize \in Nat /\ Block - 1 \in Nat
  BY ArtifactsAssumption DEF TypeInv
<1> QED BY <1>3, <1>4, <1>5, <1>6

LEMMA ZeroTimes == \A b \in Int : 0 * b = 0
OBVIOUS

LEMMA OneMore ==
    ASSUME NEW c \in Nat, NEW b \in Nat
    PROVE  (c + 1) * b = c * b + b /\ c * b \in Nat
OBVIOUS

LEMMA NextScan ==
    ASSUME TypeInv, ItemInv, PlacedInv, SizeInv, BoundInv, ScanInv,
           phase \notin {"plan", "refused"}, CalmStep
    PROVE  ScanInv'
<1>1. (Files("output")' = Files("output") /\ Folders("output")' = Folders("output")) \/ phase' # "guest"
  <2>1. phase' = "guest" => tree' = tree
    BY DEF CalmStep, BeginInput, CopyChunk, TakeMade, InputTaken, InputsStaged, StageMade, OpenMade,
       MountMade, Harden, ScanMade, ScanOver, HashMade, ReadMade, Moves, Passed, Still, GuestWrites,
       Wrote, Go
  <2> QED BY <2>1 DEF Files, Folders
<1>2. NoScan' = NoScan
  BY DEF NoScan
<1>3. ASSUME NEW p, ScanMade(p) PROVE ScanInv'
  <2>1. /\ phase = "guest" /\ phase' = "guest" /\ fsize' = fsize
        /\ \/ /\ p \in Files("output") /\ p \notin scan.seen
              /\ scan' = [seen |-> scan.seen \cup {p}, folders |-> scan.folders,
                          bytes |-> scan.bytes + file[tree[p]].len,
                          allocated |-> scan.allocated + file[tree[p]].blocks]
           \/ /\ p \in Folders("output")
              /\ scan' = [scan EXCEPT !.folders = scan.folders \cup {p}]
    BY <1>3 DEF ScanMade
  <2>2. /\ DOMAIN scan = {"seen", "folders", "bytes", "allocated"}
        /\ IsFiniteSet(scan.seen) /\ scan.seen \subseteq Files("output")
        /\ IsFiniteSet(scan.folders) /\ scan.folders \subseteq Folders("output")
        /\ scan.bytes \in Nat /\ scan.allocated \in Nat
        /\ scan.bytes <= Cardinality(scan.seen) * fsize
        /\ scan.allocated <= Cardinality(scan.seen) * (fsize + (Block - 1))
    BY <2>1 DEF ScanInv
  <2>3. ASSUME p \in Files("output"), p \notin scan.seen,
               scan' = [seen |-> scan.seen \cup {p}, folders |-> scan.folders,
                        bytes |-> scan.bytes + file[tree[p]].len,
                        allocated |-> scan.allocated + file[tree[p]].blocks]
        PROVE  ScanInv'
    <3> DEFINE e == file[tree[p]]
               c == Cardinality(scan.seen)
               b == fsize + (Block - 1)
    <3>3. tree[p] \in DOMAIN file /\ tree[p] > Len(inputs)
      BY <2>1, <2>3, EntryFile
    <3>4. /\ e.len \in Nat /\ e.blocks \in Nat /\ fsize \in Nat /\ b \in Nat
          /\ e.len <= fsize /\ e.blocks <= b
      BY <2>1, <3>3, WrittenFits DEF Running
    <3>5. /\ scan'.seen = scan.seen \cup {p} /\ scan'.folders = scan.folders
          /\ DOMAIN scan' = {"seen", "folders", "bytes", "allocated"}
          /\ scan'.bytes = scan.bytes + e.len /\ scan'.allocated = scan.allocated + e.blocks
      BY <2>3
    <3>6. IsFiniteSet(scan'.seen) /\ Cardinality(scan'.seen) = c + 1 /\ c \in Nat
      BY <2>2, <2>3, <3>5, FS_AddElement, FS_CardinalityType
    <3>7. scan'.seen \subseteq Files("output")' /\ scan'.folders \subseteq Folders("output")'
      BY <1>1, <2>1, <2>2, <2>3, <3>5
    <3>8. scan.bytes <= c * fsize /\ scan.allocated <= c * b
      BY <2>2
    <3> HIDE DEF b, c, e
    <3>9. /\ (c + 1) * fsize = c * fsize + fsize /\ c * fsize \in Nat
          /\ (c + 1) * b = c * b + b /\ c * b \in Nat
      BY <3>4, <3>6, OneMore
    <3>10. scan'.bytes \in Nat /\ scan'.bytes <= (c + 1) * fsize
      BY <2>2, <3>4, <3>5, <3>8, <3>9
    <3>11. scan'.allocated \in Nat /\ scan'.allocated <= (c + 1) * b
      BY <2>2, <3>4, <3>5, <3>8, <3>9
    <3>12. IsFiniteSet(scan'.folders)
      BY <2>2, <3>5
    <3> QED BY <2>1, <3>5, <3>6, <3>7, <3>10, <3>11, <3>12 DEF ScanInv, b
  <2>4. ASSUME p \in Folders("output"), scan' = [scan EXCEPT !.folders = scan.folders \cup {p}]
        PROVE  ScanInv'
    <3>1. /\ scan'.seen = scan.seen /\ scan'.folders = scan.folders \cup {p}
          /\ DOMAIN scan' = {"seen", "folders", "bytes", "allocated"}
          /\ scan'.bytes = scan.bytes /\ scan'.allocated = scan.allocated
      BY <2>2, <2>4
    <3>2. IsFiniteSet(scan'.folders)
      BY <2>2, <3>1, FS_AddElement
    <3>3. scan'.seen \subseteq Files("output")' /\ scan'.folders \subseteq Folders("output")'
      BY <1>1, <2>1, <2>2, <2>4, <3>1
    <3>4. /\ IsFiniteSet(scan'.seen) /\ scan'.bytes \in Nat /\ scan'.allocated \in Nat
          /\ scan'.bytes <= Cardinality(scan'.seen) * fsize'
          /\ scan'.allocated <= Cardinality(scan'.seen) * (fsize' + (Block - 1))
      BY <2>1, <2>2, <3>1
    <3> QED BY <2>1, <3>1, <3>2, <3>3, <3>4 DEF ScanInv
  <2> QED BY <2>1, <2>3, <2>4
<1>4. ASSUME scan' = NoScan PROVE ScanInv'
  <2>1. /\ scan'.seen = {} /\ scan'.folders = {} /\ scan'.bytes = 0 /\ scan'.allocated = 0
        /\ DOMAIN scan' = {"seen", "folders", "bytes", "allocated"}
    BY <1>4 DEF NoScan
  <2>2. IsFiniteSet(scan'.seen) /\ Cardinality(scan'.seen) = 0
    BY <2>1, FS_EmptySet
  <2>3. CASE phase' # "guest"
    BY <1>2, <1>4, <2>3 DEF ScanInv
  <2>4. CASE phase' = "guest"
    <3>1. fsize' \in Int /\ Block \in Int
      <4>1. fsize' = fsize \/ Harden
        BY DEF CalmStep, BeginInput, CopyChunk, TakeMade, InputTaken, InputsStaged, StageMade,
           OpenMade, MountMade, ScanMade, ScanOver, HashMade, ReadMade, Moves, Passed,
           Still, GuestWrites, Wrote, nativeVars
      <4>2. fsize \in Int /\ Block \in Int
        BY ArtifactsAssumption DEF TypeInv
      <4>3. ASSUME Harden PROVE fsize' \in Int
        <5>1. fsize' = (IF outputs = <<>> THEN 0 ELSE Maximum(outputs[1])) /\ phase = "mount"
          BY <4>3 DEF Harden
        <5>2. outputs # <<>> => 1 \in DOMAIN outputs
          BY <5>1, Accepted
        <5>3. \A n \in DOMAIN outputs : Maximum(outputs[n]) \in Nat \ {0}
          BY RequestType
        <5> QED BY <5>1, <5>2, <5>3
      <4> QED BY <4>1, <4>2, <4>3
    <3>2. 0 * fsize' = 0 /\ 0 * (fsize' + (Block - 1)) = 0
      <4>1. fsize' \in Int /\ fsize' + (Block - 1) \in Int
        BY <3>1
      <4> QED BY <4>1, ZeroTimes
    <3> QED BY <1>2, <2>1, <2>2, <2>4, <3>2 DEF ScanInv
  <2> QED BY <2>3, <2>4
<1>5. CASE scan' = scan /\ phase # "guest"
  BY <1>4, <1>5 DEF ScanInv
<1>6. CASE phase = "guest" /\ phase' = "guest" /\ scan' = scan /\ fsize' = fsize
  <2>1. scan'.seen \subseteq Files("output")' /\ scan'.folders \subseteq Folders("output")'
    BY <1>1, <1>6 DEF ScanInv
  <2> QED BY <1>6, <2>1 DEF ScanInv
<1>7. CASE Moves /\ phase = "guest"
  <2>1. scan' = NoScan
    BY <1>7 DEF Moves, Passed, nativeVars
  <2> QED BY <1>4, <2>1
<1>8. \/ \E p : ScanMade(p)
      \/ scan' = NoScan
      \/ scan' = scan /\ phase # "guest"
      \/ Moves /\ phase = "guest"
      \/ phase = "guest" /\ phase' = "guest" /\ scan' = scan /\ fsize' = fsize
  <2>1. CASE BeginInput \/ CopyChunk \/ TakeMade \/ InputsStaged \/ StageMade
    BY <2>1 DEF BeginInput, Staging, CopyChunk, TakeMade, InputTaken, InputsStaged, StageMade,
       nativeVars
  <2>2. CASE OpenMade \/ MountMade \/ Harden \/ HashMade \/ ReadMade
    BY <2>2 DEF OpenMade, MountMade, Harden, HashMade, ReadMade, nativeVars
  <2>3. CASE Moves
    BY <2>3 DEF Moves, Passed, nativeVars
  <2>4. CASE Still
    BY <2>4 DEF Still, nativeVars
  <2>5. ASSUME NEW n \in DOMAIN mounted, GuestWrites(n)
        PROVE  phase = "guest" /\ phase' = "guest" /\ scan' = scan /\ fsize' = fsize
    BY <2>5 DEF GuestWrites, Wrote, nativeVars
  <2>6. CASE ScanOver
    BY <2>6 DEF ScanOver
  <2> QED BY <2>1, <2>2, <2>3, <2>4, <2>5, <2>6 DEF CalmStep
<1> QED BY <1>3, <1>4, <1>5, <1>6, <1>7, <1>8

LEMMA NextList ==
    ASSUME TypeInv, ItemInv, PinInv, ReportInv, PlacedInv, SizeInv, BoundInv, HandleInv, ListInv,
           phase \notin {"plan", "refused"}, CalmStep
    PROVE  ListInv'
<1>1. /\ manifest \in Seq(Reports) /\ DOMAIN manifest = 1 .. Len(manifest) /\ Len(manifest) \in Nat
  BY Elements DEF TypeInv
<1>0. \A k \in DOMAIN manifest : manifest[k] \in Reports
  BY <1>1, Elements
<1>2. CASE HashMade
  <2>1. /\ phase = "hash" /\ phase' = "hash" /\ item' = item + 1 /\ fsize' = fsize
        /\ item \in DOMAIN outputs
        /\ manifest' = Append(manifest, [output |-> item, content |-> Content(file[pinned[item]])])
    BY <1>2 DEF HashMade, Go
  <2> DEFINE r == [output |-> item, content |-> Content(file[pinned[item]])]
             n == Len(manifest) + 1
  <2>2. DOMAIN mounted = DOMAIN outputs /\ item \in DOMAIN pinned /\ pinned[item] = Len(inputs) + item
    <3>1. /\ DOMAIN mounted = 1 .. Len(mounted) /\ DOMAIN pinned = 1 .. Len(pinned)
          /\ Len(mounted) \in Nat /\ Len(pinned) \in Nat
      BY Elements DEF TypeInv
    <3>2. Len(mounted) = Len(outputs) /\ Len(mounted) <= Len(pinned)
      BY <2>1 DEF PinInv
    <3>3. DOMAIN outputs = 1 .. Len(outputs)
      BY RequestType
    <3>4. item \in DOMAIN pinned
      BY <2>1, <3>1, <3>2, <3>3
    <3> QED BY <3>1, <3>2, <3>3, <3>4 DEF HandleInv
  <2>3. Len(inputs) + item \in DOMAIN file /\ Len(inputs) + item > Len(inputs)
    BY <2>1, OutputFile
  <2>4. file[pinned[item]].len <= fsize /\ file[pinned[item]] \in Inode
    <3>1. file[Len(inputs) + item].len <= fsize
      BY <2>1, <2>3, WrittenFits DEF Running
    <3>2. file \in Seq(Inode)
      BY DEF TypeInv
    <3>3. file[Len(inputs) + item] \in Inode
      BY <2>3, <3>2, Elements
    <3> QED BY <2>2, <3>1, <3>3
  <2>5. Content(file[pinned[item]]) \in Written
    BY <2>4, InodeTypes
  <2>6. r \in Reports /\ r.output = item /\ r.content.len = file[pinned[item]].len
    BY <2>1, <2>5 DEF Reports, Content
  <2>7. manifest' = Append(manifest, r)
    BY <2>1
  <2> HIDE DEF r
  <2>8. /\ manifest'[n] = r /\ \A k \in 1 .. Len(manifest) : manifest'[k] = manifest[k]
        /\ DOMAIN manifest' = 1 .. n
    BY <1>1, <2>6, <2>7, Appended
  <2>9. \A k \in DOMAIN manifest' : k = n \/ k \in DOMAIN manifest
    BY <1>1, <2>8
  <2>10. \A k \in DOMAIN manifest : manifest'[k] = manifest[k]
    BY <1>1, <2>8
  <2>11. \A k \in DOMAIN manifest : manifest[k].output < item /\ manifest[k].output \in Nat
    <3>1. \A k \in DOMAIN manifest : manifest[k].output < item
      BY <2>1 DEF ListInv
    <3>2. \A k \in DOMAIN manifest : manifest[k].output \in DOMAIN outputs
      BY <1>0 DEF Reports
    <3>3. DOMAIN outputs \subseteq Nat
      BY RequestType
    <3> QED BY <3>1, <3>2, <3>3
  <2>12. item \in Nat
    BY DEF TypeInv
  <2>13. \A k \in DOMAIN manifest' : manifest'[k].content.len <= fsize'
    BY <2>1, <2>4, <2>6, <2>8, <2>9, <2>10 DEF ListInv
  <2>14. \A k \in DOMAIN manifest' : manifest'[k].output < item'
    BY <2>1, <2>6, <2>8, <2>9, <2>10, <2>11, <2>12
  <2>15. ASSUME NEW k \in DOMAIN manifest', NEW m \in DOMAIN manifest', k < m
         PROVE  manifest'[k].output < manifest'[m].output
    <3>1. k \in DOMAIN manifest
      BY <1>1, <2>8, <2>9, <2>15
    <3>2. CASE m = n
      BY <2>6, <2>8, <2>10, <2>11, <3>1, <3>2
    <3>3. CASE m \in DOMAIN manifest
      BY <2>10, <2>15, <3>1, <3>3 DEF ListInv
    <3> QED BY <2>9, <3>2, <3>3
  <2> QED BY <2>13, <2>14, <2>15 DEF ListInv
<1>3. CASE Harden \/ phase' \notin {"hash", "read", "done"}
  <2>1. manifest' = <<>>
    <3>1. manifest' = manifest \/ HashMade
      BY DEF CalmStep, BeginInput, CopyChunk, TakeMade, InputTaken, InputsStaged, StageMade,
         OpenMade, MountMade, Harden, ScanMade, ScanOver, ReadMade, Moves, Passed,
         Still, GuestWrites, Wrote, nativeVars
    <3>2. Harden \/ phase \notin {"hash", "read", "done"} \/ HashMade \/ phase' \in {"hash", "read", "done"}
      BY DEF CalmStep, BeginInput, Staging, CopyChunk, TakeMade, InputTaken, InputsStaged, StageMade,
         OpenMade, MountMade, ScanMade, ScanOver, ReadMade, Moves, Passed,
         Still, GuestWrites, Wrote
    <3>3. HashMade => phase' = "hash" /\ phase = "hash"
      BY DEF HashMade, Go
    <3>4. Harden => phase = "mount"
      BY DEF Harden
    <3>5. phase \notin {"hash", "read", "done", "refused"} => manifest = <<>>
      BY DEF ReportInv, TypeInv, Phases
    <3> QED BY <1>3, <3>1, <3>2, <3>3, <3>4, <3>5
  <2>2. DOMAIN manifest' = {}
    BY <2>1
  <2> QED BY <2>2 DEF ListInv
<1>4. CASE manifest' = manifest /\ fsize' = fsize /\ (phase' = "hash" => phase = "hash" /\ item' \in {item, item + 1})
  <2>1. item \in Nat
    BY DEF TypeInv
  <2>2. \A k \in DOMAIN manifest : manifest[k].output \in Nat
    <3>1. \A k \in DOMAIN manifest : manifest[k].output \in DOMAIN outputs
      BY <1>0 DEF Reports
    <3> QED BY <3>1, RequestType
  <2>3. phase' = "hash" => \A k \in DOMAIN manifest' : manifest'[k].output < item'
    BY <1>4, <2>1, <2>2 DEF ListInv
  <2> QED BY <1>4, <2>3 DEF ListInv
<1>5. CASE phase = "inspect" /\ phase' = "hash" /\ manifest' = manifest
  <2>1. manifest' = <<>>
    BY <1>5 DEF ReportInv
  <2>2. DOMAIN manifest' = {}
    BY <2>1
  <2> QED BY <2>2 DEF ListInv
<1>6. CASE Moves
  <2>1. \/ manifest' = manifest /\ fsize' = fsize
                /\ (phase' = "hash" => phase = "hash" /\ item' \in {item, item + 1})
        \/ phase = "inspect" /\ phase' = "hash" /\ manifest' = manifest
    BY <1>6 DEF Moves, Passed, nativeVars
  <2> QED BY <1>4, <1>5, <2>1
<1>7. CASE Still
  BY <1>4, <1>7 DEF Still, nativeVars
<1>8. CASE ReadMade
  BY <1>4, <1>8 DEF ReadMade, nativeVars
<1>9. HashMade \/ Moves \/ Still \/ ReadMade \/ Harden \/ phase' \notin {"hash", "read", "done"}
  BY DEF CalmStep, BeginInput, CopyChunk, TakeMade, InputTaken, InputsStaged, StageMade,
     OpenMade, MountMade, ScanMade, ScanOver, GuestWrites, Wrote, Go
<1> QED BY <1>2, <1>3, <1>6, <1>7, <1>8, <1>9

\* The run is planned: nothing is staged yet.
LEMMA PlannedCalm ==
    ASSUME IInv, EditInv, Plan, ~Touched'
    PROVE  (PlacedInv /\ SizeInv /\ HandleInv /\ ScanInv /\ ListInv)'
<1>1. /\ phase = "plan" /\ phase' = "stageInput" /\ item' = 1 /\ request' = request
      /\ tree' = [d \in {<<"input">>, <<"output">>} |-> Dir]
      /\ file' = file /\ taken' = taken /\ pinned' = pinned /\ scan' = scan
      /\ manifest' = manifest
  BY DEF Plan, Go, nodeVars, nativeVars
<1>2. file' = <<>> /\ taken' = <<>> /\ pinned' = <<>> /\ manifest' = <<>> /\ scan' = NoScan
  BY <1>1 DEF EditInv, IInv, SourceInv, PinInv, ReportInv
<1>3. DOMAIN file' = {} /\ DOMAIN taken' = {} /\ DOMAIN pinned' = {} /\ DOMAIN manifest' = {}
      /\ Len(file') = 0
  BY <1>2
<1>4. PlacedInv'
  <2>1. Made' = 0
    BY <1>1 DEF Made
  <2>2. /\ DOMAIN tree' = {<<"input">>, <<"output">>}
        /\ \A p \in DOMAIN tree' : tree'[p] = Dir
    BY <1>1
  <2>3. \A r \in {"input", "output"} : <<r>> \in DOMAIN tree' /\ tree'[<<r>>] = Dir
    BY <2>2
  <2>4. ASSUME NEW p \in DOMAIN tree' PROVE tree'[p] = Dir /\ p \in {<<"input">>, <<"output">>}
    BY <2>2
  <2> QED BY <1>3, <2>1, <2>3, <2>4 DEF PlacedInv
<1>5. SizeInv'
  <2>1. limits' = limits /\ limits.inputBytes \in Nat
    BY <1>1, RequestType DEF limits, Limits, IInv
  <2> DEFINE f == [n \in DOMAIN taken' |-> taken'[n].len]
  <2>2. DOMAIN f = {}
    BY <1>3
  <2> HIDE DEF f
  <2>3. SumFunctionOnSet(f, DOMAIN f) = 0
    BY <2>2, SumEmpty
  <2>4. SumFunction(f) <= limits'.inputBytes
    BY <2>1, <2>3 DEF SumFunction
  <2>5. phase' \notin Running'
    BY <1>1 DEF Running
  <2> QED BY <1>1, <1>3, <2>4, <2>5 DEF SizeInv, f
<1>6. HandleInv'
  BY <1>3 DEF HandleInv
<1>7. ScanInv'
  <2>1. NoScan' = NoScan
    BY DEF NoScan
  <2> QED BY <1>1, <1>2, <2>1 DEF ScanInv
<1>8. ListInv'
  BY <1>3 DEF ListInv
<1> QED BY <1>4, <1>5, <1>6, <1>7, <1>8

\* What changes the source, and what comes before a workspace is found.
LEMMA EditSteps ==
    ASSUME TypeInv, [Next]_vars
    PROVE  /\ source' = source \/ SourceEdited
           /\ phase' = "copy" => SourceEdited \/ ~copy'.edited \/ (phase = "copy" /\ copy.edited)
           /\ phase' = "plan" => UNCHANGED vars
           /\ phase' \in {"plan", "stageInput", "copy", "stageOutput"} =>
                 /\ phase \in {"plan", "stageInput", "copy", "stageOutput"}
                 /\ meddled' = meddled \/ SourceEdited
<1> DEFINE Early == {"plan", "stageInput", "copy", "stageOutput"}
           A == /\ source' = source \/ SourceEdited
                /\ phase' = "copy" => SourceEdited \/ ~copy'.edited \/ (phase = "copy" /\ copy.edited)
           B == phase' = "plan" => UNCHANGED vars
           C == phase' \in Early => phase \in Early /\ (meddled' = meddled \/ SourceEdited)
<1>3. ASSUME NEW why, Refuse(why) PROVE A /\ B /\ C
  BY <1>3 DEF Refuse, nodeVars
<1>4. ASSUME Node PROVE A /\ B /\ C
  <2>1. ASSUME Plan \/ BeginInput \/ InputsStaged \/ Staged PROVE A /\ B /\ C
    BY <2>1 DEF Plan, BeginInput, Staging, InputsStaged, Staged, Go, nodeVars
  <2>4. ASSUME CopyChunk PROVE A /\ B /\ C
    <3>1. copy'.edited = copy.edited
      BY <2>4 DEF CopyChunk, TypeInv
    <3> QED BY <2>4, <3>1 DEF CopyChunk, Go, nodeVars
  <2>2. ASSUME ReadArtifact \/ Collected PROVE A /\ B /\ C
    BY <1>3, <2>2 DEF ReadArtifact, Deliver, Collected, Skip, Go, nodeVars
  <2>3. ASSUME EndInput \/ StageOutput PROVE A /\ B /\ C
    BY <1>3, <2>3 DEF EndInput, InputTaken, StageOutput, Go, nodeVars
  <2> QED BY <1>3, <1>4, <2>1, <2>2, <2>3, <2>4 DEF Node, PlanRefuses, InputCollides,
     InputTooLarge, SourceShrank, ChunkTooLarge, Aborted
<1>5. ASSUME Native PROVE A /\ B /\ C
  <2>1. ASSUME ValidateInputs \/ StatOutput \/ OpenOutput \/ OutputsPinned PROVE A /\ B /\ C
    BY <1>3, <2>1 DEF ValidateInputs, StatOutput, OpenOutput, OutputsPinned, Skip, Go, nodeVars
  <2>2. ASSUME MountOutput \/ Harden PROVE A /\ B /\ C
    BY <1>3, <2>2 DEF MountOutput, Harden, Skip, Go, nodeVars
  <2>3. ASSUME NEW p, ScanFile(p) \/ ScanFolder(p) PROVE A /\ B /\ C
    BY <2>3 DEF ScanFile, ScanFolder, ScanGoesOn, Alarm, nodeVars
  <2>4. ASSUME ScanDone PROVE A /\ B /\ C
    BY <2>4 DEF ScanDone, ScanGoesOn, nodeVars
  <2>5. ASSUME InspectOutputs \/ HashOutput \/ Answered PROVE A /\ B /\ C
    BY <1>3, <2>5 DEF InspectOutputs, HashOutput, Answered, Skip, Go, nodeVars
  <2> QED BY <1>5, <2>1, <2>2, <2>3, <2>4, <2>5 DEF Native
<1>6. ASSUME NEW n \in DOMAIN mounted, GuestWrites(n) \/ GuestPreallocates(n) PROVE A /\ B /\ C
  BY <1>6 DEF GuestWrites, GuestPreallocates, Wrote, nodeVars
<1>7. ASSUME (\E p : HostReplaces(p) \/ HostWrites(p)) \/ HostLoosens PROVE A /\ B /\ C
  BY <1>7 DEF HostReplaces, HostWrites, HostLoosens, Meddle, Stands
<1>8. ASSUME GuestEnds PROVE A /\ B /\ C
  BY <1>8 DEF GuestEnds, Skip, Go, nodeVars
<1>9. ASSUME UNCHANGED vars PROVE A /\ B /\ C
  BY <1>9 DEF vars, nodeVars
<1>10. ASSUME SourceEdited PROVE A /\ B /\ C
  BY <1>10 DEF SourceEdited, Meddle
<1> HIDE DEF A, B, C
<1>11. A /\ B /\ C
  BY <1>4, <1>5, <1>6, <1>7, <1>8, <1>9, <1>10 DEF Next
<1> QED BY <1>11 DEF A, B, C

LEMMA NextEdit ==
    ASSUME TypeInv, EditInv, [Next]_vars
    PROVE  EditInv'
<1> DEFINE Edits == {"source", "unseen"}
<1>1. Meddled(Edits) => Meddled(Edits)'
  BY MeddledStays
<1>2. ASSUME SourceEdited
      PROVE  Meddled(Edits)' /\ (~Touched => ~Touched')
  <2>1. PICK how \in Edits : meddled' = Append(meddled, how)
    BY <1>2 DEF SourceEdited, Meddle
  <2>2. meddled \in Seq(Hows) /\ how \in Hows
    BY DEF TypeInv, Hows
  <2>3. /\ DOMAIN meddled' = 1 .. Len(meddled) + 1 /\ meddled'[Len(meddled) + 1] = how
        /\ \A n \in 1 .. Len(meddled) : meddled'[n] = meddled[n]
        /\ DOMAIN meddled = 1 .. Len(meddled) /\ Len(meddled) \in Nat
    BY <2>1, <2>2, Appended
  <2>4. Meddled(Edits)'
    BY <2>3 DEF Meddled
  <2>5. \A n \in DOMAIN meddled' : n \in DOMAIN meddled \/ n = Len(meddled) + 1
    BY <2>3
  <2>6. how \notin {"written", "replaced"}
    OBVIOUS
  <2>7. ~Touched => ~Touched'
    BY <2>3, <2>5, <2>6 DEF Touched, Meddled
  <2> QED BY <2>4, <2>7
<1>3. Len(source') > 1 \/ (phase' = "copy" /\ copy'.edited) => Meddled(Edits)'
  <2> HIDE DEF Edits
  <2>1. Len(source) > 1 \/ (phase = "copy" /\ copy.edited) => Meddled(Edits)
    BY DEF EditInv, Edits
  <2> QED BY <1>1, <1>2, <2>1, EditSteps
<1>4. phase' \in {"plan", "stageInput", "copy", "stageOutput"} => ~Touched'
  <2>1. meddled' = meddled => (~Touched => ~Touched')
    BY DEF Touched, Meddled
  <2> QED BY <1>2, <2>1, EditSteps DEF EditInv
<1>5. phase' = "plan" => file' = <<>> /\ scan' = NoScan'
  <2>1. ASSUME phase' = "plan" PROVE phase = "plan" /\ file' = file /\ scan' = scan
    BY <2>1, EditSteps DEF vars, nativeVars
  <2>2. NoScan' = NoScan
    BY DEF NoScan
  <2> QED BY <2>1, <2>2 DEF EditInv
<1> QED BY <1>3, <1>4, <1>5 DEF EditInv

LEMMA NextCalm ==
    ASSUME IInv, IInv', BoundInv, EditInv, CalmInv, [Next]_vars
    PROVE  CalmInv'
<1> SUFFICES ASSUME Calm'
             PROVE  (PlacedInv /\ SizeInv /\ HandleInv /\ ScanInv /\ ListInv)'
  BY DEF CalmInv
<1>1. Plan \/ (Calm /\ CalmStep)
  BY CalmSteps DEF IInv
<1>2. CASE Plan
  <2>1. ~Touched'
    BY DEF Calm
  <2> QED BY <1>2, <2>1, PlannedCalm
<1>3. CASE Calm /\ CalmStep
  <2>1. /\ PlacedInv /\ SizeInv /\ HandleInv /\ ScanInv /\ ListInv
        /\ phase \notin {"plan", "refused"}
    BY <1>3 DEF CalmInv, Calm
  <2>2. /\ TypeInv /\ TypeInv' /\ ItemInv /\ SourceInv /\ PinInv /\ ReportInv
    BY DEF IInv
  <2>3. PlacedInv'
    BY <1>3, <2>1, <2>2, NextPlaced
  <2>4. SizeInv'
    BY <1>3, <2>1, <2>2, NextSize
  <2>5. HandleInv'
    BY <1>3, <2>1, <2>2, NextHandle
  <2>6. ScanInv'
    BY <1>3, <2>1, <2>2, NextScan
  <2>7. ListInv'
    BY <1>3, <2>1, <2>2, NextList
  <2> QED BY <2>3, <2>4, <2>5, <2>6, <2>7
<1> QED BY <1>1, <1>2, <1>3

-----------------------------------------------------------------------------
(* What such a run is not refused for.                                      *)

InSlash == \E n \in DOMAIN inputs : EndsInSlash(inputs[n].target)
OutSlash == \E n \in DOMAIN outputs : EndsInSlash(outputs[n].path)

\* The parts of Fit.
LimitsFit ==
    /\ limits.inputFiles <= MaxArtifactFiles /\ limits.outputFiles <= MaxArtifactFiles
    /\ limits.inputBytes <= MaxArtifactBytes /\ limits.outputBytes <= MaxArtifactBytes
InShape ==
    /\ Len(inputs) + Cardinality(Above("input", TargetPaths)) <= EntryLimit(limits.inputFiles)
    /\ \A p \in Above("input", TargetPaths) : Shallow(p)
OutShape ==
    /\ Len(outputs) + Cardinality(Above("output", OutputPaths)) <= EntryLimit(limits.outputFiles)
    /\ \A p \in Above("output", OutputPaths) : Shallow(p)
BytesFit(n) == Bytes(outputs[n].path) <= MaxPath

LEMMA FitIs ==
    Fit <=> LimitsFit /\ (\A n \in DOMAIN outputs : BytesFit(n)) /\ InShape /\ OutShape
<1>1. (\A p \in OutputPaths : Bytes(p) <= MaxPath) <=> \A n \in DOMAIN outputs : BytesFit(n)
  BY DEF OutputPaths, BytesFit
<1> QED BY <1>1 DEF Fit, LimitsFit, InShape, OutShape

\* What the launcher has looked at fits.
Found(n) == BytesFit(n) /\ ~EndsInSlash(outputs[n].path)

FitInv ==
    /\ phase \in {"stat", "open", "mount"} \cup Running => LimitsFit /\ InShape
    /\ phase = "stat" => \A n \in DOMAIN outputs : n < item => Found(n)
    /\ phase = "open" => \A n \in DOMAIN outputs : n <= item => Found(n)
    /\ phase \in {"mount"} \cup Running => OutShape /\ \A n \in DOMAIN outputs : Found(n)

CalmFit == Calm => FitInv

Ready ==
    /\ IInv /\ BoundInv /\ EditInv /\ Calm /\ FitInv
    /\ PlacedInv /\ SizeInv /\ HandleInv /\ ScanInv /\ ListInv

LEMMA PathsApart ==
    ASSUME TypeInv, NEW paths, NEW S, paths \in [S -> Paths], TreeAccepts(paths), S \subseteq Nat,
           NEW j \in S, NEW k \in S, k < j, \A n \in S : n < j => n \in 1 .. j - 1
    PROVE  /\ paths[j] # paths[k]
           /\ paths[j] \notin Parents(paths[k]) /\ paths[k] \notin Parents(paths[j])
<1>1. j \in DOMAIN paths /\ k \in 1 .. j - 1
  OBVIOUS
<1> QED BY <1>1 DEF TreeAccepts

\* Files to be created are not where another is, nor above or below it.
LEMMA SpotsApart ==
    ASSUME TypeInv, PlanAccepts, ~InSlash, ~OutSlash,
           NEW j \in 1 .. Len(inputs) + Len(outputs), NEW k \in 1 .. Len(inputs) + Len(outputs), k < j
    PROVE  /\ Spot(j) # Spot(k)
           /\ Spot(j) \notin Parents(Spot(k)) /\ Spot(k) \notin Parents(Spot(j))
<1>1. /\ DOMAIN inputs = 1 .. Len(inputs) /\ Len(inputs) \in Nat
      /\ DOMAIN outputs = 1 .. Len(outputs) /\ Len(outputs) \in Nat
      /\ \A n \in DOMAIN outputs : outputs[n].path \in Paths
      /\ \A n \in DOMAIN inputs : inputs[n].target \in Paths
  BY RequestType
<1>2. CASE j <= Len(inputs)
  <2>1. k <= Len(inputs)
    BY <1>1, <1>2
  <2>2. /\ j \in DOMAIN inputs /\ k \in DOMAIN inputs
        /\ Spot(j) = Place("input", inputs[j].target) /\ Spot(k) = Place("input", inputs[k].target)
    BY <1>2, <2>1, SpotParts
  <2> DEFINE paths == [n \in DOMAIN inputs |-> inputs[n].target]
             a == inputs[j].target
             b == inputs[k].target
  <2>3. paths \in [DOMAIN inputs -> Paths] /\ paths[j] = a /\ paths[k] = b
    BY <1>1, <2>2
  <2>4. TreeAccepts(paths)
    BY DEF PlanAccepts
  <2>5. DOMAIN inputs \subseteq Nat /\ \A n \in DOMAIN inputs : n < j => n \in 1 .. j - 1
    BY <1>1
  <2> HIDE DEF paths
  <2>6. a # b /\ a \notin Parents(b) /\ b \notin Parents(a)
    BY <2>2, <2>3, <2>4, <2>5, PathsApart
  <2>7. a \in Paths /\ b \in Paths /\ ~EndsInSlash(a) /\ ~EndsInSlash(b)
    BY <1>1, <2>2 DEF InSlash
  <2>8. Spot(j) = Place("input", a) /\ Spot(k) = Place("input", b)
    BY <2>2
  <2>9. "input" \in Parts
    BY DEF Parts
  <2> HIDE DEF a, b
  <2> QED BY <2>6, <2>7, <2>8, <2>9, PlaceSame
<1>3. CASE k > Len(inputs)
  <2>1. j > Len(inputs)
    BY <1>1, <1>3
  <2> DEFINE jj == j - Len(inputs)
             kk == k - Len(inputs)
             paths == [n \in DOMAIN outputs |-> outputs[n].path]
             a == outputs[jj].path
             b == outputs[kk].path
  <2>2. /\ jj \in DOMAIN outputs /\ kk \in DOMAIN outputs
        /\ Spot(j) = Place("output", a) /\ Spot(k) = Place("output", b)
    BY <1>3, <2>1, SpotParts
  <2>3. paths \in [DOMAIN outputs -> Paths] /\ paths[jj] = a /\ paths[kk] = b
    BY <1>1, <2>2
  <2>4. TreeAccepts(paths)
    BY DEF PlanAccepts
  <2>5. DOMAIN outputs \subseteq Nat /\ (\A n \in DOMAIN outputs : n < jj => n \in 1 .. jj - 1) /\ kk < jj
    BY <1>1
  <2>7. a \in Paths /\ b \in Paths /\ ~EndsInSlash(a) /\ ~EndsInSlash(b)
    BY <1>1, <2>2 DEF OutSlash
  <2> HIDE DEF paths, jj, kk
  <2>6. a # b /\ a \notin Parents(b) /\ b \notin Parents(a)
    BY <2>2, <2>3, <2>4, <2>5, PathsApart
  <2>9. "output" \in Parts
    BY DEF Parts
  <2> HIDE DEF a, b
  <2> QED BY <2>2, <2>6, <2>7, <2>9, PlaceSame
<1>4. CASE k <= Len(inputs) /\ j > Len(inputs)
  <2> DEFINE a == outputs[j - Len(inputs)].path
             b == inputs[k].target
  <2>1. Spot(j) = Place("output", a) /\ Spot(k) = Place("input", b) /\ a \in Paths /\ b \in Paths
    BY <1>4, SpotParts
  <2>2. Spot(j)[1] = "output" /\ Spot(k)[1] = "input"
    BY <1>1, <1>4, SpotParts
  <2>3. "output" \in Parts /\ "input" \in Parts
    BY DEF Parts
  <2> HIDE DEF a, b
  <2>4. /\ \A q \in Parents(Spot(j)) : q[1] = "output"
        /\ \A q \in Parents(Spot(k)) : q[1] = "input"
    BY <2>1, <2>3, RootsApart
  <2> QED BY <2>2, <2>4
<1> QED BY <1>1, <1>2, <1>3, <1>4

\* The next file can be created.
LEMMA NoCollision ==
    ASSUME TypeInv, ItemInv, PlacedInv, phase \notin {"plan", "refused"}, ~InSlash, ~OutSlash,
           NEW j \in 1 .. Len(inputs) + Len(outputs), j = Len(file) + 1
    PROVE  DirsFree(Spot(j)) /\ Spot(j) \notin DOMAIN tree
<1>1. PlanAccepts
  BY DEF ItemInv
<1>2. file \in Seq(Inode)
  BY DEF TypeInv
<1>3. DOMAIN file = 1 .. Len(file) /\ Len(file) \in Nat
  BY <1>2, Elements
<1>4. ASSUME NEW k \in DOMAIN file
      PROVE  /\ Spot(j) # Spot(k)
             /\ Spot(j) \notin Parents(Spot(k)) /\ Spot(k) \notin Parents(Spot(j))
  <2>1. k < j /\ k \in 1 .. Len(inputs) + Len(outputs)
    BY <1>3
  <2> QED BY <1>1, <2>1, SpotsApart
<1>5. Spot(j) \notin {<<"input">>, <<"output">>}
  <2>1. Len(inputs) \in Nat
    BY RequestType
  <2>2. "output" \in Parts /\ "input" \in Parts
    BY DEF Parts
  <2>3. Spot(j)[1] = IF j <= Len(inputs) THEN "input" ELSE "output"
    BY SpotParts
  <2>4. <<"input">>[1] = "input" /\ <<"output">>[1] = "output"
    OBVIOUS
  <2>5. CASE j <= Len(inputs)
    <3> DEFINE a == inputs[j].target
    <3>1. Spot(j) = Place("input", a) /\ a \in Paths /\ ~EndsInSlash(a)
      BY <2>5, SpotParts DEF InSlash
    <3> HIDE DEF a
    <3>2. Spot(j) # <<"input">>
      BY <2>2, <3>1, PlaceSame
    <3> QED BY <2>3, <2>4, <2>5, <3>2
  <2>6. CASE ~(j <= Len(inputs))
    <3> DEFINE a == outputs[j - Len(inputs)].path
    <3>0. j > Len(inputs)
      BY <2>1, <2>6
    <3>1. Spot(j) = Place("output", a) /\ a \in Paths /\ ~EndsInSlash(a)
      BY <3>0, SpotParts DEF OutSlash
    <3> HIDE DEF a
    <3>2. Spot(j) # <<"output">>
      BY <2>2, <3>1, PlaceSame
    <3> QED BY <2>3, <2>4, <2>6, <3>2
  <2> QED BY <2>5, <2>6
<1>6. Spot(j) \notin DOMAIN tree
  BY <1>4, <1>5 DEF PlacedInv
<1>7. ASSUME NEW d \in Parents(Spot(j)), d \in DOMAIN tree PROVE tree[d] = Dir
  BY <1>4, <1>7 DEF PlacedInv
<1> QED BY <1>6, <1>7 DEF DirsFree

LEMMA NothingCollides ==
    ASSUME Ready, ~InSlash, ~OutSlash
    PROVE  /\ ~InputCollides
           /\ StageOutput => refusal' = refusal
<1>1. /\ TypeInv /\ ItemInv /\ PlacedInv /\ phase \notin {"plan", "refused"}
      /\ Len(inputs) \in Nat /\ Len(outputs) \in Nat /\ item \in Nat
      /\ DOMAIN inputs = 1 .. Len(inputs) /\ DOMAIN outputs = 1 .. Len(outputs)
  BY RequestType DEF Ready, IInv, Calm, TypeInv
<1>2. ASSUME InputCollides PROVE FALSE
  <2>1. phase = "stageInput" /\ item \in DOMAIN inputs
        /\ (~DirsFree(Target) \/ Target \in DOMAIN tree)
    BY <1>2 DEF InputCollides, Staging
  <2>2. Len(file) = item - 1
    BY <1>1, <2>1 DEF PlacedInv, Made
  <2>3. item \in 1 .. Len(inputs) + Len(outputs) /\ item = Len(file) + 1 /\ item <= Len(inputs)
    BY <1>1, <2>1, <2>2
  <2>4. Spot(item) = Target
    BY <1>1, <2>3, SpotParts DEF Target
  <2> QED BY <1>1, <2>1, <2>3, <2>4, NoCollision
<1>3. ASSUME StageOutput PROVE refusal' = refusal
  <2>1. phase = "stageOutput" /\ item \in DOMAIN outputs
    BY <1>3 DEF StageOutput
  <2> DEFINE j == Len(inputs) + item
  <2>2. Len(file) = Len(inputs) + item - 1
    BY <1>1, <2>1 DEF PlacedInv, Made
  <2>3. j \in 1 .. Len(inputs) + Len(outputs) /\ j = Len(file) + 1 /\ j > Len(inputs)
        /\ j - Len(inputs) = item
    BY <1>1, <2>1, <2>2
  <2> HIDE DEF j
  <2>4. Spot(j) = Place("output", outputs[item].path)
    BY <1>1, <2>3, SpotParts
  <2>5. DirsFree(Spot(j)) /\ Spot(j) \notin DOMAIN tree
    BY <1>1, <2>3, NoCollision
  <2> QED BY <1>3, <2>4, <2>5 DEF StageOutput, Go
<1> QED BY <1>2, <1>3

\* A source that shrank or changed was edited.
LEMMA NothingEdited ==
    ASSUME IInv, EditInv, ~Meddled({"source", "unseen"})
    PROVE  /\ ~SourceShrank
           /\ EndInput => refusal' = refusal
<1>1. source \in Seq(Nat) /\ source # <<>> /\ copy.size \in Nat /\ copy.len \in Nat
  BY DEF IInv, TypeInv
<1>2. Last(source) = source[Len(source)] /\ Len(source) \in Nat \ {0}
  BY <1>1, LastIs
<1>3. Len(source) = 1
  <2> DEFINE l == Len(source)
  <2>1. l \in Nat \ {0} /\ ~(l > 1)
    BY <1>2 DEF EditInv
  <2> HIDE DEF l
  <2>2. l = 1
    BY <2>1
  <2> QED BY <2>2 DEF l
<1>4. phase = "copy" => ~copy.edited /\ copy.size = Last(source)
  <2>1. ASSUME phase = "copy" PROVE ~copy.edited /\ copy.size = Last(source)
    <3>1. PICK v \in 1 .. Len(source) : copy.size = source[v]
      BY <2>1 DEF IInv, SourceInv
    <3> QED BY <1>2, <1>3, <2>1, <3>1 DEF EditInv
  <2> QED BY <2>1
<1>5. ~SourceShrank
  BY <1>1, <1>4 DEF SourceShrank
<1>6. ASSUME EndInput PROVE refusal' = refusal
  <2>1. phase = "copy"
    BY <1>6 DEF EndInput
  <2>2. InputTaken
    BY <1>3, <1>4, <1>6, <2>1 DEF EndInput
  <2> QED BY <2>2 DEF InputTaken, Go
<1> QED BY <1>5, <1>6

Late == phase \notin {"plan", "refused", "stageInput", "copy", "stageOutput"}

\* The shape of a tree nobody interfered with is that of the request.
LEMMA ShapeIs ==
    ASSUME TypeInv, ItemInv, PlacedInv, Late
    PROVE  /\ ShapeFits("input", limits.inputFiles) <=> InShape
           /\ ShapeFits("output", limits.outputFiles) <=> OutShape
<1>1. Late => phase \notin {"plan", "refused", "stageInput", "copy", "stageOutput"}
  BY DEF Late
<1>2. "input" \in {"input", "output"} /\ "output" \in {"input", "output"} /\ "output" # "input"
  OBVIOUS
<1>3. /\ Folders("input") = Above("input", TargetPaths)
      /\ Folders("output") = Above("output", OutputPaths)
  BY <1>1, <1>2, FoldersOf DEF Under
<1>4. Cardinality(Files("input")) = Len(inputs)
  BY <1>1, <1>2, EntriesOf
<1>5. Cardinality(Files("output")) = Len(outputs)
  BY <1>1, <1>2, EntriesOf
<1> QED BY <1>3, <1>4, <1>5 DEF ShapeFits, InShape, OutShape

LEMMA OutputCount ==
    ASSUME TypeInv
    PROVE  /\ IsFiniteSet(DOMAIN outputs) /\ Cardinality(DOMAIN outputs) = Len(outputs)
           /\ DOMAIN outputs = 1 .. Len(outputs) /\ Len(outputs) \in Nat
<1> DEFINE D == DOMAIN outputs
           len == Len(outputs)
<1>1. len \in Nat /\ D = 1 .. len
  BY RequestType
<1> HIDE DEF len, D
<1>2. IsFiniteSet(1 .. len) /\ Cardinality(1 .. len) = IF 1 > len THEN 0 ELSE len - 1 + 1
  BY <1>1, FS_Interval
<1>3. Cardinality(1 .. len) = len
  BY <1>1, <1>2
<1>4. IsFiniteSet(D) /\ Cardinality(D) = len /\ D = 1 .. len /\ len \in Nat
  BY <1>1, <1>2, <1>3
<1> QED BY <1>4 DEF len, D

LEMMA MaximaSum ==
    ASSUME TypeInv, NEW D \in SUBSET DOMAIN outputs
    PROVE  LET maxima == [n \in D |-> Maximum(outputs[n])] IN
           /\ Terms(maxima, D) /\ IsFiniteSet(D) /\ \A n \in D : maxima[n] \in Nat
           /\ SumFunction(maxima) = SumFunctionOnSet(maxima, D)
<1> DEFINE maxima == [n \in D |-> Maximum(outputs[n])]
<1>1. \A n \in D : maxima[n] \in Nat
  BY RequestType
<1>2. DOMAIN maxima = D
  OBVIOUS
<1>3. IsFiniteSet(D)
  BY OutputCount, FS_Subset
<1> HIDE DEF maxima
<1>4. Terms(maxima, D) /\ SumFunction(maxima) = SumFunctionOnSet(maxima, D)
  BY <1>1, <1>2 DEF Terms, SumFunction
<1> QED BY <1>1, <1>3, <1>4 DEF maxima

\* All outputs at the most the guest can write are within what was reserved.
LEMMA OutputBudget ==
    ASSUME Ready, phase \in Running
    PROVE  Len(outputs) * fsize <= limits.outputBytes /\ fsize \in Nat
           /\ fsize <= limits.outputFileBytes
<1> DEFINE maxima == [n \in DOMAIN outputs |-> Maximum(outputs[n])]
           D == DOMAIN outputs
<1>1. TypeInv /\ ItemInv /\ phase \notin {"plan", "refused"} /\ fsize \in Nat
  BY DEF Ready, IInv, Calm, TypeInv
<1>2. \A n \in D : maxima[n] = fsize
  BY DEF Ready, SizeInv, MaximumOf
<1>3. SumFunction(maxima) <= limits.outputBytes
  BY <1>1, Accepted
<1>4. IsFiniteSet(D) /\ Cardinality(D) = Len(outputs) /\ Len(outputs) \in Nat
  BY <1>1, OutputCount
<1>5. Terms(maxima, D) /\ SumFunction(maxima) = SumFunctionOnSet(maxima, D)
  BY <1>1, MaximaSum
<1> HIDE DEF maxima, D
<1>6. \A n \in D : fsize <= maxima[n]
  BY <1>1, <1>2
<1>7. Cardinality(D) * fsize <= SumFunctionOnSet(maxima, D)
  BY <1>1, <1>4, <1>5, <1>6, SumAtLeast
<1>8. SumFunctionOnSet(maxima, D) \in Int
  BY <1>4, <1>5, SumType
<1>9. limits.outputBytes \in Nat
  BY <1>1, RequestType DEF Limits
<1>10. Len(outputs) * fsize \in Int
  BY <1>1, <1>4
<1>11. Len(outputs) * fsize <= limits.outputBytes
  BY <1>3, <1>4, <1>5, <1>7, <1>8, <1>9, <1>10
<1>12. fsize <= limits.outputFileBytes
  BY DEF Ready, BoundInv
<1> QED BY <1>1, <1>11, <1>12

\* The launcher's inspection of a tree nobody interfered with comes down to the lengths.
LEMMA FitTree ==
    ASSUME Ready, Late, NEW root \in {"input", "output"},
           NEW maxFiles \in Nat, NEW maxBytes \in Nat, NEW maxFile \in Nat,
           Cardinality(Files(root)) <= maxFiles,
           SumFunctionOnSet([p \in Files(root) |-> file[tree[p]].len], Files(root)) <= maxBytes,
           \A p \in Files(root) : file[tree[p]].len <= maxFile,
           ShapeFits(root, maxFiles)
    PROVE  TreeFits(root, maxFiles, maxBytes, maxFile)
<1> DEFINE E == Files(root)
           lens == [p \in E |-> file[tree[p]].len]
           blocks == [p \in E |-> file[tree[p]].blocks]
<1>1. TypeInv /\ ItemInv /\ PlacedInv /\ BoundInv
  BY DEF Ready, IInv
<1>2. IsFiniteSet(E) /\ (\A p \in E : tree[p] # Symlink /\ tree[p] \in DOMAIN file)
  <2> DEFINE ks == IF root = "input" THEN 1 .. Len(inputs)
                   ELSE Len(inputs) + 1 .. Len(inputs) + Len(outputs)
             h == [k \in ks |-> Spot(k)]
  <2>1. /\ IsFiniteSet(E) /\ (\A p \in E : tree[p] # Symlink) /\ ks \subseteq DOMAIN file
        /\ (\A p \in E : \E k \in ks : h[k] = p) /\ (\A k \in ks : tree[h[k]] = k)
    BY <1>1, EntriesOf DEF Late
  <2> HIDE DEF ks, h, E
  <2> QED BY <2>1
<1>3. \A n \in DOMAIN file : file[n] \in Inode /\ file[n].links = 1 /\ Rounded(file[n])
  <2>1. \A n \in DOMAIN file : file[n] \in Inode
    BY <1>1, Elements DEF TypeInv
  <2> QED BY <1>1, <2>1 DEF PlacedInv, BoundInv
<1>4. ASSUME NEW p \in E
      PROVE  /\ file[tree[p]].len \in Nat /\ file[tree[p]].blocks \in Nat
             /\ file[tree[p]].links = 1
             /\ file[tree[p]].blocks <= file[tree[p]].len + (Block - 1)
  <2>1. file[tree[p]] \in Inode /\ file[tree[p]].links = 1 /\ Rounded(file[tree[p]])
    BY <1>2, <1>3
  <2> QED BY <2>1 DEF Inode, Rounded
<1>5. /\ DOMAIN lens = E /\ DOMAIN blocks = E
      /\ \A p \in E : /\ lens[p] \in Nat /\ blocks[p] \in Nat /\ blocks[p] <= lens[p] + (Block - 1)
  BY <1>4
<1>6. {p \in Files(root) : tree[p] # Symlink} = E
  BY <1>2
<1>7. SumFunctionOnSet(lens, E) <= maxBytes /\ Cardinality(E) <= maxFiles
  OBVIOUS
<1>8. Block - 1 \in Nat
  BY ArtifactsAssumption
<1>9. SumFunction(lens) <= maxBytes /\ SumFunction(blocks) <= maxBytes + maxFiles * (Block - 1)
  <2> HIDE DEF lens, blocks, E
  <2>1. Terms(lens, E) /\ Terms(blocks, E)
    BY <1>5 DEF Terms
  <2>2. SumFunctionOnSet(blocks, E) <= SumFunctionOnSet(lens, E) + Cardinality(E) * (Block - 1)
    BY <1>2, <1>5, <1>8, <2>1, SumMargin
  <2>3. SumFunctionOnSet(lens, E) \in Int /\ SumFunctionOnSet(blocks, E) \in Int
    BY <1>2, <2>1, SumType
  <2>4. Cardinality(E) \in Nat
    BY <1>2, FS_CardinalityType
  <2>5. Cardinality(E) * (Block - 1) <= maxFiles * (Block - 1)
    BY <1>7, <1>8, <2>4, Times
  <2>6. Cardinality(E) * (Block - 1) \in Int /\ maxFiles * (Block - 1) \in Int
    BY <1>8, <2>4
  <2>7. SumFunctionOnSet(blocks, E) <= maxBytes + maxFiles * (Block - 1)
    BY <1>7, <2>2, <2>3, <2>5, <2>6
  <2> QED BY <1>5, <1>7, <2>7 DEF SumFunction
<1>10. \A p \in E : file[tree[p]].links = 1 /\ file[tree[p]].len <= maxFile
  BY <1>4
<1> QED BY <1>6, <1>7, <1>9, <1>10 DEF TreeFits

LEMMA InputsFit ==
    ASSUME Ready, InShape, phase = "validate"
    PROVE  TreeFits("input", limits.inputFiles, limits.inputBytes, limits.inputFileBytes)
<1> DEFINE ks == 1 .. Len(inputs)
           h == [k \in ks |-> Spot(k)]
           E == Files("input")
           g == [p \in E |-> file[tree[p]].len]
           f == [k \in DOMAIN taken |-> taken[k].len]
<1>1. TypeInv /\ ItemInv /\ PlacedInv /\ SizeInv /\ Late
  BY DEF Ready, IInv, Late
<1>2. /\ ks \subseteq DOMAIN file /\ IsFiniteSet(ks) /\ Cardinality(ks) = Len(inputs)
      /\ h \in [ks -> E]
      /\ (\A p \in E : \E k \in ks : h[k] = p)
      /\ (\A k, m \in ks : h[k] = h[m] => k = m)
      /\ IsFiniteSet(E) /\ Cardinality(E) = Cardinality(ks)
      /\ (\A k \in ks : tree[h[k]] = k)
  <2>1. "input" \in {"input", "output"}
    OBVIOUS
  <2> QED BY <1>1, <2>1, EntriesOf DEF Late
<1>3. /\ DOMAIN taken = ks /\ DOMAIN f = ks
      /\ \A k \in ks : /\ f[k] \in Nat /\ f[k] = file[k].len /\ f[k] <= limits.inputFileBytes
  <2>1. Len(taken) = Len(inputs)
    BY <1>1 DEF SizeInv
  <2>2. DOMAIN taken = ks /\ \A k \in DOMAIN taken : taken[k].len \in Nat
    BY <1>1, <2>1, TakenType
  <2> QED BY <1>1, <2>2 DEF SizeInv
<1>4. SumFunction(f) <= limits.inputBytes
  BY <1>1 DEF SizeInv
<1>5. \A p \in E : g[p] = file[tree[p]].len
  OBVIOUS
<1>6. /\ limits.inputFiles \in Nat /\ limits.inputBytes \in Nat /\ limits.inputFileBytes \in Nat
      /\ Len(inputs) <= limits.inputFiles
  <2>1. PlanAccepts
    BY <1>1 DEF ItemInv, Late
  <2> QED BY <1>1, <2>1, RequestType DEF Limits, PlanAccepts
<1> HIDE DEF f, g, h, ks, E
<1>7. \A k \in ks : g[h[k]] = f[k] /\ h[k] \in E
  BY <1>2, <1>3, <1>5
<1>8. Terms(f, ks)
  BY <1>3 DEF Terms
<1>9. SumFunctionOnSet(g, E) = SumFunctionOnSet(f, ks)
  BY <1>2, <1>7, <1>8, SumReindex
<1>10. SumFunctionOnSet(g, E) <= limits.inputBytes
  BY <1>3, <1>4, <1>9 DEF SumFunction
<1>11. \A p \in E : file[tree[p]].len <= limits.inputFileBytes
  BY <1>2, <1>3
<1>12. Cardinality(E) <= limits.inputFiles
  BY <1>2, <1>6
<1>13. "input" \in {"input", "output"}
  OBVIOUS
<1>14. ShapeFits("input", limits.inputFiles)
  BY <1>1, ShapeIs
<1> QED BY <1>1, <1>6, <1>10, <1>11, <1>12, <1>13, <1>14, FitTree DEF g, E

\* The entries of the output tree: one for each output, with what its file holds.
LEMMA OutputEntriesHold ==
    ASSUME Ready, Late
    PROVE  /\ IsFiniteSet(Files("output")) /\ Cardinality(Files("output")) = Len(outputs)
           /\ Len(outputs) \in Nat /\ Len(outputs) <= limits.outputFiles
           /\ limits.outputFiles \in Nat
           /\ \A p \in Files("output") :
                 /\ file[tree[p]].len \in Nat
                 /\ phase \notin Running => file[tree[p]].len = 0
                 /\ phase \in Running => file[tree[p]].len <= fsize
<1>1. TypeInv /\ ItemInv /\ PlacedInv /\ SizeInv /\ BoundInv
  BY DEF Ready, IInv
<1>2. IsFiniteSet(Files("output")) /\ Cardinality(Files("output")) = Len(outputs)
  <2>1. "output" \in {"input", "output"}
    OBVIOUS
  <2>2. "output" # "input"
    OBVIOUS
  <2> QED BY <1>1, <2>1, <2>2, EntriesOf DEF Late
<1>3. Len(outputs) \in Nat /\ Len(outputs) <= limits.outputFiles /\ limits.outputFiles \in Nat
  <2>1. PlanAccepts
    BY <1>1 DEF ItemInv, Late
  <2> QED BY <1>1, <2>1, RequestType DEF Limits, PlanAccepts
<1>4. ASSUME NEW p \in Files("output")
      PROVE  /\ file[tree[p]].len \in Nat
             /\ phase \notin Running => file[tree[p]].len = 0
             /\ phase \in Running => file[tree[p]].len <= fsize
  <2>1. tree[p] \in DOMAIN file /\ tree[p] > Len(inputs)
    BY <1>1, EntryFile DEF Late
  <2>2. file[tree[p]] \in Inode
    BY <1>1, <2>1, Elements DEF TypeInv
  <2> QED BY <1>1, <2>1, <2>2 DEF SizeInv, Inode
<1> QED BY <1>2, <1>3, <1>4

LEMMA OutputsFit ==
    ASSUME Ready, OutShape
    PROVE  /\ phase = "inspect" => OutputTreeFits
           /\ phase = "stat" => TreeFits("output", limits.outputFiles, 0, 0)
<1> DEFINE E == Files("output")
           g == [p \in E |-> file[tree[p]].len]
<1>1. TypeInv
  BY DEF Ready, IInv
<1>2. limits.outputFiles \in Nat /\ limits.outputBytes \in Nat /\ limits.outputFileBytes \in Nat
  BY <1>1, RequestType DEF Limits
<1>3. "output" \in {"input", "output"}
  OBVIOUS
<1>6. Late => ShapeFits("output", limits.outputFiles)
  BY ShapeIs DEF Ready, IInv
<1>4. ASSUME phase = "inspect" PROVE OutputTreeFits
  <2>1. Late /\ phase \in Running
    BY <1>4 DEF Late, Running
  <2>2. /\ IsFiniteSet(E) /\ Cardinality(E) = Len(outputs) /\ Len(outputs) <= limits.outputFiles
        /\ \A p \in E : file[tree[p]].len \in Nat /\ file[tree[p]].len <= fsize
    BY <2>1, OutputEntriesHold
  <2>3. /\ Len(outputs) * fsize <= limits.outputBytes /\ fsize \in Nat
        /\ fsize <= limits.outputFileBytes
    BY <2>1, OutputBudget
  <2>4. SumFunctionOnSet(g, E) <= limits.outputBytes
    <3>1. \A p \in E : g[p] \in Nat /\ g[p] <= fsize
      BY <2>2
    <3> HIDE DEF g, E
    <3>2. Terms(g, E)
      BY <3>1 DEF Terms
    <3>3. SumFunctionOnSet(g, E) <= Len(outputs) * fsize
      BY <2>2, <2>3, <3>1, <3>2, SumAtMost
    <3>4. SumFunctionOnSet(g, E) \in Int /\ Len(outputs) * fsize \in Int
      BY <1>1, <2>2, <2>3, <3>2, SumType, OutputCount
    <3> QED BY <1>2, <2>3, <3>3, <3>4
  <2>5. \A p \in E : file[tree[p]].len <= limits.outputFileBytes
    <3>1. ASSUME NEW p \in E PROVE file[tree[p]].len <= limits.outputFileBytes
      <4>1. file[tree[p]].len \in Nat /\ file[tree[p]].len <= fsize
        BY <2>2
      <4> QED BY <1>2, <2>3, <4>1
    <3> QED BY <3>1
  <2>6. Cardinality(E) <= limits.outputFiles
    BY <2>2
  <2> QED BY <1>2, <1>3, <2>1, <1>6, <2>4, <2>5, <2>6, FitTree DEF OutputTreeFits
<1>5. ASSUME phase = "stat" PROVE TreeFits("output", limits.outputFiles, 0, 0)
  <2>1. Late /\ phase \notin Running
    BY <1>5 DEF Late, Running
  <2>2. /\ IsFiniteSet(E) /\ Cardinality(E) = Len(outputs) /\ Len(outputs) <= limits.outputFiles
        /\ \A p \in E : file[tree[p]].len = 0
    BY <2>1, OutputEntriesHold
  <2>4. SumFunctionOnSet(g, E) <= 0
    <3>1. \A p \in E : g[p] = 0
      BY <2>2
    <3> HIDE DEF g, E
    <3>2. SumFunctionOnSet(g, E) = 0
      BY <2>2, <3>1, SumZero
    <3> QED BY <3>2
  <2>5. \A p \in E : file[tree[p]].len <= 0
    BY <2>2
  <2>6. Cardinality(E) <= limits.outputFiles
    BY <2>2
  <2>7. 0 \in Nat
    OBVIOUS
  <2> QED BY <1>2, <1>3, <1>6, <2>1, <2>4, <2>5, <2>6, <2>7, FitTree
<1> QED BY <1>4, <1>5

\* What the launcher and Node find of an output in such a run.
LEMMA OutputFound ==
    ASSUME Ready, Late, NEW n \in DOMAIN outputs
    PROVE  /\ tree[HostPath(n)] = Len(inputs) + n /\ tree[HostPath(n)] > 0
           /\ file[tree[HostPath(n)]] \in Inode /\ file[tree[HostPath(n)]].links = 1
           /\ phase \notin Running => file[tree[HostPath(n)]].len = 0
           /\ phase \in Running => file[tree[HostPath(n)]].len <= fsize /\ fsize = Maximum(outputs[n])
           /\ n \in DOMAIN pinned => pinned[n] = tree[HostPath(n)]
<1> DEFINE i == Len(inputs)
           k == i + n
<1>1. TypeInv /\ ItemInv /\ PlacedInv /\ SizeInv /\ HandleInv
  BY DEF Ready, IInv
<1>2. /\ n \in Nat \ {0} /\ i \in Nat /\ k \in DOMAIN file /\ k > i
      /\ tree[HostPath(n)] = k /\ file[k].links = 1
  BY <1>1, OutputFile DEF Late
<1>3. file[k] \in Inode
  BY <1>1, <1>2, Elements DEF TypeInv
<1>4. phase \notin Running => file[k].len = 0
  BY <1>1, <1>2 DEF SizeInv, Late
<1>5. phase \in Running => file[k].len <= fsize /\ fsize = Maximum(outputs[n])
  BY <1>1, <1>2 DEF SizeInv, MaximumOf
<1>6. n \in DOMAIN pinned => pinned[n] = k
  BY <1>1 DEF HandleInv
<1> HIDE DEF k
<1>7. k > 0
  BY <1>2 DEF k
<1>8. tree[HostPath(n)] = k
  BY <1>2
<1> QED BY <1>2, <1>3, <1>4, <1>5, <1>6, <1>7, <1>8 DEF k

LEMMA LimitsAreValid ==
    ASSUME TypeInv, LimitsFit
    PROVE  LimitsValid
<1>1. limits \in Limits /\ Resolved(limits)
  BY ArtifactsAssumption, RequestType DEF TypeInv, limits
<1>2. /\ limits.inputFiles \in Nat \ {0} /\ limits.outputFiles \in Nat \ {0}
      /\ limits.inputBytes \in Nat \ {0} /\ limits.outputBytes \in Nat \ {0}
      /\ limits.inputFileBytes \in Nat \ {0} /\ limits.outputFileBytes \in Nat \ {0}
      /\ limits.inputFileBytes <= limits.inputBytes /\ limits.outputFileBytes <= limits.outputBytes
  BY <1>1 DEF Limits, Resolved
<1>3. MaxArtifactFiles \in Nat /\ MaxArtifactBytes \in Nat
  BY ArtifactsAssumption
<1> QED BY <1>2, <1>3 DEF LimitsFit, LimitsValid

LEMMA Validated ==
    ASSUME Ready, LimitsFit, InShape, OutShape, ~Meddled({"loosened"})
    PROVE  /\ ValidateInputs => refusal' = refusal
           /\ OutputsPinned => refusal' = refusal
           /\ InspectOutputs => refusal' = refusal
<1>1. ASSUME ValidateInputs PROVE refusal' = refusal
  <2>1. phase = "validate"
    BY <1>1 DEF ValidateInputs
  <2>2. LimitsValid
    BY LimitsAreValid DEF Ready, IInv
  <2> QED BY <1>1, <2>1, <2>2, InputsFit DEF ValidateInputs, Skip, Go
<1>2. ASSUME OutputsPinned PROVE refusal' = refusal
  <2>1. phase = "stat" /\ Late
    BY <1>2 DEF OutputsPinned, Late
  <2>2. Cardinality(Files("output")) = Len(outputs)
    BY <2>1, OutputEntriesHold
  <2> QED BY <1>2, <2>1, <2>2, OutputsFit DEF OutputsPinned, Skip, Go
<1>3. ASSUME InspectOutputs PROVE refusal' = refusal
  BY <1>3, OutputsFit DEF InspectOutputs, Skip, Go
<1> QED BY <1>1, <1>2, <1>3

LEMMA OpenedAndMounted ==
    ASSUME Ready
    PROVE  /\ OpenOutput => refusal' = refusal
           /\ MountOutput => refusal' = refusal
<1>1. TypeInv /\ ItemInv /\ PinInv
  BY DEF Ready, IInv
<1>2. ASSUME OpenOutput PROVE refusal' = refusal
  <2>1. phase = "open" /\ Late /\ item \in DOMAIN outputs
    <3>1. phase = "open" /\ Late
      BY <1>2 DEF OpenOutput, Late
    <3>2. item \in Nat \ {0} /\ item <= Len(outputs)
      BY <1>1, <3>1 DEF TypeInv, ItemInv
    <3> QED BY <1>1, <3>1, <3>2, OutputCount
  <2>2. tree[HostPath(item)] > 0
    BY <2>1, OutputFound
  <2> QED BY <1>2, <2>2 DEF OpenOutput, Go
<1>3. ASSUME MountOutput PROVE refusal' = refusal
  <2>1. phase = "mount" /\ Late /\ item \in DOMAIN outputs
    BY <1>3 DEF MountOutput, Late
  <2>2. item \in DOMAIN pinned
    <3>1. Len(pinned) = Len(outputs) /\ DOMAIN pinned = 1 .. Len(pinned)
      BY <1>1, <2>1, Elements DEF TypeInv, PinInv
    <3> QED BY <1>1, <2>1, <3>1, OutputCount
  <2>3. tree[HostPath(item)] = pinned[item]
    BY <2>1, <2>2, OutputFound
  <2> QED BY <1>3, <2>1, <2>3 DEF MountOutput, Go
<1> QED BY <1>2, <1>3

LEMMA Stated ==
    ASSUME Ready, ~OutSlash, \A n \in DOMAIN outputs : BytesFit(n)
    PROVE  StatOutput => refusal' = refusal
<1> SUFFICES ASSUME StatOutput PROVE refusal' = refusal
  OBVIOUS
<1> DEFINE D == 1 .. item
           maxima == [n \in D |-> Maximum(outputs[n])]
           all == [n \in DOMAIN outputs |-> Maximum(outputs[n])]
           O == DOMAIN outputs
<1>1. phase = "stat" /\ Late /\ item \in DOMAIN outputs /\ phase \notin Running
  BY DEF StatOutput, Late, Running
<1>2. TypeInv /\ ItemInv /\ phase \notin {"plan", "refused"}
  BY <1>1 DEF Ready, IInv
<1>3. item \in Nat \ {0} /\ item <= Len(outputs) /\ 1 \in O /\ D \subseteq O /\ item \in D /\ 1 \in D
  <2>1. O = 1 .. Len(outputs) /\ Len(outputs) \in Nat
    BY <1>2, OutputCount
  <2> QED BY <1>1, <2>1
<1>4. /\ Len(outputs) <= limits.outputFiles
      /\ Maximum(outputs[item]) = Maximum(outputs[1])
      /\ Maximum(outputs[item]) <= limits.outputFileBytes
      /\ Maximum(outputs[item]) \in Nat \ {0}
      /\ SumFunction(all) <= limits.outputBytes
  BY <1>1, <1>2, Accepted, RequestType
<1>5. maxima[item] = Maximum(outputs[item]) /\ maxima[1] = Maximum(outputs[1])
  BY <1>3
<1>6. limits.outputBytes \in Nat /\ limits.outputFileBytes \in Nat
  BY <1>2, RequestType DEF Limits
<1>7. SumFunction(maxima) <= limits.outputBytes
  <2>1. /\ Terms(maxima, D) /\ IsFiniteSet(D) /\ SumFunction(maxima) = SumFunctionOnSet(maxima, D)
    BY <1>2, <1>3, MaximaSum
  <2>2. /\ Terms(all, O) /\ IsFiniteSet(O) /\ SumFunction(all) = SumFunctionOnSet(all, O)
        /\ \A n \in O : all[n] \in Nat
    BY <1>2, MaximaSum
  <2>3. \A n \in D : maxima[n] = all[n]
    BY <1>3
  <2> HIDE DEF maxima, all, D, O
  <2>4. D \in SUBSET O
    BY <1>3
  <2>5. SumFunctionOnSet(maxima, D) = SumFunctionOnSet(all, D)
    BY <2>1, <2>3, SumSame
  <2>6. SumFunctionOnSet(all, D) <= SumFunctionOnSet(all, O)
    BY <2>2, <2>4, SumSubset
  <2>7. SumFunctionOnSet(maxima, D) \in Int /\ SumFunctionOnSet(all, O) \in Int
    BY <2>1, <2>2, SumType
  <2> QED BY <1>4, <1>6, <2>1, <2>2, <2>5, <2>6, <2>7
<1>8. maxima[item] = maxima[1] /\ maxima[item] \in 1 .. limits.outputFileBytes
  BY <1>4, <1>5, <1>6
<1>9. Bytes(outputs[item].path) <= MaxPath /\ ~EndsInSlash(outputs[item].path)
  BY <1>1 DEF OutSlash, BytesFit
<1>10. /\ tree[HostPath(item)] > 0 /\ file[tree[HostPath(item)]].links = 1
       /\ file[tree[HostPath(item)]].len = 0
  BY <1>1, OutputFound
<1>11. Skip("open", item)
  BY <1>4, <1>7, <1>8, <1>9, <1>10 DEF StatOutput
<1> QED BY <1>11 DEF Skip, Go

LEMMA Unwritten ==
    ASSUME ~Touched
    PROVE  ~Meddled({"written"})
BY DEF Touched, Meddled

\* What the monitor counts stays within the limits.
LEMMA ScanRoom ==
    ASSUME Ready, phase = "guest"
    PROVE  LET F == Files("output")
               D == Folders("output")
           IN  /\ IsFiniteSet(F) /\ Cardinality(F) \in Nat /\ IsFiniteSet(D) /\ Cardinality(D) \in Nat
               /\ Cardinality(F) + Cardinality(D) <= EntryLimit(limits.outputFiles)
               /\ \A p \in D : Shallow(p)
               /\ EntryLimit(limits.outputFiles) \in Int
<1>1. TypeInv /\ ItemInv /\ PlacedInv /\ Late
  BY DEF Ready, IInv, Late
<1>2. OutShape
  BY DEF Ready, FitInv, Running
<1>3. ShapeFits("output", limits.outputFiles)
  BY <1>1, <1>2, ShapeIs
<1>4. IsFiniteSet(Files("output")) /\ Cardinality(Files("output")) \in Nat
  BY <1>1, OutputEntriesHold
<1>5. IsFiniteSet(Folders("output")) /\ Cardinality(Folders("output")) \in Nat
  BY <1>1, FoldersOf DEF Late
<1>6. limits.outputFiles \in Nat
  BY <1>1, RequestType DEF Limits
<1>7. EntryLimit(limits.outputFiles) \in Int
  BY <1>6, ArtifactsAssumption DEF EntryLimit, MinOf
<1> QED BY <1>3, <1>4, <1>5, <1>7 DEF ShapeFits

LEMMA FolderScanned ==
    ASSUME Ready, NEW p \in Folders("output")
    PROVE  ScanFolder(p) => refusal' = refusal
<1> SUFFICES ASSUME ScanFolder(p) PROVE refusal' = refusal
  OBVIOUS
<1> DEFINE F == Files("output")
           D == Folders("output")
           seen == scan.seen
           folders == scan.folders
           limit == EntryLimit(limits.outputFiles)
<1>1. phase = "guest" /\ p \notin folders
  BY DEF ScanFolder
<1>2. /\ IsFiniteSet(seen) /\ seen \subseteq F /\ IsFiniteSet(folders) /\ folders \subseteq D
  BY <1>1 DEF Ready, ScanInv
<1>3. /\ IsFiniteSet(F) /\ Cardinality(F) \in Nat /\ IsFiniteSet(D) /\ Cardinality(D) \in Nat
      /\ Cardinality(F) + Cardinality(D) <= limit /\ limit \in Int
      /\ \A q \in D : Shallow(q)
  BY <1>1, ScanRoom
<1>4. p \in D
  OBVIOUS
<1> HIDE DEF F, D, seen, folders, limit
<1>5. /\ Cardinality(seen) \in Nat /\ Cardinality(seen) <= Cardinality(F)
  BY <1>2, <1>3, FS_Subset, FS_CardinalityType
<1>6. Cardinality(folders) \in Nat /\ Cardinality(folders) + 1 <= Cardinality(D)
  <2>1. IsFiniteSet(folders \cup {p}) /\ Cardinality(folders \cup {p}) = Cardinality(folders) + 1
    BY <1>1, <1>2, FS_AddElement
  <2>2. folders \cup {p} \subseteq D
    BY <1>2, <1>4
  <2> QED BY <1>2, <1>3, <2>1, <2>2, FS_Subset, FS_CardinalityType
<1>7. Cardinality(seen) + Cardinality(folders) + 1 <= limit
  BY <1>3, <1>5, <1>6
<1>8. FolderFits(p, Counted, limits.outputFiles)
  BY <1>3, <1>4, <1>7 DEF FolderFits, Counted, seen, folders, limit
<1> QED BY <1>8 DEF ScanFolder, ScanGoesOn

LEMMA Scanned ==
    ASSUME Ready, NEW p \in Files("output")
    PROVE  ScanFile(p) => refusal' = refusal
<1> SUFFICES ASSUME ScanFile(p) PROVE refusal' = refusal
  OBVIOUS
<1> DEFINE e == file[tree[p]]
           seen == scan.seen
           E == Files("output")
           c == Cardinality(seen)
           b == fsize + (Block - 1)
           l == Len(outputs)
           D == Folders("output")
           folders == scan.folders
           limit == EntryLimit(limits.outputFiles)
<1>1. phase = "guest" /\ Late /\ phase \in Running /\ p \notin seen
  BY DEF ScanFile, Late, Running
<1>2. TypeInv /\ ItemInv /\ PlacedInv /\ SizeInv /\ BoundInv /\ ScanInv
  BY DEF Ready, IInv
<1>3. /\ IsFiniteSet(E) /\ Cardinality(E) = l /\ l \in Nat /\ l <= limits.outputFiles
      /\ limits.outputFiles \in Nat
  BY <1>1, OutputEntriesHold
<1>4. /\ IsFiniteSet(seen) /\ seen \subseteq E
      /\ scan.bytes \in Nat /\ scan.allocated \in Nat
      /\ scan.bytes <= c * fsize /\ scan.allocated <= c * b
  BY <1>1, <1>2 DEF ScanInv
<1>5. /\ tree[p] \in DOMAIN file /\ tree[p] > Len(inputs) /\ tree[p] # Symlink /\ e.links = 1
  BY <1>1, <1>2, EntryFile DEF Late
<1>6. /\ e.len \in Nat /\ e.blocks \in Nat /\ fsize \in Nat
      /\ e.len <= fsize /\ e.blocks <= b /\ b \in Nat
  BY <1>1, <1>2, <1>5, WrittenFits
<1>7. /\ l * fsize <= limits.outputBytes /\ fsize <= limits.outputFileBytes
  BY <1>1, OutputBudget
<1>8. limits.outputBytes \in Nat /\ limits.outputFileBytes \in Nat
  BY <1>2, RequestType DEF Limits
<1>9. Block - 1 \in Nat
  BY ArtifactsAssumption
<1>10. p \in E
  OBVIOUS
<1>21. /\ folders \subseteq D /\ IsFiniteSet(D) /\ Cardinality(D) \in Nat
       /\ Cardinality(E) + Cardinality(D) <= limit /\ limit \in Int
  BY <1>1, <1>2, ScanRoom DEF ScanInv
<1> HIDE DEF E, e, seen, D, folders, limit
<1>11. c \in Nat /\ c + 1 <= l
  <2>1. IsFiniteSet(seen \cup {p}) /\ Cardinality(seen \cup {p}) = c + 1
    BY <1>1, <1>4, FS_AddElement
  <2>2. seen \cup {p} \subseteq E
    BY <1>4, <1>10
  <2>3. Cardinality(seen \cup {p}) <= Cardinality(E)
    BY <1>3, <2>1, <2>2, FS_Subset
  <2>4. c \in Nat
    BY <1>4, FS_CardinalityType
  <2> QED BY <1>3, <2>1, <2>3, <2>4
<1>22. c + Cardinality(folders) + 1 <= limit
  <2>1. Cardinality(folders) \in Nat /\ Cardinality(folders) <= Cardinality(D)
    BY <1>21, FS_Subset, FS_CardinalityType
  <2> HIDE DEF c, l
  <2> QED BY <1>3, <1>11, <1>21, <2>1
<1>12. l * b = l * fsize + l * (Block - 1)
  <2> HIDE DEF l
  <2> QED BY <1>3, <1>6, <1>9 DEF b
<1> HIDE DEF c, b, l
<1>13. /\ (c + 1) * fsize = c * fsize + fsize /\ c * fsize \in Nat
       /\ (c + 1) * b = c * b + b /\ c * b \in Nat
  BY <1>6, <1>11, OneMore
<1>14. (c + 1) * fsize <= l * fsize /\ (c + 1) * b <= l * b
  BY <1>3, <1>6, <1>11, Times
<1>15. l * (Block - 1) <= limits.outputFiles * (Block - 1)
  BY <1>3, <1>9, Times
<1>16. l * fsize \in Nat /\ l * b \in Nat /\ l * (Block - 1) \in Nat
       /\ limits.outputFiles * (Block - 1) \in Nat
  BY <1>3, <1>6, <1>9
<1>17. scan.bytes + e.len <= limits.outputBytes
  BY <1>4, <1>6, <1>7, <1>8, <1>13, <1>14, <1>16
<1>18. scan.allocated + e.blocks <= limits.outputBytes + limits.outputFiles * (Block - 1)
  BY <1>4, <1>6, <1>7, <1>8, <1>12, <1>13, <1>14, <1>15, <1>16
<1>19. e.len <= limits.outputFileBytes /\ c + 1 <= limits.outputFiles
  BY <1>3, <1>6, <1>7, <1>8, <1>11
<1>20. FileFits(p, Counted, Cardinality(scan.seen), scan.bytes, scan.allocated,
                limits.outputFiles, limits.outputBytes, limits.outputFileBytes)
  BY <1>5, <1>17, <1>18, <1>19, <1>22 DEF FileFits, Counted, c, e, seen, folders, limit
<1> QED BY <1>20 DEF ScanFile, ScanGoesOn

LEMMA Hashed ==
    ASSUME Ready
    PROVE  HashOutput => refusal' = refusal
<1> SUFFICES ASSUME HashOutput PROVE refusal' = refusal
  OBVIOUS
<1>1. phase = "hash" /\ Late /\ phase \in Running /\ item \in DOMAIN outputs
  BY DEF HashOutput, Late, Running
<1>2. TypeInv /\ PinInv
  BY DEF Ready, IInv
<1>3. item \in DOMAIN pinned
  <2>1. DOMAIN pinned = 1 .. Len(pinned) /\ Len(pinned) \in Nat /\ Len(mounted) \in Nat
    BY <1>2, Elements DEF TypeInv
  <2>2. Len(mounted) = Len(outputs) /\ Len(mounted) <= Len(pinned)
    BY <1>1, <1>2 DEF PinInv
  <2> QED BY <1>1, <1>2, <2>1, <2>2, OutputCount
<1>4. file[pinned[item]].links = 1 /\ file[pinned[item]].len <= Maximum(outputs[item])
  BY <1>1, <1>3, OutputFound
<1> QED BY <1>4 DEF HashOutput, Skip, Go

\* Node finds by path what the launcher hashed.
LEMMA ReadAsReported ==
    ASSUME Ready, phase = "read", NEW k \in DOMAIN manifest
    PROVE  /\ manifest[k].output \in DOMAIN outputs
           /\ manifest[k].content.len \in Nat /\ manifest[k].content.len <= fsize
           /\ fsize = Maximum(outputs[manifest[k].output])
           /\ LET ino == tree[HostPath(manifest[k].output)]
              IN  ino > 0 /\ file[ino].links = 1 /\ Content(file[ino]) = manifest[k].content
<1> DEFINE n == manifest[k].output
<1>1. Late /\ phase \in Running
  BY DEF Late, Running
<1>2. TypeInv /\ PinInv /\ ReportInv /\ ContentInv /\ ListInv /\ ~Meddled({"written"})
  BY Unwritten DEF Ready, IInv, Calm
<1>3. manifest[k] \in Reports
  BY <1>2, Elements DEF TypeInv
<1>4. n \in DOMAIN outputs /\ manifest[k].content \in Written
  BY <1>3 DEF Reports
<1>5. n \in DOMAIN pinned /\ n \in DOMAIN mounted
  <2>1. /\ DOMAIN pinned = 1 .. Len(pinned) /\ Len(pinned) \in Nat
        /\ DOMAIN mounted = 1 .. Len(mounted) /\ Len(mounted) \in Nat
    BY <1>2, Elements DEF TypeInv
  <2>2. Len(mounted) = Len(outputs) /\ Len(mounted) <= Len(pinned)
    BY <1>2 DEF PinInv
  <2> HIDE DEF n
  <2> QED BY <1>2, <1>4, <2>1, <2>2, OutputCount
<1>6. /\ tree[HostPath(n)] > 0 /\ file[tree[HostPath(n)]].links = 1
      /\ fsize = Maximum(outputs[n]) /\ pinned[n] = tree[HostPath(n)]
  BY <1>1, <1>4, <1>5, OutputFound
<1>7. manifest[k].content = left[n]
  BY <1>2 DEF ReportInv
<1>8. Content(file[mounted[n]]) = left[n]
  BY <1>2, <1>5 DEF ContentInv
<1>9. mounted[n] = pinned[n]
  BY <1>2, <1>5 DEF PinInv
<1>10. Content(file[tree[HostPath(n)]]) = manifest[k].content
  BY <1>6, <1>7, <1>8, <1>9
<1>11. manifest[k].content.len \in Nat /\ manifest[k].content.len <= fsize
  BY <1>2, <1>4 DEF Written, ListInv
<1> QED BY <1>4, <1>6, <1>10, <1>11

LEMMA CollectedWhole ==
    ASSUME Ready
    PROVE  /\ ReadArtifact => refusal' = refusal
           /\ Collected => refusal' = refusal
<1>1. TypeInv /\ ItemInv /\ ReportInv /\ ListInv
  BY DEF Ready, IInv
<1>2. /\ DOMAIN manifest = 1 .. Len(manifest) /\ Len(manifest) \in Nat
      /\ DOMAIN delivered = 1 .. Len(delivered) /\ Len(delivered) \in Nat
      /\ item \in Nat \ {0} /\ Len(manifest) <= Len(outputs) /\ Len(outputs) \in Nat
      /\ limits.outputBytes \in Nat
  <2>1. limits.outputBytes \in Nat
    BY <1>1, RequestType DEF Limits
  <2> QED BY <1>1, <2>1, Elements, OutputCount DEF TypeInv, ItemInv
<1>3. phase = "read" => /\ Len(delivered) = item - 1
                        /\ \A k \in DOMAIN delivered : k \in DOMAIN manifest
                                                       /\ delivered[k] = manifest[k]
  BY <1>1 DEF ReportInv
<1>4. ASSUME ReadArtifact PROVE refusal' = refusal
  <2> DEFINE lens == [n \in 1 .. item |-> manifest[n].content.len]
             D == 1 .. item
             l == Len(outputs)
             m == manifest[item]
  <2>1. phase = "read" /\ phase \in Running /\ item \in DOMAIN manifest
    BY <1>4 DEF ReadArtifact, Running
  <2>2. item <= l /\ D \subseteq DOMAIN manifest /\ item \in D
    BY <1>2, <2>1
  <2>3. \A d \in ToSet(delivered) : d.output # m.output
    <3>1. ASSUME NEW k \in DOMAIN delivered PROVE delivered[k].output # m.output
      <4>1. k \in DOMAIN manifest /\ k < item /\ delivered[k] = manifest[k]
        BY <1>2, <1>3, <2>1
      <4>2. manifest[k].output < manifest[item].output
        BY <1>1, <2>1, <4>1 DEF ListInv
      <4>3. manifest[k].output \in Nat /\ manifest[item].output \in Nat
        <5>1. manifest[k].output \in DOMAIN outputs /\ manifest[item].output \in DOMAIN outputs
          BY <2>1, <4>1, ReadAsReported
        <5> QED BY <1>1, <5>1, OutputCount
      <4> QED BY <4>1, <4>2, <4>3
    <3> QED BY <3>1 DEF ToSet
  <2>4. /\ m.content.len <= Maximum(outputs[m.output])
        /\ tree[HostPath(m.output)] > 0 /\ file[tree[HostPath(m.output)]].links = 1
        /\ Content(file[tree[HostPath(m.output)]]) = m.content
    BY <2>1, ReadAsReported
  <2>5. \A n \in D : lens[n] \in Nat /\ lens[n] <= fsize
    BY <2>1, <2>2, ReadAsReported
  <2>6. fsize \in Nat /\ l * fsize <= limits.outputBytes
    BY <2>1, OutputBudget
  <2>7. SumFunction(lens) <= limits.outputBytes
    <3>1. IsFiniteSet(D) /\ Cardinality(D) = item
      <4> HIDE DEF D
      <4>0. item \in Nat \ {0} /\ item \in Int /\ 1 \in Int
        BY <1>2
      <4> HIDE DEF lens, l, m
      <4>1. IsFiniteSet(1 .. item) /\ Cardinality(1 .. item) = IF 1 > item THEN 0 ELSE item - 1 + 1
        BY <4>0, FS_Interval
      <4> QED BY <4>0, <4>1 DEF D
    <3>2. DOMAIN lens = D
      OBVIOUS
    <3> HIDE DEF lens, D, l
    <3>3. Terms(lens, D)
      BY <2>5 DEF Terms
    <3>4. SumFunctionOnSet(lens, D) <= item * fsize
      BY <2>5, <2>6, <3>1, <3>3, SumAtMost
    <3>5. item * fsize <= l * fsize
      BY <1>2, <2>2, <2>6, Times DEF l
    <3>6. SumFunctionOnSet(lens, D) \in Int
      BY <3>1, <3>3, SumType
    <3>7. item * fsize \in Int /\ l * fsize \in Int
      BY <1>2, <2>6 DEF l
    <3>8. SumFunctionOnSet(lens, D) <= limits.outputBytes
      BY <1>2, <2>6, <3>4, <3>5, <3>6, <3>7
    <3> QED BY <3>2, <3>8 DEF SumFunction
  <2>8. Deliver(Content(file[tree[HostPath(m.output)]]))
    BY <1>4, <2>3, <2>4, <2>7 DEF ReadArtifact
  <2> QED BY <2>8 DEF Deliver, Go
<1>5. ASSUME Collected PROVE refusal' = refusal
  <2>1. phase = "read" /\ item = Len(manifest) + 1
    BY <1>5 DEF Collected
  <2>2. ~Meddled({"written"})
    BY Unwritten DEF Ready, Calm
  <2>3. DOMAIN delivered = DOMAIN manifest
    <3> DEFINE d == Len(delivered)
               m == Len(manifest)
    <3>1. d = item - 1 /\ item = m + 1 /\ m \in Nat
      BY <1>2, <1>3, <2>1
    <3> HIDE DEF d, m
    <3>2. d = m
      BY <3>1
    <3> QED BY <1>2, <3>2 DEF d, m
  <2>4. \A n \in DOMAIN outputs :
           \/ \E k \in DOMAIN manifest : manifest[k].output = n
           \/ ~outputs[n].required /\ left[n].len = 0
    BY <1>1, <2>1, <2>2 DEF ReportInv
  <2>5. ASSUME NEW k \in DOMAIN manifest
        PROVE  delivered[k] \in ToSet(delivered) /\ delivered[k] = manifest[k]
    BY <1>3, <2>1, <2>3 DEF ToSet
  <2>6. \A n \in DOMAIN outputs :
           outputs[n].required => \E d \in ToSet(delivered) : d.output = n
    BY <2>4, <2>5
  <2> QED BY <1>5, <2>6 DEF Collected, Skip, Go
<1> QED BY <1>4, <1>5

-----------------------------------------------------------------------------
(* Why a run is refused.                                                    *)

Justified ==
    /\ refusal = "collision" => InSlash \/ OutSlash
    /\ refusal = "source" => Meddled({"source", "unseen"})
    /\ refusal = "native" => Touched \/ Meddled({"loosened"}) \/ OutSlash \/ ~Fit
    /\ refusal \in {"alarm", "collect"} => Touched

LEMMA JustifiedIs ==
    ASSUME Justified, CalmFit
    PROVE  RefusalsJustified
<1>1. (\E p \in OutputPaths : EndsInSlash(p)) <=> OutSlash
  BY DEF OutSlash, OutputPaths
<1>2. (\E p \in TargetPaths \cup OutputPaths : EndsInSlash(p)) <=> InSlash \/ OutSlash
  BY DEF OutSlash, InSlash, TargetPaths, OutputPaths
<1>3. ASSUME phase \in {"mount"} \cup Running, ~Touched PROVE Fit /\ ~OutSlash
  <2>1. FitInv
    BY <1>3 DEF CalmFit, Calm, Running
  <2>2. /\ LimitsFit /\ InShape /\ OutShape
        /\ \A n \in DOMAIN outputs : BytesFit(n) /\ ~EndsInSlash(outputs[n].path)
    BY <1>3, <2>1 DEF FitInv, Found
  <2>3. ~OutSlash
    BY <2>2 DEF OutSlash
  <2> QED BY <2>2, <2>3, FitIs
<1>4. phase \in {"mount", "guest", "inspect", "hash", "read", "done"} => Touched \/ (Fit /\ ~OutSlash)
  BY <1>3 DEF Running
<1> QED BY <1>1, <1>2, <1>4 DEF RefusalsJustified, Justified, Touched

\* The launcher's own checks; the monitor's; Node's at the end.
Checks ==
    ValidateInputs \/ StatOutput \/ OpenOutput \/ OutputsPinned \/ MountOutput
    \/ InspectOutputs \/ HashOutput
Scans ==
    \/ \E p \in Files("output") : ScanFile(p)
    \/ \E p \in Folders("output") : ScanFolder(p)

LEMMA RefusalSteps ==
    ASSUME [Next]_vars
    PROVE  \/ refusal' = refusal
           \/ refusal' \in {"plan", "limit", "aborted"}
           \/ refusal' = "collision" /\ (InputCollides \/ StageOutput)
           \/ refusal' = "source" /\ (SourceShrank \/ EndInput)
           \/ refusal' = "native" /\ Checks
           \/ refusal' = "alarm" /\ Scans
           \/ refusal' = "collect" /\ (ReadArtifact \/ Collected)
<1> DEFINE Goal ==
           \/ refusal' = refusal
           \/ refusal' \in {"plan", "limit", "aborted"}
           \/ refusal' = "collision" /\ (InputCollides \/ StageOutput)
           \/ refusal' = "source" /\ (SourceShrank \/ EndInput)
           \/ refusal' = "native" /\ Checks
           \/ refusal' = "alarm" /\ Scans
           \/ refusal' = "collect" /\ (ReadArtifact \/ Collected)
<1> USE DEF Go, Skip, Refuse
<1>1. ASSUME Node PROVE Goal
  <2>1. CASE Plan \/ BeginInput \/ CopyChunk \/ InputsStaged \/ Staged
    BY <2>1 DEF Plan, BeginInput, CopyChunk, InputsStaged, Staged
  <2>2. CASE PlanRefuses \/ InputTooLarge \/ ChunkTooLarge \/ Aborted
    BY <2>2 DEF PlanRefuses, InputTooLarge, ChunkTooLarge, Aborted
  <2>3. CASE InputCollides
    BY <2>3 DEF InputCollides
  <2>4. CASE SourceShrank
    BY <2>4 DEF SourceShrank
  <2>5. ASSUME EndInput PROVE refusal' = refusal \/ refusal' = "source"
    BY <2>5 DEF EndInput, InputTaken
  <2>6. ASSUME StageOutput PROVE refusal' = refusal \/ refusal' = "collision"
    BY <2>6 DEF StageOutput
  <2>7. ASSUME ReadArtifact PROVE refusal' = refusal \/ refusal' = "collect"
    BY <2>7 DEF ReadArtifact, Deliver
  <2>8. ASSUME Collected PROVE refusal' = refusal \/ refusal' = "collect"
    BY <2>8 DEF Collected
  <2> HIDE DEF Go, Skip, Refuse
  <2> QED BY <1>1, <2>1, <2>2, <2>3, <2>4, <2>5, <2>6, <2>7, <2>8 DEF Node
<1>2. ASSUME Native PROVE Goal
  <2>1. ASSUME ValidateInputs \/ OutputsPinned \/ InspectOutputs
        PROVE  refusal' = refusal \/ refusal' = "native"
    BY <2>1 DEF ValidateInputs, OutputsPinned, InspectOutputs
  <2>2. ASSUME StatOutput PROVE refusal' = refusal \/ refusal' = "native"
    BY <2>2 DEF StatOutput
  <2>3. ASSUME OpenOutput \/ MountOutput PROVE refusal' = refusal \/ refusal' = "native"
    BY <2>3 DEF OpenOutput, MountOutput
  <2>4. ASSUME HashOutput PROVE refusal' = refusal \/ refusal' = "native"
    BY <2>4 DEF HashOutput
  <2>5. ASSUME NEW p, ScanFile(p) \/ ScanFolder(p)
        PROVE  refusal' = refusal \/ refusal' = "alarm"
    BY <2>5 DEF ScanFile, ScanFolder, ScanGoesOn, Alarm
  <2>6. CASE Harden \/ ScanDone \/ Answered
    BY <2>6 DEF Harden, ScanDone, ScanGoesOn, Answered
  <2> HIDE DEF Go, Skip, Refuse
  <2> QED BY <1>2, <2>1, <2>2, <2>3, <2>4, <2>5, <2>6 DEF Native, Checks, Scans
<1>3. ASSUME NEW n \in DOMAIN mounted, GuestWrites(n) \/ GuestPreallocates(n) PROVE Goal
  BY <1>3 DEF GuestWrites, GuestPreallocates, Wrote
<1>4. ASSUME GuestEnds \/ SourceEdited \/ HostLoosens PROVE Goal
  BY <1>4 DEF GuestEnds, SourceEdited, HostLoosens, Meddle
<1>5. ASSUME NEW p, HostReplaces(p) \/ HostWrites(p) PROVE Goal
  BY <1>5 DEF HostReplaces, HostWrites, Meddle
<1>6. ASSUME UNCHANGED vars PROVE Goal
  BY <1>6 DEF vars
<1> HIDE DEF Goal, Go, Skip, Refuse
<1>7. Goal
  BY <1>1, <1>2, <1>3, <1>4, <1>5, <1>6 DEF Next
<1> QED BY <1>7 DEF Goal

LEMMA CalmReady ==
    ASSUME IInv, BoundInv, EditInv, CalmInv, CalmFit, Calm
    PROVE  Ready
BY DEF Ready, CalmInv, CalmFit

\* What the launcher has found when it goes on.
LEMMA CheckSteps ==
    ASSUME TypeInv, [Next]_vars
    PROVE  \/ phase' \in {"plan", "stageInput", "copy", "stageOutput", "validate", "refused"}
           \/ phase' = phase /\ (phase \in {"stat", "open"} => item' = item)
           \/ phase \in {"mount"} \cup Running /\ phase' \in {"mount"} \cup Running
           \/ /\ phase = "validate" /\ phase' = "stat" /\ item' = 1
              /\ LimitsValid /\ ShapeFits("input", limits.inputFiles)
           \/ /\ phase = "stat" /\ phase' = "open" /\ item' = item /\ Found(item)
           \/ /\ phase = "open" /\ phase' = "stat" /\ item' = item + 1
           \/ /\ phase = "stat" /\ item = Len(outputs) + 1 /\ phase' = "mount"
              /\ ShapeFits("output", limits.outputFiles)
<1> DEFINE Goal ==
           \/ phase' \in {"plan", "stageInput", "copy", "stageOutput", "validate", "refused"}
           \/ phase' = phase /\ (phase \in {"stat", "open"} => item' = item)
           \/ phase \in {"mount"} \cup Running /\ phase' \in {"mount"} \cup Running
           \/ /\ phase = "validate" /\ phase' = "stat" /\ item' = 1
              /\ LimitsValid /\ ShapeFits("input", limits.inputFiles)
           \/ /\ phase = "stat" /\ phase' = "open" /\ item' = item /\ Found(item)
           \/ /\ phase = "open" /\ phase' = "stat" /\ item' = item + 1
           \/ /\ phase = "stat" /\ item = Len(outputs) + 1 /\ phase' = "mount"
              /\ ShapeFits("output", limits.outputFiles)
<1> USE DEF Go, Skip
<1>1. ASSUME NEW why, Refuse(why) PROVE Goal
  BY <1>1 DEF Refuse
<1>2. ASSUME Node PROVE Goal
  <2>1. CASE Plan \/ BeginInput \/ CopyChunk \/ InputsStaged \/ Staged
    BY <2>1 DEF Plan, BeginInput, CopyChunk, InputsStaged, Staged
  <2>2. CASE EndInput
    BY <1>1, <2>2 DEF EndInput, InputTaken
  <2>3. CASE StageOutput
    BY <1>1, <2>3 DEF StageOutput
  <2>4. CASE ReadArtifact
    BY <1>1, <2>4 DEF ReadArtifact, Deliver
  <2>5. CASE Collected
    BY <1>1, <2>5 DEF Collected, Running
  <2> HIDE DEF Goal, Go, Skip
  <2> QED BY <1>1, <1>2, <2>1, <2>2, <2>3, <2>4, <2>5 DEF Node, PlanRefuses, InputCollides,
     InputTooLarge, SourceShrank, ChunkTooLarge, Aborted
<1>3. ASSUME Native PROVE Goal
  <2>1. CASE ValidateInputs
    <3>1. CASE Refuse("native")
      BY <1>1, <3>1
    <3>2. CASE ~Refuse("native")
      BY <2>1, <3>2 DEF ValidateInputs, TreeFits
    <3> QED BY <3>1, <3>2
  <2>2. CASE StatOutput
    <3>1. CASE Refuse("native")
      BY <1>1, <3>1
    <3>2. CASE ~Refuse("native")
      BY <2>2, <3>2 DEF StatOutput, Found, BytesFit
    <3> QED BY <3>1, <3>2
  <2>3. CASE OpenOutput
    BY <1>1, <2>3 DEF OpenOutput
  <2>4. CASE OutputsPinned
    <3>1. CASE Refuse("native")
      BY <1>1, <3>1
    <3>2. CASE ~Refuse("native")
      BY <2>4, <3>2 DEF OutputsPinned, TreeFits
    <3> QED BY <3>1, <3>2
  <2>5. CASE MountOutput
    BY <1>1, <2>5 DEF MountOutput
  <2>6. CASE Harden
    BY <2>6 DEF Harden, Running
  <2>7. ASSUME NEW p, ScanFile(p) \/ ScanFolder(p) PROVE Goal
    BY <2>7 DEF ScanFile, ScanFolder, ScanGoesOn, Alarm
  <2>8. CASE ScanDone
    BY <2>8 DEF ScanDone, ScanGoesOn
  <2>9. CASE InspectOutputs
    BY <1>1, <2>9 DEF InspectOutputs, Running
  <2>10. CASE HashOutput
    BY <1>1, <2>10 DEF HashOutput
  <2>11. CASE Answered
    BY <2>11 DEF Answered, Running
  <2> HIDE DEF Goal, Go, Skip
  <2> QED BY <1>3, <2>1, <2>2, <2>3, <2>4, <2>5, <2>6, <2>7, <2>8, <2>9, <2>10, <2>11 DEF Native
<1>4. ASSUME NEW n \in DOMAIN mounted, GuestWrites(n) \/ GuestPreallocates(n) PROVE Goal
  BY <1>4 DEF GuestWrites, GuestPreallocates, Wrote
<1>5. ASSUME GuestEnds PROVE Goal
  BY <1>5 DEF GuestEnds, Running
<1>6. ASSUME (\E p : HostReplaces(p) \/ HostWrites(p)) \/ SourceEdited \/ HostLoosens PROVE Goal
  BY <1>6 DEF HostReplaces, HostWrites, SourceEdited, HostLoosens, Meddle
<1>7. ASSUME UNCHANGED vars PROVE Goal
  BY <1>7 DEF vars
<1> HIDE DEF Goal, Go, Skip
<1>8. Goal
  BY <1>2, <1>3, <1>4, <1>5, <1>6, <1>7 DEF Next
<1> QED BY <1>8 DEF Goal

LEMMA NextFit ==
    ASSUME IInv, CalmInv, CalmFit, [Next]_vars
    PROVE  CalmFit'
<1> SUFFICES ASSUME Calm' PROVE FitInv'
  BY DEF CalmFit
<1>1. TypeInv /\ ItemInv /\ ~Touched /\ phase' \notin {"plan", "refused"}
  BY Untouched DEF IInv, Calm
<1>2. Running' = Running
  BY DEF Running
<1>3. request' = request
  BY <1>1, PhaseSteps
<1>4. /\ inputs' = inputs /\ outputs' = outputs /\ limits' = limits
  BY <1>3 DEF inputs, outputs, limits
<1>5. \A n : Found(n)' <=> Found(n)
  BY <1>4 DEF Found, BytesFit, EndsInSlash
<1>6. LimitsFit' <=> LimitsFit
  BY <1>4 DEF LimitsFit
<1>7. (InShape' <=> InShape) /\ (OutShape' <=> OutShape)
  BY <1>4 DEF InShape, OutShape, Above, TargetPaths, OutputPaths, EntryLimit
<1>8. CASE phase' \in {"plan", "stageInput", "copy", "stageOutput", "validate", "refused"}
  BY <1>2, <1>8 DEF FitInv, Running
<1>9. item \in Nat \ {0} /\ DOMAIN outputs = 1 .. Len(outputs) /\ Len(outputs) \in Nat
  BY <1>1, RequestType DEF TypeInv
<1>10. ASSUME phase' = phase, phase \in {"stat", "open"} => item' = item PROVE FitInv'
  <2>1. FitInv
    BY <1>1, <1>10 DEF CalmFit, Calm
  <2> QED BY <1>2, <1>4, <1>5, <1>6, <1>7, <1>10, <2>1 DEF FitInv
<1>11. ASSUME phase \in {"mount"} \cup Running, phase' \in {"mount"} \cup Running PROVE FitInv'
  <2>1. FitInv
    BY <1>1, <1>11 DEF CalmFit, Calm, Running
  <2>2. phase' \notin {"stat", "open"}
    BY <1>11 DEF Running
  <2> QED BY <1>2, <1>4, <1>5, <1>6, <1>7, <1>11, <2>1, <2>2 DEF FitInv
<1>12. ASSUME phase = "validate" \/ phase \in {"stat", "open"} PROVE Late /\ PlacedInv /\ FitInv
  BY <1>1, <1>12 DEF CalmInv, CalmFit, Calm, Late
<1>13. ASSUME phase = "validate", phase' = "stat", item' = 1, LimitsValid,
              ShapeFits("input", limits.inputFiles)
       PROVE  FitInv'
  <2>1. InShape
    BY <1>1, <1>12, <1>13, ShapeIs
  <2>2. LimitsFit
    BY <1>13, ArtifactsAssumption DEF LimitsValid, LimitsFit
  <2>3. \A n \in DOMAIN outputs : ~(n < 1)
    BY <1>9
  <2> QED BY <1>2, <1>4, <1>6, <1>7, <1>13, <2>1, <2>2, <2>3 DEF FitInv, Running
<1>14. ASSUME phase = "stat", phase' = "open", item' = item, Found(item) PROVE FitInv'
  <2>1. FitInv
    BY <1>12, <1>14
  <2>2. \A n \in DOMAIN outputs : n <= item => n < item \/ n = item
    BY <1>9
  <2> QED BY <1>2, <1>4, <1>5, <1>6, <1>7, <1>14, <2>1, <2>2 DEF FitInv, Running
<1>15. ASSUME phase = "open", phase' = "stat", item' = item + 1 PROVE FitInv'
  <2>1. FitInv
    BY <1>12, <1>15
  <2>2. \A n \in DOMAIN outputs : n < item + 1 => n <= item
    BY <1>9
  <2> QED BY <1>2, <1>4, <1>5, <1>6, <1>7, <1>15, <2>1, <2>2 DEF FitInv, Running
<1>16. ASSUME phase = "stat", item = Len(outputs) + 1, phase' = "mount",
              ShapeFits("output", limits.outputFiles)
       PROVE  FitInv'
  <2>1. OutShape
    BY <1>1, <1>12, <1>16, ShapeIs
  <2>2. \A n \in DOMAIN outputs : n < item
    BY <1>9, <1>16
  <2>3. FitInv
    BY <1>12, <1>16
  <2> QED BY <1>2, <1>4, <1>5, <1>6, <1>7, <1>16, <2>1, <2>2, <2>3 DEF FitInv, Running
<1> QED BY <1>1, <1>8, <1>10, <1>11, <1>13, <1>14, <1>15, <1>16, CheckSteps

LEMMA NextJustified ==
    ASSUME IInv, BoundInv, EditInv, CalmInv, CalmFit, Justified, [Next]_vars
    PROVE  Justified'
<1>1. /\ InSlash' <=> InSlash
      /\ OutSlash' <=> OutSlash
      /\ Fit' <=> Fit
  <2>1. inputs' = inputs /\ outputs' = outputs /\ limits' = limits
    BY PhaseSteps, SameRequest DEF IInv
  <2>2. (InSlash' <=> InSlash) /\ (OutSlash' <=> OutSlash)
    BY <2>1 DEF InSlash, OutSlash, EndsInSlash
  <2>3. (InShape' <=> InShape) /\ (OutShape' <=> OutShape)
    BY <2>1 DEF InShape, OutShape, Above, TargetPaths, OutputPaths, EntryLimit
  <2>4. /\ LimitsFit' <=> LimitsFit
        /\ (\A n \in DOMAIN outputs : BytesFit(n))' <=> (\A n \in DOMAIN outputs : BytesFit(n))
    BY <2>1 DEF LimitsFit, BytesFit
  <2>5. /\ Fit <=> LimitsFit /\ (\A n \in DOMAIN outputs : BytesFit(n)) /\ InShape /\ OutShape
        /\ Fit' <=> LimitsFit' /\ (\A n \in DOMAIN outputs : BytesFit(n))' /\ InShape' /\ OutShape'
    <3>1. Fit <=> LimitsFit /\ (\A n \in DOMAIN outputs : BytesFit(n)) /\ InShape /\ OutShape
      BY FitIs
    <3>2. Fit' <=> LimitsFit' /\ (\A n \in DOMAIN outputs : BytesFit(n))' /\ InShape' /\ OutShape'
      BY FitIs, PTL
    <3> QED BY <3>1, <3>2
  <2> QED BY <2>2, <2>3, <2>4, <2>5
<1>2. /\ Touched => Touched'
      /\ Meddled({"source", "unseen"}) => Meddled({"source", "unseen"})'
      /\ Meddled({"loosened"}) => Meddled({"loosened"})'
  BY MeddledStays DEF IInv, Touched
<1>3. CASE refusal' = refusal
  BY <1>1, <1>2, <1>3 DEF Justified
<1>4. CASE refusal' \in {"plan", "limit", "aborted"}
  BY <1>4 DEF Justified
<1>5. CASE refusal' # refusal /\ refusal' = "collision" /\ (InputCollides \/ StageOutput)
  <2>1. phase \in {"stageInput", "stageOutput"}
    BY <1>5 DEF InputCollides, Staging, StageOutput
  <2>2. Calm
    BY <2>1 DEF EditInv, Calm
  <2>3. InSlash \/ OutSlash
    BY <1>5, <2>2, CalmReady, NothingCollides
  <2> QED BY <1>1, <1>5, <2>3 DEF Justified
<1>6. CASE refusal' # refusal /\ refusal' = "source" /\ (SourceShrank \/ EndInput)
  <2>1. Meddled({"source", "unseen"})
    BY <1>6, NothingEdited
  <2> QED BY <1>2, <1>6, <2>1 DEF Justified
<1>7. CASE refusal' # refusal /\ refusal' = "native" /\ Checks
  <2>1. phase \notin {"plan", "refused"}
    BY <1>7 DEF Checks, ValidateInputs, StatOutput, OpenOutput, OutputsPinned, MountOutput,
       InspectOutputs, HashOutput
  <2>2. ASSUME ~Touched, ~Meddled({"loosened"}), ~OutSlash, Fit PROVE FALSE
    <3>1. Ready
      BY <2>1, <2>2, CalmReady DEF Calm
    <3>2. LimitsFit /\ (\A n \in DOMAIN outputs : BytesFit(n)) /\ InShape /\ OutShape
      BY <2>2, FitIs
    <3> QED BY <1>7, <2>2, <3>1, <3>2, Validated, Stated, OpenedAndMounted, Hashed DEF Checks
  <2> QED BY <1>1, <1>2, <1>7, <2>2 DEF Justified
<1>8. CASE refusal' # refusal /\ refusal' = "alarm" /\ Scans
  <2>1. phase = "guest"
    BY <1>8 DEF Scans, ScanFile, ScanFolder
  <2>2. ASSUME ~Touched PROVE FALSE
    <3>1. Ready
      BY <2>1, <2>2, CalmReady DEF Calm
    <3> QED BY <1>8, <3>1, Scanned, FolderScanned DEF Scans
  <2> QED BY <1>2, <1>8, <2>2 DEF Justified
<1>9. CASE refusal' # refusal /\ refusal' = "collect" /\ (ReadArtifact \/ Collected)
  <2>1. phase = "read"
    BY <1>9 DEF ReadArtifact, Collected
  <2>2. ASSUME ~Touched PROVE FALSE
    <3>1. Ready
      BY <2>1, <2>2, CalmReady DEF Calm
    <3> QED BY <1>9, <3>1, CollectedWhole
  <2> QED BY <1>2, <1>9, <2>2 DEF Justified
<1> QED BY <1>3, <1>4, <1>5, <1>6, <1>7, <1>8, <1>9, RefusalSteps

\* What the plan accepts is refused later, by the launcher and before the guest runs, exactly
\* when Node did not look at something the launcher does: a slash at the end of a path, bounds
\* of its own, paths in bytes, the depth and the number of entries of a tree.  Nothing else a
\* run asked or its guest did has it refused, killed by the monitor or found unequal by Node,
\* when nobody interferes (workspace.ts, artifact.rs, job.rs).
THEOREM RefusalsJustifiedHolds ==
    Spec => []RefusalsJustified
<1> DEFINE Inv == IInv /\ BoundInv /\ EditInv /\ CalmInv /\ CalmFit /\ Justified
<1>1. Init => EditInv /\ CalmInv /\ CalmFit /\ Justified
  <2> SUFFICES ASSUME Init PROVE EditInv /\ CalmInv /\ CalmFit /\ Justified
    OBVIOUS
  <2>1. /\ phase = "plan" /\ refusal = "none" /\ file = <<>> /\ scan = NoScan /\ meddled = <<>>
        /\ \E x : source = <<x>>
    BY DEF Init
  <2>2. ~(Len(source) > 1) /\ ~Touched
    BY <2>1 DEF Touched, Meddled
  <2>3. EditInv
    BY <2>1, <2>2 DEF EditInv
  <2>4. CalmInv /\ CalmFit /\ Justified
    BY <2>1 DEF CalmInv, CalmFit, Calm, Justified
  <2> QED BY <2>3, <2>4
<1>2. ASSUME Inv, [Next]_vars PROVE Inv'
  <2>1. IInv'
    BY <1>2, NextType, NextItem, NextSource, NextTree, NextPin, NextContent, NextReport DEF IInv
  <2>2. BoundInv' /\ EditInv' /\ CalmInv' /\ CalmFit' /\ Justified'
    BY <1>2, <2>1, NextBound, NextEdit, NextCalm, NextFit, NextJustified DEF IInv
  <2> QED BY <2>1, <2>2
<1>3. Inv => RefusalsJustified
  BY JustifiedIs
<1> QED BY InitInv, <1>1, <1>2, <1>3, BoundInvariant, PTL DEF Spec

=============================================================================
