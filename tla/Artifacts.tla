------------------------------ MODULE Artifacts ------------------------------
(***************************************************************************)
(* The files of one run, from the request to the delivered artifacts:      *)
(* planned and staged by Node (workspace.ts), validated and pinned by the  *)
(* launcher (artifact.rs), mounted (mount.rs), written by the guest under  *)
(* RLIMIT_FSIZE and the seccomp filter (linux/mod.rs, Filter) while the    *)
(* monitor scans them (job.rs), hashed by the launcher and collected by    *)
(* Node, which reads them again by path.                                   *)
(*                                                                         *)
(* Another process of the same user may replace or write a file of the     *)
(* workspace, open it to others, or edit the source of an input, at any    *)
(* moment: MaxMeddling times.  A path is the sequence of what its slashes  *)
(* separate; how long it is as text, Units and Bytes say.                  *)
(***************************************************************************)
EXTENDS Filter, Functions

CONSTANTS
    Requests,      \* artifact requests with their resolved limits
    Lengths,       \* the lengths a file may have
    Block,         \* bytes in a block of the filesystem
    Units(_), Bytes(_),    \* the length of a path, in UTF-16 units and in bytes of UTF-8
    MaxPath,               \* the longest path, in either
    MaxArtifactFiles, MaxArtifactBytes,    \* the launcher's own bounds on the limits
    MinEntries, MaxArtifactEntries, MaxArtifactDepth,    \* and on the shape of a tree
    MaxMeddling    \* bound: steps of the other process

\* A path has at least one part; limits are positive, and a file's are within the sum's
\* (policy/artifacts.ts:43-52).
Paths == Seq(STRING) \ {<<>>}
Inputs == [target : Paths, kind : {"sourcePath", "chunks"}]
Outputs == [path : Paths, max : Nat, required : BOOLEAN]
Limits ==
    [inputFiles : Nat \ {0}, inputBytes : Nat \ {0}, inputFileBytes : Nat \ {0},
     outputFiles : Nat \ {0}, outputBytes : Nat \ {0}, outputFileBytes : Nat \ {0}]
Resolved(l) == l.inputFileBytes <= l.inputBytes /\ l.outputFileBytes <= l.outputBytes

ASSUME ArtifactsAssumption ==
    /\ Requests \subseteq [inputs : Seq(Inputs), outputs : Seq(Outputs), limits : Limits]
    /\ \A r \in Requests : Resolved(r.limits)
    /\ IsFiniteSet(Lengths) /\ Lengths \subseteq Nat /\ 0 \in Lengths
    /\ Block \in Nat \ {0} /\ MaxMeddling \in Nat
    /\ MaxArtifactFiles \in Nat /\ MaxArtifactBytes \in Nat
    /\ MinEntries \in Nat /\ MaxArtifactEntries \in Nat /\ MaxArtifactDepth \in Nat

VARIABLES
    request,     \* [inputs, outputs, limits]
    phase, item, \* what is done, and to which input or output
    refusal,     \* why the run failed, "none" if it did not
    tree,        \* the workspace: Dir, Symlink or an inode at each path
    file,        \* the inodes
    source,      \* the lengths the source of an input has had, one per edit
    copy,        \* the input being staged
    taken,       \* the inputs staged
    pinned,      \* the inode each declared output was opened as
    mounted,     \* the inode the guest writes as each output
    fsize,       \* RLIMIT_FSIZE of the guest
    scan,        \* the scan of the monitor under way
    left,        \* what the guest last wrote to each output
    manifest, delivered,
    meddled      \* what the other process has done

nodeVars == <<source, copy, taken, delivered>>
nativeVars == <<pinned, mounted, fsize, scan, manifest>>
vars == <<request, phase, item, refusal, tree, file, nodeVars, nativeVars, left, meddled>>

Dir == 0
Symlink == -1
Empty == [len |-> 0, data |-> 0, links |-> 1, blocks |-> 0]
Contents == {c \in [len : Lengths, data : 0 .. 1] : c.len = 0 => c.data = 0}
Content(f) == [len |-> f.len, data |-> f.data]
BlocksOf(len) == ((len + Block - 1) \div Block) * Block

inputs == request.inputs
outputs == request.outputs
limits == request.limits
MinOf(a, b) == IF a < b THEN a ELSE b
Maximum(o) == IF o.max = 0 THEN limits.outputFileBytes ELSE o.max

-----------------------------------------------------------------------------
(* Paths.                                                                   *)

IsName(part) == part \notin {"", ".", ".."}

\* It is not too long, path.posix.normalize leaves it as it is, and it stays inside.
\* What normalize keeps includes one slash at the end, even of the path ".".
IsNormal(p) ==
    LET last == p[Len(p)] IN
    /\ Units(p) <= MaxPath
    /\ \/ p = <<".", "">>
       \/ /\ \A n \in 1 .. Len(p) - 1 : IsName(p[n])
          /\ IsName(last) \/ (last = "" /\ Len(p) > 1)

EndsInSlash(p) == p[Len(p)] = ""

Parents(p) == {SubSeq(p, 1, n) : n \in 1 .. Len(p) - 1}

\* Mutant: a new path is compared with the files before it, not with their directories.
TreeAcceptsChildFirst(paths) ==
    \A n \in DOMAIN paths :
        /\ IsNormal(paths[n])
        /\ \A m \in 1 .. n - 1 :
              /\ paths[n] # paths[m]
              /\ paths[m] \notin Parents(paths[n])

\* PathTree.add of one path after the other.
TreeAccepts(paths) ==
    \A n \in DOMAIN paths :
        /\ IsNormal(paths[n])
        /\ \A m \in 1 .. n - 1 :
              /\ paths[n] # paths[m]
              /\ paths[n] \notin Parents(paths[m]) /\ paths[m] \notin Parents(paths[n])

\* path.join(root, ...path.split('/')) of a normal path: what it names, without the
\* slash at its end.
Names(p) == IF p = <<".", "">> THEN <<>> ELSE IF EndsInSlash(p) THEN Front(p) ELSE p
Place(root, p) == <<root>> \o Names(p)

DirsFree(at) == \A d \in Parents(at) : d \in DOMAIN tree => tree[d] = Dir

\* mkdir -p of the directory and open with O_CREAT | O_EXCL | O_NOFOLLOW.
Create(at) ==
    /\ DirsFree(at) /\ at \notin DOMAIN tree
    /\ tree' = [p \in DOMAIN tree \cup Parents(at) \cup {at} |->
                  IF p = at THEN Len(file) + 1 ELSE IF p \in Parents(at) THEN Dir ELSE tree[p]]

-----------------------------------------------------------------------------
(* Node: planning and staging.                                              *)

\* The error is thrown.  When staging fails the workspace is removed.
Refuse(why) ==
    /\ phase' = "refused" /\ refusal' = why
    /\ tree' = IF phase \in {"stageInput", "copy", "stageOutput"} THEN <<>> ELSE tree
    /\ UNCHANGED <<request, item, file, nodeVars, nativeVars, left, meddled>>

Go(to, n) ==
    /\ phase' = to /\ item' = n
    /\ UNCHANGED <<request, refusal, left, meddled>>

PlanAccepts ==
    LET maxima == [n \in DOMAIN outputs |-> Maximum(outputs[n])] IN
    /\ Len(inputs) <= limits.inputFiles /\ Len(outputs) <= limits.outputFiles
    /\ TreeAccepts([n \in DOMAIN inputs |-> inputs[n].target])
    /\ TreeAccepts([n \in DOMAIN outputs |-> outputs[n].path])
    /\ \A n \in DOMAIN maxima : maxima[n] = maxima[1] /\ maxima[n] <= limits.outputFileBytes
    /\ SumFunction(maxima) <= limits.outputBytes

Plan ==
    /\ phase = "plan" /\ PlanAccepts
    /\ tree' = [d \in {<<"input">>, <<"output">>} |-> Dir]
    /\ Go("stageInput", 1)
    /\ UNCHANGED <<file, nodeVars, nativeVars>>

PlanRefuses == phase = "plan" /\ ~PlanAccepts /\ Refuse("plan")

Staging == phase = "stageInput" /\ item \in DOMAIN inputs
Target == Place("input", inputs[item].target)
Remaining ==
    MinOf(limits.inputFileBytes,
          limits.inputBytes - SumFunction([n \in DOMAIN taken |-> taken[n].len]))
FromFile == inputs[item].kind = "sourcePath"
TooLarge == FromFile /\ Last(source) > Remaining

InputCollides ==
    /\ Staging
    /\ ~DirsFree(Target) \/ (~TooLarge /\ Target \in DOMAIN tree)
    /\ Refuse("collision")

InputTooLarge == Staging /\ DirsFree(Target) /\ TooLarge /\ Refuse("limit")

\* The source is opened and measured, then the destination created.
BeginInput ==
    /\ Staging /\ ~TooLarge /\ Create(Target)
    /\ file' = Append(file, Empty)
    /\ copy' = [len |-> 0, size |-> Last(source), from |-> {}, edited |-> FALSE]
    /\ Go("copy", item)
    /\ UNCHANGED <<source, taken, delivered, nativeVars>>

Grow(f, len) == [f EXCEPT !.len = len, !.blocks = BlocksOf(len)]

\* One read of the source, or one chunk of the caller's, is written.
CopyChunk ==
    /\ phase = "copy"
    /\ copy.len < IF FromFile THEN MinOf(copy.size, Last(source)) ELSE Remaining
    /\ copy' = [copy EXCEPT !.len = @ + 1, !.from = @ \cup {Len(source)}]
    /\ file' = [file EXCEPT ![Len(file)] = Grow(@, copy.len + 1)]
    /\ Go("copy", item)
    /\ UNCHANGED <<tree, source, taken, delivered, nativeVars>>

\* The source ends before the size it was opened with.
SourceShrank ==
    /\ phase = "copy" /\ FromFile
    /\ copy.len < copy.size /\ copy.len >= Last(source)
    /\ Refuse("source")

ChunkTooLarge ==
    phase = "copy" /\ inputs[item].kind = "chunks" /\ copy.len = Remaining /\ Refuse("limit")

InputTaken ==
    /\ taken' = Append(taken, [len |-> copy.len, from |-> copy.from])
    /\ Go("stageInput", item + 1)
    /\ UNCHANGED <<tree, file, source, copy, delivered, nativeVars>>

\* Mutant: the source is compared by its size alone.
EndInputBySize ==
    /\ phase = "copy"
    /\ FromFile => copy.len = copy.size
    /\ IF FromFile /\ Last(source) # copy.size
       THEN Refuse("source") ELSE InputTaken

\* A source must have the size and the time of modification it was opened with.
EndInput ==
    /\ phase = "copy"
    /\ FromFile => copy.len = copy.size
    /\ IF FromFile /\ (Last(source) # copy.size \/ copy.edited)
       THEN Refuse("source") ELSE InputTaken

InputsStaged ==
    /\ phase = "stageInput" /\ item = Len(inputs) + 1
    /\ Go("stageOutput", 1)
    /\ UNCHANGED <<tree, file, nodeVars, nativeVars>>

StageOutput ==
    /\ phase = "stageOutput" /\ item \in DOMAIN outputs
    /\ LET at == Place("output", outputs[item].path) IN
       IF DirsFree(at) /\ at \notin DOMAIN tree
       THEN /\ Create(at)
            /\ file' = Append(file, Empty)
            /\ Go("stageOutput", item + 1)
            /\ UNCHANGED <<nodeVars, nativeVars>>
       ELSE Refuse("collision")

\* The workspace is handed to the supervisor with the run.
Staged ==
    /\ phase = "stageOutput" /\ item = Len(outputs) + 1
    /\ Go("validate", 1)
    /\ UNCHANGED <<tree, file, nodeVars, nativeVars>>

\* The caller's signal is looked at between inputs, while one is read, and while
\* artifacts are collected.
Aborted == (Staging \/ phase \in {"copy", "read"}) /\ Refuse("aborted")

-----------------------------------------------------------------------------
(* The launcher: validation and mounts.                                     *)

Files(root) == {p \in DOMAIN tree : p[1] = root /\ Len(p) > 1 /\ tree[p] # Dir}
Folders(root) == {p \in DOMAIN tree : p[1] = root /\ Len(p) > 1 /\ tree[p] = Dir}

\* How many entries inspect_tree goes through, folders included.
EntryLimit(maxFiles) ==
    IF 4 * maxFiles < MinEntries THEN MinEntries ELSE MinOf(4 * maxFiles, MaxArtifactEntries)

Shallow(folder) == Len(folder) - 1 <= MaxArtifactDepth

\* inspect_tree of a file, given what was counted before it.
FileFits(p, entries, count, bytes, allocated, maxFiles, maxBytes, maxFile) ==
    /\ entries + 1 <= EntryLimit(maxFiles)
    /\ tree[p] # Symlink /\ file[tree[p]].links = 1
    /\ count + 1 <= maxFiles
    /\ bytes + file[tree[p]].len <= maxBytes
    /\ allocated + file[tree[p]].blocks <= maxBytes + maxFiles * (Block - 1)
    /\ file[tree[p]].len <= maxFile

FolderFits(p, entries, maxFiles) == entries + 1 <= EntryLimit(maxFiles) /\ Shallow(p)

ShapeFits(root, maxFiles) ==
    /\ Cardinality(Files(root)) + Cardinality(Folders(root)) <= EntryLimit(maxFiles)
    /\ \A p \in Folders(root) : Shallow(p)

\* inspect_tree while nobody writes: it does not depend on the order of the entries.
TreeFits(root, maxFiles, maxBytes, maxFile) ==
    LET files == {p \in Files(root) : tree[p] # Symlink}
    IN  /\ ShapeFits(root, maxFiles)
        /\ files = Files(root) /\ Cardinality(files) <= maxFiles
        /\ \A p \in files : file[tree[p]].links = 1 /\ file[tree[p]].len <= maxFile
        /\ SumFunction([p \in files |-> file[tree[p]].len]) <= maxBytes
        /\ SumFunction([p \in files |-> file[tree[p]].blocks]) <= maxBytes + maxFiles * (Block - 1)

OutputTreeFits ==
    TreeFits("output", limits.outputFiles, limits.outputBytes, limits.outputFileBytes)

Skip(to, n) == Go(to, n) /\ UNCHANGED <<tree, file, nodeVars, nativeVars>>

\* validate_limits.
LimitsValid ==
    /\ limits.inputFiles \in 1 .. MaxArtifactFiles /\ limits.outputFiles \in 1 .. MaxArtifactFiles
    /\ limits.inputBytes \in 1 .. MaxArtifactBytes /\ limits.outputBytes \in 1 .. MaxArtifactBytes
    /\ limits.inputFileBytes \in 1 .. limits.inputBytes
    /\ limits.outputFileBytes \in 1 .. limits.outputBytes

Meddled(hows) == \E n \in DOMAIN meddled : meddled[n] \in hows

\* The workspace is where and as private as Node made it (resolve_workspace,
\* validate_private_directory), and its inputs fit.
ValidateInputs ==
    /\ phase = "validate"
    /\ IF /\ LimitsValid /\ ~Meddled({"loosened"})
          /\ TreeFits("input", limits.inputFiles, limits.inputBytes, limits.inputFileBytes)
       THEN Skip("stat", 1) ELSE Refuse("native")

HostPath(n) == Place("output", outputs[n].path)

\* The declared limits are checked again, and what is at the path; symlink_metadata
\* and canonicalize fail for a file whose path ends in a slash.
StatOutput ==
    /\ phase = "stat" /\ item \in DOMAIN outputs
    /\ LET maxima == [n \in 1 .. item |-> Maximum(outputs[n])]
           at == HostPath(item)
       IN  IF /\ Len(outputs) <= limits.outputFiles
              /\ maxima[item] = maxima[1] /\ maxima[item] \in 1 .. limits.outputFileBytes
              /\ SumFunction(maxima) <= limits.outputBytes
              /\ Bytes(outputs[item].path) <= MaxPath /\ ~EndsInSlash(outputs[item].path)
              /\ tree[at] > 0 /\ file[tree[at]].links = 1 /\ file[tree[at]].len = 0
           THEN Skip("open", item) ELSE Refuse("native")

\* open_path of what is at the path now, with O_NOFOLLOW.
OpenOutput ==
    /\ phase = "open"
    /\ IF tree[HostPath(item)] > 0
       THEN /\ pinned' = Append(pinned, tree[HostPath(item)])
            /\ Go("stat", item + 1)
            /\ UNCHANGED <<tree, file, nodeVars, mounted, fsize, scan, manifest>>
       ELSE Refuse("native")

\* The output tree has the declared files and no others, all of them empty.
OutputsPinned ==
    /\ phase = "stat" /\ item = Len(outputs) + 1
    /\ IF /\ TreeFits("output", limits.outputFiles, 0, 0)
          /\ Cardinality(Files("output")) = Len(outputs)
       THEN Skip("mount", 1) ELSE Refuse("native")

\* Mutant: what was mounted is not compared with what was pinned.
MountOutputUnseen ==
    /\ phase = "mount" /\ item \in DOMAIN outputs
    /\ LET mount == tree[HostPath(item)] IN
       IF mount > 0
       THEN /\ mounted' = Append(mounted, mount)
            /\ Go("mount", item + 1)
            /\ UNCHANGED <<tree, file, nodeVars, pinned, fsize, scan, manifest>>
       ELSE Refuse("native")

\* The file at the path is mounted writable over the read-only tree; it must be the
\* pinned one.  (A source that became a symlink is followed, out of the workspace.)
MountOutput ==
    /\ phase = "mount" /\ item \in DOMAIN outputs
    /\ LET mount == tree[HostPath(item)] IN
       IF mount = pinned[item]
       THEN /\ mounted' = Append(mounted, mount)
            /\ Go("mount", item + 1)
            /\ UNCHANGED <<tree, file, nodeVars, pinned, fsize, scan, manifest>>
       ELSE Refuse("native")

\* Mutant: the default maximum of a file is applied, not the declared one.
HardenByDefault ==
    /\ phase = "mount" /\ item = Len(outputs) + 1
    /\ fsize' = limits.outputFileBytes
    /\ Go("guest", 1)
    /\ UNCHANGED <<tree, file, nodeVars, pinned, mounted, scan, manifest>>

\* harden() and exec: the maximum of the first output is that of all of them.
Harden ==
    /\ phase = "mount" /\ item = Len(outputs) + 1
    /\ fsize' = IF outputs = <<>> THEN 0 ELSE Maximum(outputs[1])
    /\ Go("guest", 1)
    /\ UNCHANGED <<tree, file, nodeVars, pinned, mounted, scan, manifest>>

-----------------------------------------------------------------------------
(* The guest, and the monitor beside it.                                    *)

Wrote(f) ==
    /\ file' = f
    /\ UNCHANGED <<request, phase, item, refusal, tree, nodeVars, nativeVars, meddled>>

\* Writes and truncations, sparse or not, as far as RLIMIT_FSIZE.
GuestWrites(n) ==
    /\ phase = "guest"
    /\ \E c \in Contents, sparse \in BOOLEAN :
          /\ c.len <= fsize
          /\ left' = [left EXCEPT ![n] = c]
          /\ Wrote([file EXCEPT ![mounted[n]] =
                      [@ EXCEPT !.len = c.len, !.data = c.data,
                                !.blocks = IF sparse THEN 0 ELSE BlocksOf(c.len)]])

\* A call that allocates blocks beyond the end of the file, if the filter lets it.
GuestPreallocates(n) ==
    /\ phase = "guest"
    /\ Wrote(IF Bypasses = {} THEN file
             ELSE [file EXCEPT ![mounted[n]].blocks = limits.outputBytes + 2 * Block])
    /\ UNCHANGED left

NoScan == [seen |-> {}, folders |-> {}, bytes |-> 0, allocated |-> 0]
Counted == Cardinality(scan.seen) + Cardinality(scan.folders)

Alarm ==
    /\ phase' = "refused" /\ refusal' = "alarm"
    /\ UNCHANGED <<request, item, tree, file, nodeVars, nativeVars, left, meddled>>

ScanGoesOn ==
    UNCHANGED <<request, phase, item, refusal, tree, file, nodeVars, pinned, mounted, fsize,
                manifest, left, meddled>>

\* The monitor's inspect_tree comes to one more file; it kills the guest when the
\* limits are exceeded by what it has counted, though files have changed since.
ScanFile(p) ==
    /\ phase = "guest" /\ p \notin scan.seen
    /\ IF FileFits(p, Counted, Cardinality(scan.seen), scan.bytes, scan.allocated,
                   limits.outputFiles, limits.outputBytes, limits.outputFileBytes)
       THEN /\ scan' = [seen |-> scan.seen \cup {p}, folders |-> scan.folders,
                        bytes |-> scan.bytes + file[tree[p]].len,
                        allocated |-> scan.allocated + file[tree[p]].blocks]
            /\ ScanGoesOn
       ELSE Alarm

\* It comes to one more directory.
ScanFolder(p) ==
    /\ phase = "guest" /\ p \notin scan.folders
    /\ IF FolderFits(p, Counted, limits.outputFiles)
       THEN scan' = [scan EXCEPT !.folders = @ \cup {p}] /\ ScanGoesOn
       ELSE Alarm

ScanDone ==
    /\ phase = "guest" /\ scan # NoScan
    /\ Files("output") \subseteq scan.seen /\ Folders("output") \subseteq scan.folders
    /\ scan' = NoScan /\ ScanGoesOn

\* The guest has ended, or is killed for another reason, which the monitor finds between
\* scans; its cgroup is empty afterwards.
GuestEnds == phase = "guest" /\ scan = NoScan /\ Skip("inspect", 1)

-----------------------------------------------------------------------------
(* The launcher: collect_outputs.  Node: collectArtifacts.                  *)

InspectOutputs ==
    phase = "inspect" /\ IF OutputTreeFits THEN Skip("hash", 1) ELSE Refuse("native")

\* The pinned handle is measured and read; an empty optional output is left out.
HashOutput ==
    /\ phase = "hash" /\ item \in DOMAIN outputs
    /\ LET f == file[pinned[item]] IN
       IF f.len = 0 /\ ~outputs[item].required
       THEN Skip("hash", item + 1)
       ELSE IF f.links = 1 /\ f.len <= Maximum(outputs[item])
       THEN /\ manifest' = Append(manifest, [output |-> item, content |-> Content(f)])
            /\ Go("hash", item + 1)
            /\ UNCHANGED <<tree, file, nodeVars, pinned, mounted, fsize, scan>>
       ELSE Refuse("native")

\* The launcher's result goes to Node.
Answered == phase = "hash" /\ item = Len(outputs) + 1 /\ Skip("read", 1)

Deliver(c) ==
    /\ delivered' = Append(delivered, [output |-> manifest[item].output, content |-> c])
    /\ Go("read", item + 1)
    /\ UNCHANGED <<tree, file, source, copy, taken, nativeVars>>

\* Opened by path with O_NOFOLLOW; size and hash must be those of the manifest, whose
\* entries are declared, distinct and within the limits.
ReadArtifact ==
    /\ phase = "read" /\ item \in DOMAIN manifest
    /\ LET m == manifest[item]
           ino == tree[HostPath(m.output)]
       IN  IF /\ \A d \in ToSet(delivered) : d.output # m.output
              /\ m.content.len <= Maximum(outputs[m.output])
              /\ SumFunction([n \in 1 .. item |-> manifest[n].content.len]) <= limits.outputBytes
              /\ ino > 0 /\ file[ino].links = 1 /\ Content(file[ino]) = m.content
           THEN Deliver(Content(file[ino])) ELSE Refuse("collect")

Collected ==
    /\ phase = "read" /\ item = Len(manifest) + 1
    /\ IF \A n \in DOMAIN outputs :
             outputs[n].required => \E d \in ToSet(delivered) : d.output = n
       THEN Skip("done", item) ELSE Refuse("collect")

-----------------------------------------------------------------------------
(* The other process.                                                       *)

Meddle(how) ==
    /\ Len(meddled) < MaxMeddling
    /\ meddled' = Append(meddled, how)
    /\ UNCHANGED <<request, phase, item, refusal, taken, delivered, nativeVars, left>>

Stands == phase \notin {"plan", "stageInput", "copy", "stageOutput", "done", "refused"}

\* What was at a path has one link less.
Unlinked(p) ==
    IF p \in DOMAIN tree /\ tree[p] > 0
    THEN [file EXCEPT ![tree[p]].links = @ - 1] ELSE file

PutAt(p, what) ==
    tree' = [q \in DOMAIN tree \cup {p} |-> IF q = p THEN what ELSE tree[q]]

\* Another file, or a symlink, is renamed over an output, or put beside them; over a
\* directory it cannot be.
HostReplaces(p) ==
    /\ Stands
    /\ p \in DOMAIN tree => tree[p] # Dir
    /\ \/ /\ PutAt(p, Symlink) /\ file' = Unlinked(p)
       \/ \E c \in Contents, links \in {1, 2} :
             /\ PutAt(p, Len(file) + 1)
             /\ file' = Append(Unlinked(p), [len |-> c.len, data |-> c.data, links |-> links,
                                             blocks |-> BlocksOf(c.len)])
    /\ Meddle("replaced") /\ UNCHANGED <<source, copy>>

HostWrites(p) ==
    /\ Stands /\ tree[p] > 0
    /\ \E c \in Contents :
          file' = [file EXCEPT ![tree[p]] = [@ EXCEPT !.len = c.len, !.data = c.data,
                                                      !.blocks = BlocksOf(c.len)]]
    /\ Meddle("written") /\ UNCHANGED <<tree, source, copy>>

\* The caller's source is written while it is staged.  Its time of modification changes,
\* unless this comes within the milliseconds that mtimeMs tells apart.
SourceEdited ==
    /\ phase = "copy"
    /\ \E len \in Lengths : source' = Append(source, len)
    /\ \/ /\ copy' = [copy EXCEPT !.edited = TRUE] /\ Meddle("source")
       \/ /\ copy' = copy /\ Meddle("unseen")
    /\ UNCHANGED <<tree, file>>

\* The workspace or its root is opened to others.
HostLoosens == Stands /\ Meddle("loosened") /\ UNCHANGED <<tree, file, source, copy>>

-----------------------------------------------------------------------------
Init ==
    /\ request \in Requests
    /\ phase = "plan" /\ item = 1 /\ refusal = "none"
    /\ tree = <<>> /\ file = <<>>
    /\ source \in {<<len>> : len \in IF request.inputs = <<>> THEN {0} ELSE Lengths}
    /\ copy = [len |-> 0, size |-> 0, from |-> {}, edited |-> FALSE]
    /\ taken = <<>> /\ pinned = <<>> /\ mounted = <<>> /\ fsize = 0
    /\ scan = NoScan
    /\ left = [n \in DOMAIN request.outputs |-> Content(Empty)]
    /\ manifest = <<>> /\ delivered = <<>> /\ meddled = <<>>

Node ==
    \/ Plan \/ PlanRefuses
    \/ InputCollides \/ InputTooLarge \/ BeginInput
    \/ CopyChunk \/ SourceShrank \/ ChunkTooLarge \/ EndInput
    \/ InputsStaged \/ StageOutput \/ Staged \/ Aborted
    \/ ReadArtifact \/ Collected

Native ==
    \/ ValidateInputs \/ StatOutput \/ OpenOutput \/ OutputsPinned
    \/ MountOutput \/ Harden
    \/ \E p \in Files("output") : ScanFile(p)
    \/ \E p \in Folders("output") : ScanFolder(p)
    \/ ScanDone
    \/ InspectOutputs \/ HashOutput \/ Answered

Next ==
    \/ Node \/ Native
    \/ \E n \in DOMAIN mounted : GuestWrites(n) \/ GuestPreallocates(n)
    \/ GuestEnds
    \/ \E p \in Files("output") \cup {<<"output", "other">>} : HostReplaces(p)
    \/ \E p \in Files("output") : HostWrites(p)
    \/ SourceEdited \/ HostLoosens
    \/ phase \in {"done", "refused"} /\ UNCHANGED vars

Spec == Init /\ [][Next]_vars

-----------------------------------------------------------------------------
(* Properties.                                                              *)

TypeOK ==
    /\ phase \in {"plan", "stageInput", "copy", "stageOutput", "validate", "stat", "open",
                  "mount", "guest", "inspect", "hash", "read", "done", "refused"}
    /\ refusal \in {"none", "plan", "limit", "source", "collision", "aborted", "native",
                    "alarm", "collect"}
    /\ phase = "refused" <=> refusal # "none"
    /\ item \in 1 .. 1 + Len(inputs) + Len(outputs)
    /\ \A p \in DOMAIN tree : tree[p] \in {Dir, Symlink} \cup DOMAIN file
    /\ \A n \in DOMAIN file :
          /\ file[n].len \in Nat /\ file[n].data \in 0 .. 1
          /\ file[n].links \in 0 .. 2 /\ file[n].blocks \in Nat
    /\ Len(mounted) <= Len(pinned) /\ Len(pinned) <= Len(outputs)
    /\ fsize \in 0 .. limits.outputFileBytes

\* The files the guest writes never hold more than what was reserved for the outputs,
\* in bytes or, but for the rounding to blocks, on the disk, whatever it writes or
\* allocates, between two scans as well (OPERATIONS.md:33: RLIMIT_FSIZE, with
\* preallocation blocked).
DiskBounded ==
    phase = "guest" /\ ~Meddled({"written", "replaced"}) =>
        /\ SumFunction([n \in DOMAIN mounted |-> file[mounted[n]].len]) <= limits.outputBytes
        /\ SumFunction([n \in DOMAIN mounted |-> file[mounted[n]].blocks])
              <= limits.outputBytes + limits.outputFiles * (Block - 1)

\* With it, the types.
WithinBounds == TypeOK /\ DiskBounded

\* The directories above the paths of a request, and what of it only the launcher looks at: bounds of
\* its own, paths in bytes, and the depth and the number of entries of either tree.
Above(root, paths) == (UNION {Parents(Place(root, p)) : p \in paths}) \ {<<root>>}
TargetPaths == {inputs[n].target : n \in DOMAIN inputs}
OutputPaths == {outputs[n].path : n \in DOMAIN outputs}

Fit ==
    LET shaped(folders, count, maxFiles) ==
            /\ count + Cardinality(folders) <= EntryLimit(maxFiles)
            /\ \A p \in folders : Shallow(p)
    IN  /\ limits.inputFiles <= MaxArtifactFiles /\ limits.outputFiles <= MaxArtifactFiles
        /\ limits.inputBytes <= MaxArtifactBytes /\ limits.outputBytes <= MaxArtifactBytes
        /\ \A p \in OutputPaths : Bytes(p) <= MaxPath
        /\ shaped(Above("input", TargetPaths), Len(inputs), limits.inputFiles)
        /\ shaped(Above("output", OutputPaths), Len(outputs), limits.outputFiles)

\* What the plan accepts is refused later for what it asked in no more than two cases: a
\* path that ends in a slash, which normalizeArtifactPath lets through (workspace.ts:434),
\* and what Node does not look at; then always, before the guest runs.  A guest is never
\* killed nor its artifacts refused for what it did.  Everything else is someone else's
\* doing, or an input that was too large.
RefusalsJustified ==
    LET slash(paths) == \E p \in paths : EndsInSlash(p)
        touched == Meddled({"written", "replaced"})
    IN  /\ refusal = "collision" => slash(TargetPaths \cup OutputPaths)
        /\ refusal = "source" => Meddled({"source", "unseen"})
        /\ refusal = "native" =>
              touched \/ Meddled({"loosened"}) \/ slash(OutputPaths) \/ ~Fit
        /\ refusal \in {"alarm", "collect"} => touched
        /\ phase \in {"mount", "guest", "inspect", "hash", "read", "done"} =>
              touched \/ (Fit /\ ~slash(OutputPaths))

\* An input that was staged from a file is that file as it was at one moment, when every
\* edit of it changes its time of modification.
InputsWhole ==
    ~Meddled({"unseen"}) => \A n \in DOMAIN taken :
        inputs[n].kind = "sourcePath" =>
            \E v \in DOMAIN source : taken[n].from \subseteq {v} /\ taken[n].len = source[v]

\* The artifacts of a run that succeeded are what the guest wrote: each output as it
\* left it, and every output but optional ones it left empty, though files were
\* replaced between any two of the steps that validate, mount, hash and read them.
OutputsHonest ==
    phase = "done" /\ ~Meddled({"written"}) =>
        /\ \A d \in ToSet(delivered) : d.content = left[d.output]
        /\ \A n \in DOMAIN outputs :
              \/ \E d \in ToSet(delivered) : d.output = n
              \/ ~outputs[n].required /\ left[n].len = 0

\* Where the guest runs, the installed program decides every call as the policy says.
FilterMeetsPolicy == phase = "guest" => Misjudged = {}
=============================================================================
