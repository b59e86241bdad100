------------------------------- MODULE Filter -------------------------------
(***************************************************************************)
(* The seccomp filter of the guest (linux/seccomp.rs, the x86_64 build):   *)
(* the classic BPF program that baseline_filter() assembles from blocks    *)
(* with relative jumps, an evaluator for it, and the policy it is meant    *)
(* to implement, stated without reference to the program.                  *)
(*                                                                         *)
(* A 32-bit word is the set of its bits, so that AND is intersection, a    *)
(* comparison is unsigned and nothing overflows.  A system call is a       *)
(* record of the fields of struct seccomp_data that the filter loads.      *)
(***************************************************************************)
EXTENDS Integers, Sequences, FiniteSetsExt, SequencesExt

Word(n) == {b \in 0 .. 30 : (n \div 2 ^ b) % 2 = 1}

\* Unsigned comparison: the highest bit in which the words differ is in the larger one.
Geq(v, w) == LET d == (v \ w) \cup (w \ v) IN d = {} \/ Max(d) \in v

AuditArch == Word(62) \cup {30, 31}   \* 0xc000003e
X32 == {30}                           \* 0x40000000, the x32 ABI
CommandBits == 0 .. 15                \* 0xffff: type and number of an ioctl

\* Numbers of libc that the program and the policy name.
Read == Word(0)
Ioctl == Word(16)
Clone == Word(56)
Prctl == Word(157)
Fallocate == Word(285)
Clone3 == Word(435)
SetPdeathsig == Word(1)

\* XFS_IOC_RESVSP, XFS_IOC_RESVSP64, XFS_IOC_ZERO_RANGE.
PreallocationIoctls == <<Word(22568), Word(22570), Word(22585)>>

\* CLONE_NEWNS, NEWCGROUP, NEWUTS, NEWIPC, NEWUSER, NEWPID, NEWNET; not NEWTIME (bit 7),
\* which is part of the exit signal of clone.
NamespaceFlags == {17, 25, 26, 27, 28, 29, 30}

\* mount to io_uring_register, in the order of the source.
DeniedSyscalls ==
    LET numbers == <<165, 442, 430, 431, 432, 433, 429, 428, 467, 166, 155, 101, 310, 311,
                     438, 321, 250, 248, 249, 298, 323, 304, 175, 313, 176, 169, 167, 168,
                     246, 320, 272, 308, 317, 163, 179, 443, 285, 425, 426, 427>>
    IN  [n \in DOMAIN numbers |-> Word(numbers[n])]

-----------------------------------------------------------------------------
(* The program.                                                             *)

Jump(code, k, jt, jf) == [code |-> code, k |-> k, jt |-> jt, jf |-> jf]
Statement(code, k) == Jump(code, k, 0, 0)
Deny(errno) == Statement("ret", errno)

DenyIfEqual(value) == <<Jump("jeq", value, 0, 1), Deny("EPERM")>>

\* Mutant: a body that falls through leaves its own word loaded, not the number.
SyscallBlockStale(nr, body) ==
    LET kept == SelectSeq(body, LAMBDA i : i.code = "ld" => i.k # "nr") IN
    <<Jump("jeq", nr, 0, Len(kept))>> \o kept

\* The body runs for one system call; it returns, or loads the number again.
SyscallBlock(nr, body) == <<Jump("jeq", nr, 0, Len(body))>> \o body

IoctlBody ==
    <<Statement("ld", "arg1"), Statement("and", CommandBits)>>
    \o FlattenSeq([n \in DOMAIN PreallocationIoctls |-> DenyIfEqual(PreallocationIoctls[n])])
    \o <<Statement("ld", "nr")>>

PrctlBody ==
    <<Statement("ld", "arg0")>> \o DenyIfEqual(SetPdeathsig) \o <<Statement("ld", "nr")>>

CloneBody ==
    <<Statement("ld", "arg0"), Jump("jset", NamespaceFlags, 0, 1), Deny("EPERM"),
      Statement("ld", "nr")>>

BaselineFilter ==
    <<Statement("ld", "arch"), Jump("jeq", AuditArch, 1, 0), Statement("ret", "kill"),
      Statement("ld", "nr"), Jump("jge", X32, 0, 1), Statement("ret", "kill")>>
    \o FlattenSeq([n \in DOMAIN DeniedSyscalls |->
                      SyscallBlock(DeniedSyscalls[n], <<Deny("EPERM")>>)])
    \o SyscallBlock(Ioctl, IoctlBody)
    \o SyscallBlock(Prctl, PrctlBody)
    \o SyscallBlock(Clone3, <<Deny("ENOSYS")>>)
    \o SyscallBlock(Clone, CloneBody)
    \o <<Statement("ret", "allow")>>

-----------------------------------------------------------------------------
(* What it answers.                                                         *)

Taken(i, acc) ==
    CASE i.code = "jeq"  -> acc = i.k
      [] i.code = "jset" -> acc \cap i.k # {}
      [] i.code = "jge"  -> Geq(acc, i.k)

\* The verdict of the filter on a call: the program run from its first instruction.
Verdict(call) ==
    LET run[at \in (DOMAIN BaselineFilter) \X SUBSET (0 .. 31)] ==
          LET pc == at[1]
              acc == at[2]
              i == BaselineFilter[pc]
          IN  CASE i.code = "ret" -> i.k
                [] i.code = "ld"  -> run[<<pc + 1, call[i.k]>>]
                [] i.code = "and" -> run[<<pc + 1, acc \cap i.k>>]
                [] OTHER -> run[<<pc + 1 + (IF Taken(i, acc) THEN i.jt ELSE i.jf), acc>>]
    IN  run[<<1, {}>>]

\* A call that allocates blocks of a file without writing it, past RLIMIT_FSIZE.
Preallocates(call) ==
    \/ call.nr = Fallocate
    \/ call.nr = Ioctl /\ call.arg1 \cap CommandBits \in ToSet(PreallocationIoctls)

\* What the guest may do (ARCHITECTURE.md:58 and the comments of seccomp.rs): a foreign
\* ABI kills it; mounts, namespaces, preallocation and the like are refused, and so is
\* giving up the parent-death signal; clone3 is "not implemented"; the rest is allowed.
Policy(call) ==
    IF call.arch # AuditArch \/ Geq(call.nr, X32) THEN "kill"
    ELSE IF \/ call.nr \in ToSet(DeniedSyscalls)
            \/ Preallocates(call)
            \/ call.nr = Prctl /\ call.arg0 = SetPdeathsig
            \/ call.nr = Clone /\ call.arg0 \cap NamespaceFlags # {}
         THEN "EPERM"
    ELSE IF call.nr = Clone3 THEN "ENOSYS"
    ELSE "allow"

-----------------------------------------------------------------------------
(* The calls to try: every number the filter knows and its neighbours, with *)
(* arguments that are, contain, or look like what a block looks for.        *)

Numbers == ToSet(DeniedSyscalls)
           \cup {Read, Ioctl, Clone, Prctl, Clone3, X32, Ioctl \cup X32, Ioctl \cup {31}}
FirstArguments == {Word(0), SetPdeathsig, Word(17), Word(17) \cup {7}, Clone, Clone3}
                  \cup {Word(17) \cup {f} : f \in NamespaceFlags}
SecondArguments == LET commands == ToSet(PreallocationIoctls) \cup {Word(21531), Clone3} IN
                   commands \cup {c \cup {21, 30, 31} : c \in commands}

Calls ==
    [arch : {AuditArch, Word(3) \cup {30}}, nr : Numbers, arg0 : FirstArguments,
     arg1 : SecondArguments]

\* Where the program is not what was meant.
Misjudged == {c \in Calls : Verdict(c) # Policy(c)}

\* Calls that preallocate and are allowed.
Bypasses ==
    {c \in Calls : c.arch = AuditArch /\ Preallocates(c) /\ Verdict(c) = "allow"}
=============================================================================
