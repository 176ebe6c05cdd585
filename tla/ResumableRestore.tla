-------------------------- MODULE ResumableRestore --------------------------
(***************************************************************************)
(* What bbcp promises its user about a restore that may be interrupted: a  *)
(* batch of jobs, one per file, each delivered at most once, each delivery *)
(* final, and no delivery ever holding a cluster out of its place.         *)
(* Processes, status files and crashes do not appear.                      *)
(***************************************************************************)
EXTENDS Naturals, Sequences

CONSTANTS
    Files,      \* the files a batch may be asked to restore
    Patched     \* stands for a cluster that could not be read

VARIABLE jobs   \* the batch, in the order the files were enlisted

Init == jobs = <<>>

\* A delivery is a prefix of the file's clusters, some of them patched.
Contents(offsets) ==
    UNION {{c \in [1..n -> {offsets[a] : a \in 1..n} \cup {Patched}] :
              \A a \in 1..n : c[a] \in {offsets[a], Patched}} :
           n \in 0..Len(offsets)}

NewBatch == jobs' = <<>>

Enlist(file) ==
    /\ \A k \in DOMAIN jobs : jobs[k].file.fileName # file.fileName
    /\ jobs' = Append(jobs, [file |-> file, done |-> FALSE, blocks |-> <<>>])

Deliver(k) ==
    /\ ~jobs[k].done
    /\ \E c \in Contents(jobs[k].file.offsets) :
         jobs' = [jobs EXCEPT ![k] = [@ EXCEPT !.done = TRUE, !.blocks = c]]

Next ==
    \/ NewBatch
    \/ \E file \in Files : Enlist(file)
    \/ \E k \in DOMAIN jobs : Deliver(k)

Spec == Init /\ [][Next]_jobs
=============================================================================
