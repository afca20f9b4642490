----------------------------- MODULE AtomicSync -----------------------------
(***************************************************************************)
(* What a Sync promises to its caller: it takes effect as if the branch were *)
(* read at one moment between the call and the return, and all of that       *)
(* commit came back - unless the Sync of a process that shares the cache was *)
(* cut short, or could not clear up, since the cache was last made good.     *)
(***************************************************************************)
EXTENDS Naturals

CONSTANTS Clients, Repos, MaxHead

VARIABLES
  head,     \* the newest commit of each branch
  read,     \* where the Sync of each process is
  spoilt    \* the branches whose cached tree may be incomplete

parts == <<head, read, spoilt>>

Nothing == [is |-> "none"]

Init ==
  /\ head = [r \in Repos |-> 1]
  /\ read = [c \in Clients |-> Nothing]
  /\ spoilt = {}

Push(r) ==
  /\ head[r] < MaxHead /\ head' = [head EXCEPT ![r] = @ + 1]
  /\ UNCHANGED <<read, spoilt>>

Reads(c)      == read[c].is = "begun" \/ read[c].is = "seen"
Branch(c)     == read[c].repo
Becomes(c, s) == UNCHANGED head /\ read' = [read EXCEPT ![c] = s]
\* Whoever works on a branch may make its tree good.
MayMend(c)    == spoilt' \in {spoilt, spoilt \ {Branch(c)}}

Begin(c, r) ==
  /\ read[c].is = "none" /\ Becomes(c, [is |-> "begun", repo |-> r])
  /\ UNCHANGED spoilt

\* The branch is read; only the last reading counts.
Read(c) ==
  /\ Reads(c) /\ MayMend(c)
  /\ Becomes(c, [is |-> "seen", repo |-> Branch(c), commit |-> head[Branch(c)]])

\* What was read is given up, to be read again.
Restart(c) ==
  /\ Reads(c) /\ MayMend(c)
  /\ Becomes(c, [is |-> "begun", repo |-> Branch(c)])

Mend(c) == Reads(c) /\ spoilt' = spoilt \ {Branch(c)} /\ UNCHANGED <<head, read>>

\* The commit that was read comes back.
Return(c) ==
  /\ read[c].is = "seen"
  /\ \E whole \in BOOLEAN :
       /\ whole \/ Branch(c) \in spoilt
       /\ Becomes(c, [is |-> "got", tree |-> [commit |-> read[c].commit, whole |-> whole]])
  /\ UNCHANGED spoilt

\* A Sync that ends without a tree is the only one that may spoil the next one's.
Fail(c) ==
  /\ Reads(c) /\ Becomes(c, Nothing)
  /\ MayMend(c) \/ spoilt' = spoilt \cup {Branch(c)}

\* The caller takes the tree, or dies.
Leave(c) == read[c].is = "got" /\ Becomes(c, Nothing) /\ UNCHANGED spoilt

Next ==
  \/ \E r \in Repos : Push(r)
  \/ \E c \in Clients :
       \/ Reads(c) /\ (Read(c) \/ Restart(c) \/ Mend(c) \/ Return(c) \/ Fail(c))
       \/ Leave(c) \/ \E r \in Repos : Begin(c, r)

Spec == Init /\ [][Next]_parts
=============================================================================
