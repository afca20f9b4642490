------------------------------ MODULE GitCache ------------------------------
(***************************************************************************)
(* The git cache that all irgsh-cli processes of a user share: one entry    *)
(* per repository and branch, used under a flock, and copied from. A        *)
(* process may die at any point, which frees its lock and leaves the entry  *)
(* as it is. go-git is external; commits are numbered as they are pushed.   *)
(***************************************************************************)
EXTENDS Naturals, FiniteSets

CONSTANTS
  Clients,     \* processes
  Repos,       \* a repository and a branch
  MaxHead,     \* bound: commits pushed to a branch
  NoOne        \* not a client

ASSUME CacheAssumption == MaxHead \in Nat \ {0} /\ NoOne \notin Clients

VARIABLES
  head,        \* the newest commit of each branch
  entry,       \* the cache entry: what .git says, and whether the work tree is complete
  holder,      \* who has the flock
  sync,        \* how far a client's Sync is
  torn         \* history: the entries left incomplete by a death or a failing removal

cacheVars == <<head, entry, holder, sync, torn>>

Commit   == 1 .. MaxHead
\* HEAD is unborn between the creation of .git and the end of the fetch.
Entry    == [git : {"absent", "unborn"}] \cup [git : {"head"}, commit : Commit, whole : BOOLEAN]
NoEntry  == [git |-> "absent"]
At(c, w) == [git |-> "head", commit |-> c, whole |-> w]

\* use: the attempt before or after a clone; since: the head when Sync began.
Use      == {"first", "second"}
Tree     == [commit : Commit, whole : BOOLEAN]
Sync     ==
  [phase : {"idle"}] \cup
  [phase : {"asking"}, repo : Repos, since : Commit] \cup
  [phase : {"locking", "cloning", "fetched"}, repo : Repos, since : Commit, hash : Commit] \cup
  [phase : {"opening", "pulling", "resetting", "copying"}, repo : Repos, since : Commit,
   hash : Commit, use : Use] \cup
  [phase : {"failed", "notfound"}] \cup
  [phase : {"done"}, repo : Repos, since : Commit, tree : Tree, excused : BOOLEAN]
Locked   == {"opening", "pulling", "resetting", "copying", "cloning", "fetched"}

\* Its last part: a process is at work on an entry exactly while it has the lock.
CacheTypeOK ==
  /\ head \in [Repos -> Commit]
  /\ entry \in [Repos -> Entry]
  /\ holder \in [Repos -> Clients \cup {NoOne}]
  /\ sync \in [Clients -> Sync]
  /\ torn \subseteq Repos
  /\ \A c \in Clients, r \in Repos :
       holder[r] = c <=> (sync[c].phase \in Locked /\ sync[c].repo = r)

CacheInit ==
  /\ head = [r \in Repos |-> 1]
  /\ entry = [r \in Repos |-> NoEntry]
  /\ holder = [r \in Repos |-> NoOne]
  /\ sync = [c \in Clients |-> [phase |-> "idle"]]
  /\ torn = {}

\* Somebody pushes, perhaps with force.
Push(r) ==
  /\ head[r] < MaxHead
  /\ head' = [head EXCEPT ![r] = @ + 1]
  /\ UNCHANGED <<entry, holder, sync, torn>>

-----------------------------------------------------------------------------
(* Sync.                                                                    *)

Becomes(c, s) == sync' = [sync EXCEPT ![c] = s]
Phase(c)      == sync[c].phase
Moves(c, ph)  == Becomes(c, [sync[c] EXCEPT !.phase = ph])
Unlock(c, r)  == holder' = [holder EXCEPT ![r] = NoOne]

StartSync(c, r) ==
  /\ Becomes(c, [phase |-> "asking", repo |-> r, since |-> head[r]])
  /\ UNCHANGED <<head, entry, holder, torn>>

\* git ls-remote, before the lock is taken; whatever goes wrong is "not found".
GetRemoteHash(c) ==
  /\ Phase(c) = "asking"
  /\ LET s == sync[c] IN
     \/ Becomes(c, [phase |-> "locking", repo |-> s.repo, since |-> s.since, hash |-> head[s.repo]])
     \/ Becomes(c, [phase |-> "notfound"])
  /\ UNCHANGED <<head, entry, holder, torn>>

\* The start of useCache, before the clone or after it.
Using(s, use) == [phase |-> "opening", repo |-> s.repo, since |-> s.since,
                  hash |-> s.hash, use |-> use]
Without(s)    == [phase |-> "cloning", repo |-> s.repo, since |-> s.since, hash |-> s.hash]

\* Mutant: the cache is used without waiting for its lock.
UseUnlocked(c) ==
  /\ Phase(c) = "locking"
  /\ holder' = [holder EXCEPT ![sync[c].repo] = c]
  /\ Becomes(c, Using(sync[c], "first"))
  /\ UNCHANGED <<head, entry, torn>>

LockCache(c) ==
  /\ Phase(c) = "locking" /\ holder[sync[c].repo] = NoOne
  /\ holder' = [holder EXCEPT ![sync[c].repo] = c]
  /\ Becomes(c, Using(sync[c], "first"))
  /\ UNCHANGED <<head, entry, torn>>

\* lockCacheDir cannot make the file or lock it; not an outcome to rely on.
LockFails(c) ==
  /\ Phase(c) = "locking" /\ Becomes(c, [phase |-> "failed"])
  /\ UNCHANGED <<head, entry, holder, torn>>

\* removeCacheDir and ErrCacheUnavailable: a clone follows, but only once. A removal
\* that fails may have removed a part of the work tree.
Unavailable(c) ==
  LET s == sync[c]  r == s.repo IN
  \/ /\ entry' = [entry EXCEPT ![r] = NoEntry] /\ torn' = torn \ {r}
     /\ \/ s.use = "first" /\ Becomes(c, Without(s)) /\ UNCHANGED holder
        \/ s.use = "second" /\ Becomes(c, [phase |-> "failed"]) /\ Unlock(c, r)
  \/ /\ entry[r].git = "head"
     /\ entry' = [entry EXCEPT ![r].whole = FALSE] /\ torn' = torn \cup {r}
     /\ Becomes(c, [phase |-> "failed"]) /\ Unlock(c, r)

\* Mutant: a stale entry is copied as it is.
OpenAnyCommit(c) ==
  /\ Phase(c) = "opening"
  /\ LET s == sync[c]  r == s.repo  e == entry[r] IN
     \/ Unavailable(c)
     \/ /\ e.git = "head"
        /\ Moves(c, "copying") /\ UNCHANGED <<entry, torn, holder>>
  /\ UNCHANGED head

\* PlainOpen, Head, and the comparison with the remote hash; a stale entry is
\* checked out again with force, which completes its work tree.
OpenCache(c) ==
  /\ Phase(c) = "opening"
  /\ LET s == sync[c]  r == s.repo  e == entry[r] IN
     \/ Unavailable(c)
     \/ /\ e.git = "head" /\ e.commit = s.hash
        /\ Moves(c, "copying") /\ UNCHANGED <<entry, torn, holder>>
     \/ /\ e.git = "head" /\ e.commit # s.hash
        /\ entry' = [entry EXCEPT ![r].whole = TRUE]
        /\ torn' = torn \ {r}
        /\ Moves(c, "pulling") /\ UNCHANGED holder
  /\ UNCHANGED head

\* Pull: nothing to do, or the fetched commit becomes HEAD and then the work tree.
PullCache(c) ==
  /\ Phase(c) = "pulling"
  /\ LET s == sync[c]  r == s.repo IN
     \/ Unavailable(c)
     \/ /\ entry[r].commit = head[r]
        /\ Moves(c, "copying") /\ UNCHANGED <<entry, torn, holder>>
     \/ /\ entry[r].commit # head[r]
        /\ entry' = [entry EXCEPT ![r] = At(head[r], FALSE)]
        /\ Moves(c, "resetting") /\ UNCHANGED <<torn, holder>>
  /\ UNCHANGED head

ResetTree(c) ==
  /\ Phase(c) = "resetting"
  /\ LET s == sync[c]  r == s.repo IN
     \/ Unavailable(c)
     \/ /\ entry' = [entry EXCEPT ![r].whole = TRUE]
        /\ Moves(c, "copying") /\ UNCHANGED <<torn, holder>>
  /\ UNCHANGED head

\* PlainClone creates .git, fetches and sets HEAD, then checks out; it removes what it
\* made when it fails.
CloneFails(c) ==
  /\ entry' = [entry EXCEPT ![sync[c].repo] = NoEntry]
  /\ \E ph \in {"failed", "notfound"} : Becomes(c, [phase |-> ph])
  /\ Unlock(c, sync[c].repo)

CloneCache(c) ==
  /\ Phase(c) = "cloning"
  /\ LET s == sync[c]  r == s.repo IN
     \/ /\ entry[r] = NoEntry
        /\ entry' = [entry EXCEPT ![r] = [git |-> "unborn"]]
        /\ UNCHANGED <<sync, holder>>
     \/ /\ entry[r].git = "unborn"
        /\ entry' = [entry EXCEPT ![r] = At(head[r], FALSE)]
        /\ Moves(c, "fetched") /\ UNCHANGED holder
     \/ CloneFails(c)
  /\ UNCHANGED <<head, torn>>

CheckoutClone(c) ==
  /\ Phase(c) = "fetched"
  /\ \/ /\ entry' = [entry EXCEPT ![sync[c].repo].whole = TRUE]
        /\ Becomes(c, Using(sync[c], "second")) /\ UNCHANGED holder
     \/ CloneFails(c)
  /\ UNCHANGED <<head, torn>>

\* Mutant: the lock is not released after a copy.
CopyKeepsLock(c) ==
  /\ Phase(c) = "copying"
  /\ LET s == sync[c]  r == s.repo IN
     /\ \/ /\ entry[r].git = "head"
           /\ Becomes(c, [phase |-> "done", repo |-> r, since |-> s.since, excused |-> r \in torn,
                          tree |-> [commit |-> entry[r].commit, whole |-> entry[r].whole]])
        \/ Becomes(c, [phase |-> "failed"])
  /\ UNCHANGED <<head, entry, torn, holder>>

\* CopyDir reads the entry file by file; the deferred unlock follows.
CopyCache(c) ==
  /\ Phase(c) = "copying"
  /\ LET s == sync[c]  r == s.repo IN
     /\ \/ /\ entry[r].git = "head"
           /\ Becomes(c, [phase |-> "done", repo |-> r, since |-> s.since, excused |-> r \in torn,
                          tree |-> [commit |-> entry[r].commit, whole |-> entry[r].whole]])
        \/ Becomes(c, [phase |-> "failed"])
     /\ Unlock(c, r)
  /\ UNCHANGED <<head, entry, torn>>

SyncStep(c) ==
  \/ GetRemoteHash(c) \/ LockCache(c)
  \/ OpenCache(c) \/ PullCache(c) \/ ResetTree(c)
  \/ CloneCache(c) \/ CheckoutClone(c) \/ CopyCache(c)

Partial(r) == entry[r].git = "head" /\ ~entry[r].whole

\* The process ends without its deferred calls; the kernel drops its lock.
SyncDies(c) ==
  /\ sync' = [sync EXCEPT ![c] = [phase |-> "failed"]]
  /\ LET held == {r \in Repos : holder[r] = c} IN
     /\ holder' = [r \in Repos |-> IF r \in held THEN NoOne ELSE holder[r]]
     /\ torn' = torn \cup {r \in held : Partial(r)}
  /\ UNCHANGED <<head, entry>>

-----------------------------------------------------------------------------
\* A copy is at least as new as the branch was when its Sync began, though the hash
\* it is compared with is read before the lock and the entry is shared.
CopyIsRecent == \A c \in Clients : Phase(c) = "done" => sync[c].tree.commit >= sync[c].since

\* A copy is complete, however many processes share the entry, unless one died while
\* it wrote the entry or could not remove it.
CopyIsWhole == \A c \in Clients : Phase(c) = "done" => sync[c].tree.whole \/ sync[c].excused

-----------------------------------------------------------------------------
(* Refinement of AtomicSync.                                                *)

HasSeen == {"locking", "fetched", "opening", "pulling", "resetting", "copying"}

\* The hash that ls-remote gave, until the entry holds what was fetched later.
Seen(s) ==
  IF s.phase = "locking" \/ (s.phase \in {"opening", "pulling"} /\ s.use = "first")
  THEN s.hash ELSE entry[s.repo].commit

ReadOf(s) ==
  CASE s.phase \in HasSeen -> [is |-> "seen", repo |-> s.repo, commit |-> Seen(s)]
    [] s.phase = "asking" \/ s.phase = "cloning" -> [is |-> "begun", repo |-> s.repo]
    [] s.phase = "done" -> [is |-> "got", tree |-> s.tree]
    [] OTHER -> [is |-> "none"]

Atomic == INSTANCE AtomicSync WITH
  read <- [c \in Clients |-> ReadOf(sync[c])], spoilt <- torn

\* However the steps of several processes on one entry, their failures, deaths and the
\* pushes to the branch mix, each Sync copies the branch as it was at one moment since
\* its call, and all of it unless a process died on the entry or could not remove it.
ImplementsAtomicSync == Atomic!Spec
=============================================================================
