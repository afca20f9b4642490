----------------------------- MODULE ClientProofs -----------------------------
(***************************************************************************)
(* Theorems about Client and GitCache for any number of processes, cache     *)
(* entries, commits and pipelines: what a process copies out of the shared   *)
(* cache, and what the chief is asked for.                                  *)
(***************************************************************************)
EXTENDS Client, FiniteSetTheorems, TLAPS

Used    == {"opening", "pulling", "resetting", "copying"}
Hashed  == {"locking", "cloning", "fetched"} \cup Used
Asked   == {"asking"} \cup Hashed
WithHEAD == {"pulling", "resetting", "copying", "fetched"}

\* What a process at work on an entry may rely on: the branch was at least at its
\* since, and so is the hash it compares with, and what it is about to copy.
Local(s) ==
  /\ s.phase \in Asked => s.since <= head[s.repo]
  /\ s.phase \in Hashed => s.since <= s.hash
  /\ s.phase \in WithHEAD => entry[s.repo].git = "head"
  /\ s.phase \in {"resetting", "copying"} => s.since <= entry[s.repo].commit
  /\ s.phase = "done" => s.since <= s.tree.commit /\ (s.tree.whole \/ s.excused)

\* An entry is incomplete while its holder writes it, or after a death.
Explained(r) ==
  Partial(r) => \/ r \in torn
                \/ \E c \in Clients : holder[r] = c /\ sync[c].phase \in {"resetting", "fetched"}

CacheInv ==
  /\ CacheTypeOK
  /\ \A c \in Clients : Local(sync[c])
  /\ \A r \in Repos : Explained(r)

-----------------------------------------------------------------------------
(* Records.                                                                 *)

LEMMA SyncIs ==
  ASSUME NEW s \in Sync
  PROVE  /\ s.phase \in Locked => s.repo \in Repos
         /\ s.phase \in Used => s \in [phase : Used, repo : Repos, since : Commit, hash : Commit,
                                       use : Use]
         /\ s.phase \in {"locking", "cloning", "fetched"} =>
              s \in [phase : {"locking", "cloning", "fetched"}, repo : Repos, since : Commit,
                     hash : Commit]
         /\ s.phase = "asking" => s \in [phase : {"asking"}, repo : Repos, since : Commit]
         /\ s.phase = "done" => s \in [phase : {"done"}, repo : Repos, since : Commit,
                                       tree : Tree, excused : BOOLEAN]
  BY DEF Sync, Locked, Used

LEMMA InSync ==
  /\ \A ph \in Used, r \in Repos, i \in Commit, h \in Commit, u \in Use :
       [phase |-> ph, repo |-> r, since |-> i, hash |-> h, use |-> u] \in Sync
  /\ \A ph \in {"locking", "cloning", "fetched"}, r \in Repos, i \in Commit, h \in Commit :
       [phase |-> ph, repo |-> r, since |-> i, hash |-> h] \in Sync
  /\ \A r \in Repos, i \in Commit : [phase |-> "asking", repo |-> r, since |-> i] \in Sync
  /\ \A ph \in {"idle", "failed", "notfound"} : [phase |-> ph] \in Sync
  /\ \A r \in Repos, i \in Commit, t \in Tree, x \in BOOLEAN :
       [phase |-> "done", repo |-> r, since |-> i, tree |-> t, excused |-> x] \in Sync
  BY DEF Sync, Used

LEMMA EntryIs ==
  /\ NoEntry \in Entry /\ NoEntry.git = "absent"
  /\ [git |-> "unborn"] \in Entry
  /\ \A i \in Commit, w \in BOOLEAN : At(i, w) \in Entry
  /\ \A e \in Entry : e.git = "head" => e \in [git : {"head"}, commit : Commit, whole : BOOLEAN]
  BY DEF Entry, NoEntry, At

LEMMA MarkedIs ==
  ASSUME NEW e \in Entry, e.git = "head", NEW w \in BOOLEAN
  PROVE  /\ [e EXCEPT !.whole = w] \in Entry
         /\ [e EXCEPT !.whole = w].git = "head" /\ [e EXCEPT !.whole = w].whole = w
         /\ [e EXCEPT !.whole = w].commit = e.commit
  <1>1. e \in [git : {"head"}, commit : Commit, whole : BOOLEAN]
    BY EntryIs
  <1>2. [e EXCEPT !.whole = w] = [git |-> "head", commit |-> e.commit, whole |-> w]
    BY <1>1
  <1> QED
    BY <1>1, <1>2 DEF Entry

-----------------------------------------------------------------------------
(* Steps of the cache.                                                      *)

\* A process that has no lock keeps to itself.
LEMMA FreeStep ==
  ASSUME CacheInv, NEW c \in Clients, NEW s \in Sync,
         sync[c].phase \notin Locked, s.phase \notin Locked,
         sync' = [sync EXCEPT ![c] = s],
         UNCHANGED <<head, entry, holder, torn>>, Local(s)'
  PROVE  CacheInv'
  <1>1. \A d \in Clients : sync'[d] = IF d = c THEN s ELSE sync[d]
    BY DEF CacheInv, CacheTypeOK
  <1>2. CacheTypeOK'
    <2>1. sync' \in [Clients -> Sync]
      BY DEF CacheInv, CacheTypeOK
    <2>2. ASSUME NEW d \in Clients, NEW r \in Repos
          PROVE  (holder[r] = d <=> (sync[d].phase \in Locked /\ sync[d].repo = r))'
      BY <1>1 DEF CacheInv, CacheTypeOK
    <2> QED
      BY <2>1, <2>2 DEF CacheInv, CacheTypeOK
  <1>3. ASSUME NEW d \in Clients PROVE Local(sync[d])'
    BY <1>1 DEF CacheInv, Local
  <1>4. ASSUME NEW r \in Repos PROVE Explained(r)'
    <2>1. Explained(r)
      BY DEF CacheInv
    <2>2. ASSUME NEW d \in Clients, holder[r] = d PROVE sync'[d] = sync[d]
      BY <1>1, <2>2 DEF CacheInv, CacheTypeOK
    <2> QED
      BY <2>1, <2>2 DEF Explained, Partial
  <1> QED
    BY <1>2, <1>3, <1>4 DEF CacheInv

\* A process that has the lock of an entry changes that entry alone, keeping the lock
\* or releasing it.
LEMMA OwnStep ==
  ASSUME CacheInv, NEW c \in Clients, NEW r \in Repos, NEW s \in Sync, NEW e \in Entry,
         sync[c].phase \in Locked, sync[c].repo = r,
         sync' = [sync EXCEPT ![c] = s], entry' = [entry EXCEPT ![r] = e],
         head' = head, torn' \subseteq Repos, \A q \in Repos \ {r} : q \in torn' <=> q \in torn,
         \/ s.phase \in Locked /\ s.repo = r /\ holder' = holder
         \/ s.phase \notin Locked /\ holder' = [holder EXCEPT ![r] = NoOne],
         Local(s)',
         e.git = "head" /\ ~e.whole => r \in torn' \/ s.phase \in {"resetting", "fetched"}
  PROVE  CacheInv'
  <1>1. \A d \in Clients : sync'[d] = IF d = c THEN s ELSE sync[d]
    BY DEF CacheInv, CacheTypeOK
  <1>2. r \in Repos /\ \A q \in Repos : entry'[q] = IF q = r THEN e ELSE entry[q]
    BY SyncIs DEF CacheInv, CacheTypeOK
  <1>3. holder[r] = c
    BY <1>2 DEF CacheInv, CacheTypeOK
  <1>4. \A q \in Repos : q # r => holder'[q] = holder[q] /\ holder[q] # c
    BY <1>2 DEF CacheInv, CacheTypeOK
  <1>5. holder'[r] = IF s.phase \in Locked THEN c ELSE NoOne
    BY <1>2, <1>3 DEF CacheInv, CacheTypeOK
  <1>6. \A d \in Clients : d # c => ~(sync[d].phase \in Locked /\ sync[d].repo = r)
    BY <1>2, <1>3 DEF CacheInv, CacheTypeOK
  <1>7. CacheTypeOK'
    <2>1. sync' \in [Clients -> Sync] /\ entry' \in [Repos -> Entry]
      BY <1>2 DEF CacheInv, CacheTypeOK
    <2>2. holder' \in [Repos -> Clients \cup {NoOne}]
      BY DEF CacheInv, CacheTypeOK
    <2>3. ASSUME NEW d \in Clients, NEW q \in Repos
          PROVE  holder'[q] = d <=> (sync'[d].phase \in Locked /\ sync'[d].repo = q)
      <3>1. holder[q] = d <=> (sync[d].phase \in Locked /\ sync[d].repo = q)
        BY DEF CacheInv, CacheTypeOK
      <3>2. CASE d = c
        BY <1>1, <1>4, <1>5, <3>2, CacheAssumption
      <3>3. CASE d # c /\ q = r
        BY <1>1, <1>5, <1>6, <3>3, CacheAssumption
      <3>4. CASE d # c /\ q # r
        BY <1>1, <1>4, <3>1, <3>4
      <3> QED
        BY <3>2, <3>3, <3>4
    <2> QED
      BY <2>1, <2>2, <2>3 DEF CacheInv, CacheTypeOK
  <1>8. ASSUME NEW d \in Clients PROVE Local(sync[d])'
    <2>1. CASE d = c
      BY <1>1, <2>1 DEF Local
    <2>2. CASE d # c
      <3>1. sync'[d] = sync[d] /\ sync[d] \in Sync /\ Local(sync[d])
        BY <1>1, <2>2 DEF CacheInv, CacheTypeOK
      <3>2. sync[d].phase \in WithHEAD => entry'[sync[d].repo] = entry[sync[d].repo]
        BY <1>2, <1>6, <2>2, <3>1, SyncIs DEF WithHEAD, Locked
      <3> QED
        BY <3>1, <3>2 DEF Local, WithHEAD
    <2> QED
      BY <2>1, <2>2
  <1>9. ASSUME NEW q \in Repos PROVE Explained(q)'
    <2>1. CASE q = r
      BY <1>1, <1>2, <1>5, <2>1 DEF Explained, Partial, Locked
    <2>2. CASE q # r
      <3>1. Explained(q) /\ entry'[q] = entry[q] /\ holder'[q] = holder[q] /\ holder[q] # c
        BY <1>2, <1>4, <2>2 DEF CacheInv
      <3> QED
        BY <1>1, <2>2, <3>1 DEF Explained, Partial
    <2> QED
      BY <2>1, <2>2
  <1> QED
    BY <1>7, <1>8, <1>9 DEF CacheInv

LEMMA LockStep == \A c \in Clients : CacheInv /\ LockCache(c) => CacheInv'
  <1> SUFFICES ASSUME NEW c \in Clients, CacheInv, LockCache(c) PROVE CacheInv'
    OBVIOUS
  <1> DEFINE s == sync[c]
             r == s.repo
             new == Using(s, "first")
  <1>1. /\ s \in [phase : {"locking", "cloning", "fetched"}, repo : Repos, since : Commit, hash : Commit]
        /\ s.phase = "locking" /\ r \in Repos /\ holder[r] = NoOne
    BY SyncIs DEF LockCache, Phase, CacheInv, CacheTypeOK
  <1>2. new \in Sync /\ new.phase = "opening" /\ new.repo = r
        /\ new.since = s.since /\ new.hash = s.hash
    BY <1>1, InSync DEF Using, Used, Use
  <1>3. /\ sync' = [sync EXCEPT ![c] = new] /\ holder' = [holder EXCEPT ![r] = c]
        /\ UNCHANGED <<head, entry, torn>>
    BY DEF LockCache, Becomes
  <1> HIDE DEF new
  <1>4. \A d \in Clients : sync'[d] = IF d = c THEN new ELSE sync[d]
    BY <1>3 DEF CacheInv, CacheTypeOK
  <1>5. \A q \in Repos : holder'[q] = IF q = r THEN c ELSE holder[q]
    BY <1>3 DEF CacheInv, CacheTypeOK
  <1>6. CacheTypeOK'
    <2>1. sync' \in [Clients -> Sync] /\ holder' \in [Repos -> Clients \cup {NoOne}]
      BY <1>2, <1>3 DEF CacheInv, CacheTypeOK
    <2>2. ASSUME NEW d \in Clients, NEW q \in Repos
          PROVE  holder'[q] = d <=> (sync'[d].phase \in Locked /\ sync'[d].repo = q)
      <3>1. holder[q] = d <=> (sync[d].phase \in Locked /\ sync[d].repo = q)
        BY DEF CacheInv, CacheTypeOK
      <3>2. "opening" \in Locked /\ "locking" \notin Locked
        BY DEF Locked
      <3> QED
        BY <1>1, <1>2, <1>4, <1>5, <3>1, <3>2, CacheAssumption
    <2> QED
      BY <1>3, <2>1, <2>2 DEF CacheInv, CacheTypeOK
  <1>7. ASSUME NEW d \in Clients PROVE Local(sync[d])'
    <2>1. CASE d = c
      <3>1. Local(s)
        BY DEF CacheInv
      <3> QED
        BY <1>1, <1>2, <1>3, <1>4, <2>1, <3>1 DEF Local, Asked, Hashed, Used, WithHEAD
    <2>2. CASE d # c
      BY <1>3, <1>4, <2>2 DEF CacheInv, Local
    <2> QED
      BY <2>1, <2>2
  <1>8. ASSUME NEW q \in Repos PROVE Explained(q)'
    <2>1. Explained(q)
      BY DEF CacheInv
    <2>2. ASSUME NEW d \in Clients, holder[q] = d, sync[d].phase \in {"resetting", "fetched"}
          PROVE  holder'[q] = d /\ sync'[d] = sync[d]
      BY <1>1, <1>4, <1>5, <2>2, CacheAssumption
    <2> QED
      BY <1>3, <2>1, <2>2 DEF Explained, Partial
  <1> QED
    BY <1>6, <1>7, <1>8 DEF CacheInv

LEMMA DieStep == \A c \in Clients : CacheInv /\ SyncDies(c) => CacheInv'
  <1> SUFFICES ASSUME NEW c \in Clients, CacheInv, SyncDies(c) PROVE CacheInv'
    OBVIOUS
  <1> DEFINE dead == [phase |-> "failed"]
  <1>1. dead \in Sync /\ dead.phase \notin Locked \cup Asked \cup {"done"}
    BY InSync DEF Locked, Asked, Hashed, Used
  <1>2. \A d \in Clients : sync'[d] = IF d = c THEN dead ELSE sync[d]
    BY DEF SyncDies, CacheInv, CacheTypeOK
  <1>3. \A q \in Repos : holder'[q] = IF holder[q] = c THEN NoOne ELSE holder[q]
    BY DEF SyncDies
  <1>4. UNCHANGED <<head, entry>>
    BY DEF SyncDies
  <1>5. torn' = torn \cup {r \in Repos : holder[r] = c /\ Partial(r)}
    BY DEF SyncDies
  <1>6. CacheTypeOK'
    <2>1. sync' \in [Clients -> Sync] /\ holder' \in [Repos -> Clients \cup {NoOne}]
      BY <1>1 DEF SyncDies, CacheInv, CacheTypeOK
    <2>2. ASSUME NEW d \in Clients, NEW q \in Repos
          PROVE  holder'[q] = d <=> (sync'[d].phase \in Locked /\ sync'[d].repo = q)
      <3>1. holder[q] = d <=> (sync[d].phase \in Locked /\ sync[d].repo = q)
        BY DEF CacheInv, CacheTypeOK
      <3> QED
        BY <1>1, <1>2, <1>3, <3>1, CacheAssumption
    <2>3. torn' \subseteq Repos
      BY <1>5 DEF CacheInv, CacheTypeOK
    <2> QED
      BY <1>4, <2>1, <2>2, <2>3 DEF CacheInv, CacheTypeOK
  <1>7. ASSUME NEW d \in Clients PROVE Local(sync[d])'
    BY <1>1, <1>2, <1>4 DEF CacheInv, Local, WithHEAD, Asked, Hashed, Used
  <1>8. ASSUME NEW q \in Repos PROVE Explained(q)'
    <2>1. Explained(q)
      BY DEF CacheInv
    <2>2. ASSUME NEW d \in Clients, holder[q] = d, holder[q] # c
          PROVE  holder'[q] = d /\ sync'[d] = sync[d]
      BY <1>2, <1>3, <2>2
    <2> QED
      BY <1>4, <1>5, <2>1, <2>2 DEF Explained, Partial
  <1> QED
    BY <1>6, <1>7, <1>8 DEF CacheInv

LEMMA PushStep == \A r \in Repos : CacheInv /\ Push(r) => CacheInv'
  <1> SUFFICES ASSUME NEW r \in Repos, CacheInv, Push(r) PROVE CacheInv'
    OBVIOUS
  <1>1. Commit \subseteq Nat
    BY DEF Commit
  <1>2. /\ head' \in [Repos -> Commit]
        /\ \A q \in Repos : head[q] <= head'[q] /\ head[q] \in Nat /\ head'[q] \in Nat
    BY CacheAssumption DEF Push, CacheInv, CacheTypeOK, Commit
  <1>3. CacheTypeOK'
    BY <1>2 DEF Push, CacheInv, CacheTypeOK
  <1>4. ASSUME NEW d \in Clients PROVE Local(sync[d])'
    <2>1. sync[d].phase \in Asked => sync[d].since <= head'[sync[d].repo]
      <3>1. ASSUME sync[d].phase \in Asked
            PROVE  sync[d].repo \in Repos /\ sync[d].since \in Nat
        BY <1>1, <3>1, SyncIs DEF CacheInv, CacheTypeOK, Asked, Hashed
      <3> QED
        BY <1>2, <3>1 DEF CacheInv, Local
    <2> QED
      BY <2>1 DEF Push, CacheInv, Local
  <1>5. \A q \in Repos : Explained(q)'
    BY DEF Push, CacheInv, Explained, Partial
  <1> QED
    BY <1>3, <1>4, <1>5 DEF CacheInv

\* A step begins a Sync, or ends one, without a lock.
LEMMA StartStep ==
  ASSUME CacheInv, NEW c \in Clients, NEW r \in Repos, Phase(c) \notin Locked, StartSync(c, r)
  PROVE  CacheInv'
  <1>1. head[r] \in Commit /\ head[r] \in Nat
    BY DEF CacheInv, CacheTypeOK, Commit
  <1>2. PICK s \in Sync : s = [phase |-> "asking", repo |-> r, since |-> head[r]]
    BY <1>1, InSync
  <1>3. sync' = [sync EXCEPT ![c] = s] /\ UNCHANGED <<head, entry, holder, torn>>
    BY <1>2 DEF StartSync, Becomes
  <1>4. Local(s)'
    BY <1>1, <1>2, <1>3 DEF Local, Hashed, Used, WithHEAD
  <1>5. s.phase \notin Locked
    BY <1>2 DEF Locked
  <1> QED
    BY <1>2, <1>3, <1>4, <1>5, FreeStep DEF Phase

LEMMA RestStep ==
  ASSUME CacheInv, NEW c \in Clients, NEW ph \in {"idle", "failed", "notfound"},
         Phase(c) \notin Locked, Becomes(c, [phase |-> ph]),
         UNCHANGED <<head, entry, holder, torn>>
  PROVE  CacheInv'
  <1> DEFINE s == [phase |-> ph]
  <1>1. s \in Sync /\ s.phase \notin Locked \cup Asked \cup {"done"}
    BY InSync DEF Locked, Asked, Hashed, Used
  <1>2. Local(s)'
    BY <1>1 DEF Local, Asked, Hashed, Used, WithHEAD
  <1>3. sync' = [sync EXCEPT ![c] = s]
    BY DEF Becomes
  <1> QED
    BY <1>1, <1>2, <1>3, FreeStep DEF Phase

LEMMA AskStep == \A c \in Clients : CacheInv /\ GetRemoteHash(c) => CacheInv'
  <1> SUFFICES ASSUME NEW c \in Clients, CacheInv, GetRemoteHash(c) PROVE CacheInv'
    OBVIOUS
  <1>1. /\ sync[c] \in [phase : {"asking"}, repo : Repos, since : Commit]
        /\ sync[c].phase = "asking" /\ Phase(c) \notin Locked
        /\ UNCHANGED <<head, entry, holder, torn>>
    BY SyncIs DEF GetRemoteHash, Phase, Locked, CacheInv, CacheTypeOK
  <1>2. CASE Becomes(c, [phase |-> "notfound"])
    BY <1>1, <1>2, RestStep
  <1> DEFINE new == [phase |-> "locking", repo |-> sync[c].repo, since |-> sync[c].since,
                     hash |-> head[sync[c].repo]]
  <1>3. CASE Becomes(c, new)
    <2>1. head[sync[c].repo] \in Commit
      BY <1>1 DEF CacheInv, CacheTypeOK
    <2>2. PICK s \in Sync : /\ s = new
                            /\ s.phase = "locking" /\ s.repo = sync[c].repo
                            /\ s.since = sync[c].since /\ s.hash = head[s.repo]
      BY <1>1, <2>1, InSync
    <2>3. s.since <= head[s.repo]
      BY <1>1, <2>2 DEF CacheInv, Local, Asked
    <2>4. Local(s)'
      BY <1>1, <2>2, <2>3 DEF Local, WithHEAD
    <2>5. sync' = [sync EXCEPT ![c] = s] /\ s.phase \notin Locked
      BY <1>3, <2>2 DEF Becomes, Locked
    <2> QED
      BY <1>1, <2>2, <2>4, <2>5, FreeStep DEF Phase
  <1> QED
    BY <1>2, <1>3 DEF GetRemoteHash

-----------------------------------------------------------------------------
(* Steps with the lock.                                                     *)

\* What the holder of an entry's lock may rely on.
LEMMA Holding ==
  ASSUME CacheInv, NEW c \in Clients, sync[c].phase \in Locked
  PROVE  /\ sync[c].repo \in Repos /\ entry[sync[c].repo] \in Entry
         /\ head[sync[c].repo] \in Commit /\ holder[sync[c].repo] = c
         /\ torn \subseteq Repos /\ sync[c].since \in Commit /\ sync[c].hash \in Commit
         /\ sync[c].since <= head[sync[c].repo] /\ sync[c].since <= sync[c].hash
         /\ Commit \subseteq Nat
  <1>1. sync[c].repo \in Repos /\ sync[c].since \in Commit /\ sync[c].hash \in Commit
    BY SyncIs DEF CacheInv, CacheTypeOK, Locked, Used
  <1> QED
    BY <1>1 DEF CacheInv, CacheTypeOK, Local, Asked, Hashed, Used, Locked, Commit

\* A process that gives up its lock, failed or with nothing found.
LEMMA GiveUpStep ==
  ASSUME CacheInv, NEW c \in Clients, NEW ph \in {"failed", "notfound"}, NEW e \in Entry,
         sync[c].phase \in Locked, Becomes(c, [phase |-> ph]), Unlock(c, sync[c].repo),
         entry' = [entry EXCEPT ![sync[c].repo] = e], head' = head,
         torn' \subseteq Repos, \A q \in Repos \ {sync[c].repo} : q \in torn' <=> q \in torn,
         e.git = "head" /\ ~e.whole => sync[c].repo \in torn'
  PROVE  CacheInv'
  <1> DEFINE s == [phase |-> ph]
             r == sync[c].repo
  <1>1. s \in Sync /\ s.phase \notin Locked \cup Asked \cup {"done"}
    BY InSync DEF Locked, Asked, Hashed, Used
  <1>2. Local(s)'
    BY <1>1 DEF Local, Asked, Hashed, Used, WithHEAD
  <1>3. sync' = [sync EXCEPT ![c] = s] /\ holder' = [holder EXCEPT ![r] = NoOne]
    BY DEF Becomes, Unlock
  <1> HIDE DEF s
  <1> QED
    BY <1>1, <1>2, <1>3, Holding, OwnStep

\* The entry is given up: its removal succeeds, or leaves it incomplete.
LEMMA UnavailableStep ==
  ASSUME CacheInv, NEW c \in Clients, sync[c].phase \in Used, Unavailable(c), head' = head
  PROVE  CacheInv'
  <1> DEFINE s == sync[c]
             r == s.repo
  <1>1. /\ s.phase \in Locked /\ r \in Repos /\ entry[r] \in Entry /\ torn \subseteq Repos
        /\ s.since \in Commit /\ s.hash \in Commit
        /\ s.since <= head[r] /\ s.since <= s.hash
    BY Holding DEF Used, Locked
  <1>2. CASE entry' = [entry EXCEPT ![r] = NoEntry] /\ torn' = torn \ {r}
             /\ s.use = "first" /\ Becomes(c, Without(s)) /\ UNCHANGED holder
    <2>1. PICK new \in Sync :
            /\ new = Without(s)
            /\ new.phase = "cloning" /\ new.repo = r /\ new.since = s.since /\ new.hash = s.hash
      BY <1>1, InSync DEF Without
    <2>2. sync' = [sync EXCEPT ![c] = new]
      BY <1>2, <2>1 DEF Becomes
    <2>3. Local(new)' /\ new.phase \in Locked
      BY <1>1, <2>1 DEF Local, WithHEAD, Locked
    <2>4. NoEntry \in Entry /\ NoEntry.git # "head"
      BY EntryIs
    <2> QED
      BY <1>1, <1>2, <2>1, <2>2, <2>3, <2>4, OwnStep
  <1>3. CASE entry' = [entry EXCEPT ![r] = NoEntry] /\ torn' = torn \ {r}
             /\ Becomes(c, [phase |-> "failed"]) /\ Unlock(c, r)
    BY <1>1, <1>3, GiveUpStep, EntryIs
  <1>4. CASE /\ entry[r].git = "head"
             /\ entry' = [entry EXCEPT ![r].whole = FALSE] /\ torn' = torn \cup {r}
             /\ Becomes(c, [phase |-> "failed"]) /\ Unlock(c, r)
    <2>1. PICK e \in Entry : e = [entry[r] EXCEPT !.whole = FALSE]
      BY <1>1, <1>4, MarkedIs
    <2>2. entry' = [entry EXCEPT ![r] = e]
      BY <1>4, <2>1
    <2> QED
      BY <1>1, <1>4, <2>2, GiveUpStep
  <1> QED
    BY <1>2, <1>3, <1>4 DEF Unavailable

\* A process that keeps its lock and goes on with its entry.
LEMMA HoldStep ==
  ASSUME CacheInv, NEW c \in Clients, NEW ph \in WithHEAD \ {"fetched"}, NEW e \in Entry,
         sync[c].phase \in Used, Moves(c, ph),
         entry' = [entry EXCEPT ![sync[c].repo] = e], UNCHANGED <<head, holder>>,
         torn' \subseteq Repos, \A q \in Repos \ {sync[c].repo} : q \in torn' <=> q \in torn,
         e.git = "head",
         ph # "pulling" => sync[c].since <= e.commit,
         ~e.whole => sync[c].repo \in torn' \/ ph = "resetting"
  PROVE  CacheInv'
  <1>1. /\ sync[c].phase \in Locked /\ sync[c].repo \in Repos /\ holder[sync[c].repo] = c
        /\ sync[c].since <= head[sync[c].repo] /\ sync[c].since <= sync[c].hash
        /\ ph \in Used /\ ph \in Locked
    BY Holding DEF Used, Locked, WithHEAD
  <1>2. PICK s \in Sync :
          /\ s = [sync[c] EXCEPT !.phase = ph]
          /\ s.phase = ph /\ s.repo = sync[c].repo /\ s.since = sync[c].since
          /\ s.hash = sync[c].hash
    <2>1. sync[c] \in [phase : Used, repo : Repos, since : Commit, hash : Commit, use : Use]
      BY SyncIs DEF CacheInv, CacheTypeOK
    <2>2. [sync[c] EXCEPT !.phase = ph] =
            [phase |-> ph, repo |-> sync[c].repo, since |-> sync[c].since,
             hash |-> sync[c].hash, use |-> sync[c].use]
      BY <2>1
    <2> QED
      BY <1>1, <2>1, <2>2, InSync
  <1>3. sync' = [sync EXCEPT ![c] = s]
    BY <1>2 DEF Moves, Becomes
  <1>4. entry'[s.repo] = e
    BY <1>1, <1>2 DEF CacheInv, CacheTypeOK
  <1>5. Local(s)'
    BY <1>1, <1>2, <1>4 DEF Local, WithHEAD
  <1> QED
    BY <1>1, <1>2, <1>3, <1>5, OwnStep

\* The same with the entry untouched.
LEMMA PassStep ==
  ASSUME CacheInv, NEW c \in Clients, sync[c].phase \in Used, Moves(c, "copying"),
         UNCHANGED <<entry, torn, head, holder>>,
         entry[sync[c].repo].git = "head", sync[c].since <= entry[sync[c].repo].commit,
         sync[c].phase # "resetting"
  PROVE  CacheInv'
  <1> DEFINE r == sync[c].repo
  <1>1. r \in Repos /\ holder[r] = c /\ torn \subseteq Repos
    BY Holding DEF Used, Locked
  <1>2. PICK e \in Entry : e = entry[r]
    BY Holding DEF Used, Locked
  <1>3. entry' = [entry EXCEPT ![r] = e]
    BY <1>1, <1>2 DEF CacheInv, CacheTypeOK
  <1>4. ~e.whole => r \in torn
    <2>1. Explained(r) /\ (Partial(r) <=> ~e.whole)
      BY <1>1, <1>2 DEF CacheInv, Partial
    <2> QED
      BY <1>1, <2>1 DEF Explained, Used
  <1>5. "copying" \in WithHEAD \ {"fetched"}
    BY DEF WithHEAD
  <1> QED
    BY <1>1, <1>2, <1>3, <1>4, <1>5, HoldStep

\* An entry at the commit that its holder compares with, or fetched.
LEMMA OpenStep == \A c \in Clients : CacheInv /\ OpenCache(c) => CacheInv'
  <1> SUFFICES ASSUME NEW c \in Clients, CacheInv, OpenCache(c) PROVE CacheInv'
    OBVIOUS
  <1> DEFINE s == sync[c]
             r == s.repo
  <1>1. s.phase = "opening" /\ s.phase \in Used /\ s.phase \in Locked /\ head' = head
    BY DEF OpenCache, Phase, Used, Locked
  <1>2. r \in Repos /\ entry[r] \in Entry /\ torn \subseteq Repos /\ s.since <= s.hash
    BY <1>1, Holding
  <1>3. CASE Unavailable(c)
    BY <1>1, <1>3, UnavailableStep
  <1>4. CASE /\ entry[r].git = "head" /\ entry[r].commit = s.hash
             /\ Moves(c, "copying") /\ UNCHANGED <<entry, torn, holder>>
    BY <1>1, <1>2, <1>4, PassStep
  <1>5. CASE /\ entry[r].git = "head"
             /\ entry' = [entry EXCEPT ![r].whole = TRUE]
             /\ torn' = torn \ {r}
             /\ Moves(c, "pulling") /\ UNCHANGED holder
    <2>1. PICK e \in Entry : e = [entry[r] EXCEPT !.whole = TRUE] /\ e.git = "head" /\ e.whole
      BY <1>2, <1>5, MarkedIs
    <2>2. entry' = [entry EXCEPT ![r] = e] /\ "pulling" \in WithHEAD \ {"fetched"}
      BY <1>5, <2>1 DEF WithHEAD
    <2> QED
      BY <1>1, <1>2, <1>5, <2>1, <2>2, HoldStep
  <1> QED
    BY <1>3, <1>4, <1>5 DEF OpenCache

LEMMA PullStep == \A c \in Clients : CacheInv /\ PullCache(c) => CacheInv'
  <1> SUFFICES ASSUME NEW c \in Clients, CacheInv, PullCache(c) PROVE CacheInv'
    OBVIOUS
  <1> DEFINE s == sync[c]
             r == s.repo
  <1>1. s.phase = "pulling" /\ s.phase \in Used /\ s.phase \in Locked /\ head' = head
    BY DEF PullCache, Phase, Used, Locked
  <1>2. /\ r \in Repos /\ head[r] \in Commit /\ torn \subseteq Repos /\ s.since <= head[r]
        /\ entry[r].git = "head"
    BY <1>1, Holding DEF CacheInv, Local, WithHEAD
  <1>3. CASE Unavailable(c)
    BY <1>1, <1>3, UnavailableStep
  <1>4. CASE entry[r].commit = head[r] /\ Moves(c, "copying") /\ UNCHANGED <<entry, torn, holder>>
    BY <1>1, <1>2, <1>4, PassStep
  <1>5. CASE /\ entry' = [entry EXCEPT ![r] = At(head[r], FALSE)]
             /\ Moves(c, "resetting") /\ UNCHANGED <<torn, holder>>
    <2>1. PICK e \in Entry : e = At(head[r], FALSE) /\ e.git = "head" /\ e.commit = head[r]
      BY <1>2, EntryIs DEF At
    <2>2. entry' = [entry EXCEPT ![r] = e] /\ "resetting" \in WithHEAD \ {"fetched"}
      BY <1>5, <2>1 DEF WithHEAD
    <2> QED
      BY <1>1, <1>2, <1>5, <2>1, <2>2, HoldStep
  <1> QED
    BY <1>3, <1>4, <1>5 DEF PullCache

LEMMA ResetStep == \A c \in Clients : CacheInv /\ ResetTree(c) => CacheInv'
  <1> SUFFICES ASSUME NEW c \in Clients, CacheInv, ResetTree(c) PROVE CacheInv'
    OBVIOUS
  <1> DEFINE s == sync[c]
             r == s.repo
  <1>1. s.phase = "resetting" /\ s.phase \in Used /\ s.phase \in Locked /\ head' = head
    BY DEF ResetTree, Phase, Used, Locked
  <1>2. /\ r \in Repos /\ entry[r] \in Entry /\ torn \subseteq Repos
        /\ entry[r].git = "head" /\ s.since <= entry[r].commit
    BY <1>1, Holding DEF CacheInv, Local, WithHEAD
  <1>3. CASE Unavailable(c)
    BY <1>1, <1>3, UnavailableStep
  <1>4. CASE /\ entry' = [entry EXCEPT ![r].whole = TRUE]
             /\ Moves(c, "copying") /\ UNCHANGED <<torn, holder>>
    <2>1. PICK e \in Entry : /\ e = [entry[r] EXCEPT !.whole = TRUE] /\ e.git = "head" /\ e.whole
                             /\ e.commit = entry[r].commit
      BY <1>2, MarkedIs
    <2>2. entry' = [entry EXCEPT ![r] = e] /\ "copying" \in WithHEAD \ {"fetched"}
      BY <1>4, <2>1 DEF WithHEAD
    <2> QED
      BY <1>1, <1>2, <1>4, <2>1, <2>2, HoldStep
  <1> QED
    BY <1>3, <1>4 DEF ResetTree

\* A clone that fails leaves no entry.
LEMMA CloneFailsStep ==
  ASSUME CacheInv, NEW c \in Clients, sync[c].phase \in Locked, CloneFails(c),
         UNCHANGED <<head, torn>>
  PROVE  CacheInv'
  <1>1. PICK ph \in {"failed", "notfound"} : Becomes(c, [phase |-> ph])
    BY DEF CloneFails
  <1>2. /\ entry' = [entry EXCEPT ![sync[c].repo] = NoEntry] /\ Unlock(c, sync[c].repo)
        /\ NoEntry \in Entry /\ NoEntry.git # "head" /\ torn \subseteq Repos
    BY Holding, EntryIs DEF CloneFails
  <1> QED
    BY <1>1, <1>2, GiveUpStep

LEMMA CloneStep == \A c \in Clients : CacheInv /\ CloneCache(c) => CacheInv'
  <1> SUFFICES ASSUME NEW c \in Clients, CacheInv, CloneCache(c) PROVE CacheInv'
    OBVIOUS
  <1> DEFINE r == sync[c].repo
  <1>1. sync[c].phase = "cloning" /\ sync[c].phase \in Locked /\ UNCHANGED <<head, torn>>
    BY DEF CloneCache, Phase, Locked
  <1>2. /\ sync[c] \in [phase : {"locking", "cloning", "fetched"}, repo : Repos, since : Commit,
                        hash : Commit]
        /\ r \in Repos /\ head[r] \in Commit /\ torn \subseteq Repos
        /\ sync[c].since <= head[r] /\ sync[c].since <= sync[c].hash
    BY <1>1, Holding, SyncIs DEF CacheInv, CacheTypeOK
  <1>3. CASE CloneFails(c)
    BY <1>1, <1>3, CloneFailsStep
  <1>4. CASE entry' = [entry EXCEPT ![r] = [git |-> "unborn"]] /\ UNCHANGED <<sync, holder>>
    <2>1. PICK s \in Sync : s = sync[c]
      BY DEF CacheInv, CacheTypeOK
    <2>2. PICK e \in Entry : e = [git |-> "unborn"] /\ e.git = "unborn"
      BY EntryIs
    <2>3. sync' = [sync EXCEPT ![c] = s] /\ entry' = [entry EXCEPT ![r] = e]
      BY <1>4, <2>1, <2>2 DEF CacheInv, CacheTypeOK
    <2>4. Local(s)'
      BY <1>1, <1>2, <2>1 DEF Local, WithHEAD
    <2>5. /\ s.phase \in Locked /\ s.repo = r /\ e.git # "head" /\ holder' = holder
          /\ torn' \subseteq Repos /\ \A q \in Repos \ {r} : q \in torn' <=> q \in torn
      BY <1>1, <1>2, <1>4, <2>1, <2>2
    <2> QED
      BY <1>1, <1>2, <2>3, <2>4, <2>5, OwnStep
  <1>5. CASE entry' = [entry EXCEPT ![r] = At(head[r], FALSE)]
             /\ Moves(c, "fetched") /\ UNCHANGED holder
    <2>1. PICK s \in Sync :
            /\ s = [sync[c] EXCEPT !.phase = "fetched"]
            /\ s.phase = "fetched" /\ s.repo = r /\ s.since = sync[c].since
            /\ s.hash = sync[c].hash
      <3>1. [sync[c] EXCEPT !.phase = "fetched"] =
              [phase |-> "fetched", repo |-> r, since |-> sync[c].since, hash |-> sync[c].hash]
        BY <1>2
      <3> QED
        BY <1>2, <3>1, InSync
    <2>2. PICK e \in Entry : e = At(head[r], FALSE) /\ e.git = "head"
      BY <1>2, EntryIs DEF At
    <2>3. sync' = [sync EXCEPT ![c] = s] /\ entry' = [entry EXCEPT ![r] = e]
      BY <1>5, <2>1, <2>2 DEF Moves, Becomes
    <2>4. entry'[r] = e
      BY <1>2, <2>3 DEF CacheInv, CacheTypeOK
    <2>5. Local(s)' /\ s.phase \in Locked
      BY <1>1, <1>2, <2>1, <2>2, <2>4 DEF Local, WithHEAD, Locked
    <2> QED
      BY <1>1, <1>2, <1>5, <2>1, <2>2, <2>3, <2>5, OwnStep
  <1> QED
    BY <1>3, <1>4, <1>5 DEF CloneCache

LEMMA CheckoutStep == \A c \in Clients : CacheInv /\ CheckoutClone(c) => CacheInv'
  <1> SUFFICES ASSUME NEW c \in Clients, CacheInv, CheckoutClone(c) PROVE CacheInv'
    OBVIOUS
  <1> DEFINE r == sync[c].repo
  <1>1. sync[c].phase = "fetched" /\ sync[c].phase \in Locked /\ UNCHANGED <<head, torn>>
    BY DEF CheckoutClone, Phase, Locked
  <1>2. /\ r \in Repos /\ entry[r] \in Entry /\ entry[r].git = "head" /\ torn \subseteq Repos
        /\ sync[c].since \in Commit /\ sync[c].hash \in Commit
        /\ sync[c].since <= head[r] /\ sync[c].since <= sync[c].hash
    BY <1>1, Holding DEF CacheInv, Local, WithHEAD
  <1>3. CASE CloneFails(c)
    BY <1>1, <1>3, CloneFailsStep
  <1>4. CASE /\ entry' = [entry EXCEPT ![r].whole = TRUE]
             /\ Becomes(c, Using(sync[c], "second")) /\ UNCHANGED holder
    <2>1. PICK s \in Sync :
            /\ s = Using(sync[c], "second")
            /\ s.phase = "opening" /\ s.repo = r /\ s.since = sync[c].since
            /\ s.hash = sync[c].hash
      BY <1>2, InSync DEF Using, Used, Use
    <2>2. PICK e \in Entry : e = [entry[r] EXCEPT !.whole = TRUE] /\ e.whole
      BY <1>2, MarkedIs
    <2>3. sync' = [sync EXCEPT ![c] = s] /\ entry' = [entry EXCEPT ![r] = e]
      BY <1>4, <2>1, <2>2 DEF Becomes
    <2>4. Local(s)' /\ s.phase \in Locked
      BY <1>1, <1>2, <2>1 DEF Local, WithHEAD, Locked
    <2> QED
      BY <1>1, <1>2, <1>4, <2>1, <2>2, <2>3, <2>4, OwnStep
  <1> QED
    BY <1>3, <1>4 DEF CheckoutClone

\* What is copied is the entry as its holder left it: at least as new as asked for.
LEMMA CopyStep == \A c \in Clients : CacheInv /\ CopyCache(c) => CacheInv'
  <1> SUFFICES ASSUME NEW c \in Clients, CacheInv, CopyCache(c) PROVE CacheInv'
    OBVIOUS
  <1> DEFINE r == sync[c].repo
             tree == [commit |-> entry[r].commit, whole |-> entry[r].whole]
  <1>1. /\ sync[c].phase = "copying" /\ sync[c].phase \in Locked
        /\ UNCHANGED <<head, entry, torn>> /\ Unlock(c, r)
    BY DEF CopyCache, Phase, Locked
  <1>2. /\ r \in Repos /\ entry[r] \in Entry /\ entry[r].git = "head" /\ torn \subseteq Repos
        /\ sync[c].since \in Commit /\ sync[c].since <= entry[r].commit /\ holder[r] = c
    BY <1>1, Holding DEF CacheInv, Local, WithHEAD
  <1>3. PICK e \in Entry : e = entry[r]
    BY <1>2
  <1>4. entry' = [entry EXCEPT ![r] = e]
    BY <1>1, <1>2, <1>3 DEF CacheInv, CacheTypeOK
  <1>5. entry[r].whole \/ r \in torn
    <2>1. Explained(r)
      BY <1>2 DEF CacheInv
    <2> QED
      BY <1>1, <1>2, <2>1 DEF Explained, Partial
  <1>6. CASE Becomes(c, [phase |-> "failed"])
    BY <1>1, <1>2, <1>3, <1>4, <1>5, <1>6, GiveUpStep
  <1>7. CASE Becomes(c, [phase |-> "done", repo |-> r, since |-> sync[c].since,
                         excused |-> r \in torn, tree |-> tree])
    <2>1. tree \in Tree /\ (r \in torn) \in BOOLEAN
      BY <1>2, EntryIs DEF Tree
    <2>2. PICK s \in Sync :
            /\ s = [phase |-> "done", repo |-> r, since |-> sync[c].since,
                    tree |-> tree, excused |-> r \in torn]
            /\ s.phase = "done" /\ s.since = sync[c].since
            /\ s.tree.commit = entry[r].commit /\ s.tree.whole = entry[r].whole
            /\ s.excused = (r \in torn)
      BY <1>2, <2>1, InSync
    <2>3. sync' = [sync EXCEPT ![c] = s] /\ holder' = [holder EXCEPT ![r] = NoOne]
      BY <1>1, <1>7, <2>2 DEF Becomes, Unlock
    <2>4. Local(s)' /\ s.phase \notin Locked
      BY <1>2, <1>5, <2>2 DEF Local, WithHEAD, Asked, Hashed, Used, Locked
    <2>5. /\ e.git = "head" /\ ~e.whole => r \in torn'
          /\ torn' \subseteq Repos /\ \A q \in Repos \ {r} : q \in torn' <=> q \in torn
      BY <1>1, <1>2, <1>3, <1>5
    <2> QED
      BY <1>1, <1>2, <1>4, <2>3, <2>4, <2>5, OwnStep
  <1> QED
    BY <1>6, <1>7 DEF CopyCache

-----------------------------------------------------------------------------
(* Commands.                                                                *)

Made(c)  == {i \in DOMAIN accepted : accepted[i].by = c}
Early    == {"idle", "checked", "source", "sourced", "package", "synced", "described", "packed",
             "uploaded"}
Trees    == {"source", "body"}
Sources  == {{"source"}, {"body"}}
Gotten(k)   == k.has \in IF k.wants THEN Sources ELSE {{}}
Complete(k) == k.has \in IF k.wants THEN {{"dsc", "orig"}, {"dsc", "body"}} ELSE {{"dsc"}}

\* What is in a submission's directory, stage by stage.
Gathered(k) ==
  /\ k.stage \in {"idle", "checked"} => k.has = {}
  /\ k.stage = "source" => k.wants /\ k.has = {}
  /\ k.stage = "sourced" => k.wants /\ Gotten(k)
  /\ k.stage = "package" => Gotten(k)
  /\ k.stage \in {"synced", "described"} =>
       k.has \in IF k.wants THEN {{"source", "package"}, {"body", "package"}} ELSE {{"package"}}
  /\ k.stage \in {"packed", "uploaded", "asked"} => Complete(k)

\* How a command stands with the chief: what is under way, and what it has made.
Asking(c, k, w) ==
  /\ k.stage \in Early => w.is = "none" /\ Made(c) = {}
  /\ k.stage = "asked" => w.is # "none"
  /\ w.is \in {"request", "refusal"} => Made(c) = {}
  /\ w.is = "answer" => k.stage = "asked" /\ w.id \in Made(c)
  /\ k.stage \in {"failed", "killed"} => w.is \in {"none", "request"}
  /\ k.stage \in {"answered", "saving", "ended"} => w.is = "none" /\ k.id \in Made(c)

CommandOK(c, k, w) ==
  /\ k.sound
  /\ c \in Submitters => Gathered(k) /\ (w.is = "request" => Complete(k))
  /\ Asking(c, k, w)

\* A process uses the cache only while its command synchronises a tree.
Quiet      == {"idle", "failed"}
NoLockElse == \A c \in Clients :
  command[c].stage \notin {"source", "package"} => sync[c].phase \in Quiet

OneEach == \A i, j \in DOMAIN accepted : accepted[i].by = accepted[j].by => i = j

\* An id in a file is of the pipeline that its process was answered, and stays that.
Saves       == {"saving", "ended", "killed"}
SavedBy(c, i, f) == FileOf(c) = f /\ command[c].stage \in Saves /\ command[c].id = i
SavedIds    ==
  \A f \in File : \A i \in saved[f] : i \in DOMAIN accepted /\ SavedBy(accepted[i].by, i, f)

\* A file that processes wrote one after the other: it is empty while one is at it.
Writes(c, f) == command[c].stage = "saving" /\ FileOf(c) = f
OneAtATime(f) ==
  /\ \A c, d \in Clients : Writes(c, f) /\ Writes(d, f) => c = d
  /\ \A c \in Clients : Writes(c, f) => saved[f] = {}
  /\ \A i, j \in saved[f] : i = j
InTurn == \A f \in File : f \notin overlapped => OneAtATime(f)

Inv ==
  /\ CacheInv /\ TypeOK /\ NoLockElse
  /\ \A c \in Clients : CommandOK(c, command[c], wire[c])
  /\ OneEach /\ SubmissionIsOfItsTrees /\ SavedIds /\ InTurn

LEMMA CommandIs ==
  \A k \in Command :
    k = [stage |-> k.stage, wants |-> k.wants, has |-> k.has, sound |-> k.sound, id |-> k.id]
  BY DEF Command

\* A process goes on with its command; the chief and the saved ids stay as they are.
LEMMA CommandStep ==
  ASSUME Inv, CacheInv', NEW c \in Clients, NEW k \in Command, NEW w \in Wire,
         command' = [command EXCEPT ![c] = k], wire' = [wire EXCEPT ![c] = w],
         accepted' = accepted, CommandOK(c, k, w),
         \A d \in Clients : d # c => sync'[d] = sync[d],
         k.stage \notin {"source", "package"} => sync'[c].phase \in Quiet
  PROVE  /\ \A d \in Clients : CommandOK(d, command[d], wire[d])'
         /\ NoLockElse' /\ OneEach' /\ SubmissionIsOfItsTrees'
         /\ command' \in [Clients -> Command] /\ wire' \in [Clients -> Wire]
  <1>1. \A d \in Clients : /\ command'[d] = IF d = c THEN k ELSE command[d]
                           /\ wire'[d] = IF d = c THEN w ELSE wire[d]
    BY DEF Inv, TypeOK
  <1>2. ASSUME NEW d \in Clients PROVE CommandOK(d, command[d], wire[d])'
    <2>1. CommandOK(d, command'[d], wire'[d])
      BY <1>1 DEF Inv
    <2> QED
      BY <2>1 DEF CommandOK, Asking, Gathered, Gotten, Complete, Made
  <1>3. NoLockElse'
    BY <1>1 DEF Inv, NoLockElse
  <1>4. OneEach' /\ SubmissionIsOfItsTrees'
    BY DEF Inv, OneEach, SubmissionIsOfItsTrees
  <1>5. command' \in [Clients -> Command] /\ wire' \in [Clients -> Wire]
    BY DEF Inv, TypeOK
  <1> QED
    BY <1>2, <1>3, <1>4, <1>5

LEMMA MakerIs ==
  ASSUME TypeOK, NEW i \in DOMAIN accepted
  PROVE  accepted[i].by \in Clients
  <1>1. accepted[i] \in Accepted
    BY DEF TypeOK
  <1> QED
    BY <1>1 DEF Accepted

\* The ids in the files stay those of their processes.
LEMMA SavedStay ==
  ASSUME TypeOK, SavedIds, NEW c \in Clients, NEW k \in Command,
         command' = [command EXCEPT ![c] = k], UNCHANGED <<accepted, saved>>,
         command[c].stage \in Saves => k.stage \in Saves /\ k.id = command[c].id
  PROVE  SavedIds'
  <1> SUFFICES ASSUME NEW f \in File, NEW i \in saved[f]
               PROVE  (i \in DOMAIN accepted /\ SavedBy(accepted[i].by, i, f))'
    BY DEF SavedIds
  <1>1. i \in DOMAIN accepted /\ SavedBy(accepted[i].by, i, f)
    BY DEF SavedIds
  <1>2. accepted[i].by \in Clients
    BY <1>1, MakerIs
  <1> QED
    BY <1>1, <1>2 DEF SavedBy, FileOf, TypeOK

LEMMA QuietStep ==
  ASSUME Inv, CacheInv', NEW c \in Clients, NEW k \in Command, NEW w \in Wire,
         command' = [command EXCEPT ![c] = k], wire' = [wire EXCEPT ![c] = w],
         UNCHANGED chiefVars, CommandOK(c, k, w),
         \A d \in Clients : d # c => sync'[d] = sync[d],
         k.stage \notin {"source", "package"} => sync'[c].phase \in Quiet,
         command[c].stage \in Saves => k.stage \in Saves /\ k.id = command[c].id,
         k.stage = "saving" => command[c].stage = "saving"
  PROVE  Inv'
  <1>1. UNCHANGED <<accepted, saved, overlapped>>
    BY DEF chiefVars, idVars
  <1>2. /\ \A d \in Clients : CommandOK(d, command[d], wire[d])'
        /\ NoLockElse' /\ OneEach' /\ SubmissionIsOfItsTrees'
        /\ command' \in [Clients -> Command] /\ wire' \in [Clients -> Wire]
    BY <1>1, CommandStep
  <1>3. TypeOK'
    BY <1>1, <1>2 DEF Inv, TypeOK, CacheInv
  <1>4. SavedIds'
    BY <1>1, SavedStay DEF Inv
  <1>5. InTurn'
    <2>1. \A d \in Clients, f \in File : Writes(d, f)' => Writes(d, f)
      BY DEF Inv, TypeOK, Writes, FileOf
    <2> QED
      BY <1>1, <2>1 DEF Inv, InTurn, OneAtATime
  <1> QED
    BY <1>2, <1>3, <1>4, <1>5 DEF Inv

\* The same, of a command that is at a stage before its request and goes to another
\* one, or fails.
LEMMA EarlyStep ==
  ASSUME Inv, CacheInv', NEW c \in Clients, NEW k \in Command,
         command[c].stage \in Early, k.stage \in Early \cup {"failed"},
         command' = [command EXCEPT ![c] = k], UNCHANGED <<wire, chiefVars>>,
         k.sound, c \in Submitters => Gathered(k),
         \A d \in Clients : d # c => sync'[d] = sync[d],
         k.stage \notin {"source", "package"} => sync'[c].phase \in Quiet
  PROVE  Inv'
  <1>1. PICK w \in Wire : w = wire[c]
    BY DEF Inv, TypeOK
  <1>2. wire' = [wire EXCEPT ![c] = w]
    BY <1>1 DEF Inv, TypeOK
  <1>3. w.is = "none" /\ Made(c) = {}
    BY <1>1 DEF Inv, CommandOK, Asking
  <1>4. CommandOK(c, k, w)
    BY <1>3 DEF CommandOK, Asking, Early
  <1>5. command[c].stage \notin Saves /\ k.stage # "saving"
    BY DEF Early, Saves
  <1> QED
    BY <1>2, <1>4, <1>5, QuietStep

-----------------------------------------------------------------------------
(* A submission up to its requests.                                         *)

LEMMA GoesIs ==
  ASSUME Inv, NEW c \in Clients, NEW stage \in Stage, Goes(c, stage)
  PROVE  \E k \in Command :
           /\ command' = [command EXCEPT ![c] = k]
           /\ k.stage = stage /\ k.wants = command[c].wants /\ k.has = command[c].has
           /\ k.sound = command[c].sound /\ k.id = command[c].id
  <1> DEFINE k == [command[c] EXCEPT !.stage = stage]
  <1>1. command[c] \in Command
    BY DEF Inv, TypeOK
  <1>2. /\ k \in Command
        /\ k.stage = stage /\ k.wants = command[c].wants /\ k.has = command[c].has
        /\ k.sound = command[c].sound /\ k.id = command[c].id
    BY <1>1 DEF Command
  <1>3. command' = [command EXCEPT ![c] = k]
    BY <1>1 DEF Goes
  <1> QED
    BY <1>2, <1>3

\* A command that fails before its request keeps nothing.
LEMMA FailStep ==
  ASSUME Inv, CacheInv', NEW c \in Clients, command[c].stage \in Early, Goes(c, "failed"),
         UNCHANGED <<wire, chiefVars>>, \A d \in Clients : d # c => sync'[d] = sync[d],
         sync'[c].phase \in Quiet
  PROVE  Inv'
  <1>1. "failed" \in Stage
    BY DEF Stage
  <1>2. PICK k \in Command :
          /\ command' = [command EXCEPT ![c] = k]
          /\ k.stage = "failed" /\ k.sound = command[c].sound
    BY <1>1, GoesIs
  <1>3. k.sound /\ Gathered(k)
    BY <1>2 DEF Inv, CommandOK, Gathered
  <1> QED
    BY <1>2, <1>3, EarlyStep

\* A process outside the cache leaves it alone.
LEMMA CacheRests ==
  ASSUME Inv, UNCHANGED cacheVars
  PROVE  CacheInv' /\ \A d \in Clients : sync'[d] = sync[d]
  <1>1. UNCHANGED <<head, entry, holder, sync, torn>>
    BY DEF cacheVars
  <1> QED
    BY <1>1 DEF Inv, CacheInv, CacheTypeOK, Local, Explained, Partial

LEMMA BeginStep == \A c \in Submitters : Inv /\ Start(c) => Inv'
  <1> SUFFICES ASSUME NEW c \in Submitters, Inv, Start(c) PROVE Inv'
    OBVIOUS
  <1>1. /\ c \in Clients /\ command[c].stage = "idle" /\ command[c].stage \in Early
        /\ command[c] \in Command /\ sync[c].phase \in Quiet
        /\ command[c].has = {} /\ command[c].sound
    BY ClientAssumption DEF Start, Stands, Early, Inv, TypeOK, NoLockElse, CommandOK, Gathered
  <1>2. CacheInv' /\ (\A d \in Clients : sync'[d] = sync[d]) /\ UNCHANGED <<wire, chiefVars>>
    BY CacheRests DEF Start
  <1>3. CASE Goes(c, "failed")
    BY <1>1, <1>2, <1>3, FailStep
  <1>4. ASSUME NEW wants \in BOOLEAN,
               command' = [command EXCEPT ![c].stage = "checked", ![c].wants = wants]
        PROVE  Inv'
    <2> DEFINE new == [command[c] EXCEPT !.stage = "checked", !.wants = wants]
    <2>1. /\ new \in Command /\ command' = [command EXCEPT ![c] = new]
          /\ new.stage = "checked" /\ new.has = {} /\ new.sound
      BY <1>1, <1>4 DEF Command, Stage
    <2>2. PICK k \in Command :
            /\ command' = [command EXCEPT ![c] = k]
            /\ k.stage = "checked" /\ k.has = {} /\ k.sound
      BY <2>1
    <2>3. Gathered(k) /\ k.stage \in Early
      BY <2>2 DEF Gathered, Gotten, Early
    <2> QED
      BY <1>1, <1>2, <2>2, <2>3, EarlyStep
  <1> QED
    BY <1>3, <1>4 DEF Start

\* A Sync begins for the source, or for the package.
LEMMA SyncBegins == \A c \in Submitters : Inv /\ (SyncSource(c) \/ SyncPackage(c)) => Inv'
  <1> SUFFICES ASSUME NEW c \in Submitters, Inv, SyncSource(c) \/ SyncPackage(c) PROVE Inv'
    OBVIOUS
  <1>1. /\ c \in Clients /\ command[c].stage \in {"checked", "sourced"}
        /\ command[c].stage \in Early /\ command[c].sound /\ Gathered(command[c])
        /\ sync[c].phase \notin Locked /\ UNCHANGED <<wire, chiefVars>>
    BY ClientAssumption DEF SyncSource, SyncPackage, Stands, Early, Inv, NoLockElse, CommandOK,
                            Quiet, Locked
  <1>2. PICK r \in Repos : StartSync(c, r)
    BY ClientAssumption DEF SyncSource, SyncPackage
  <1>3. CacheInv' /\ \A d \in Clients : d # c => sync'[d] = sync[d]
    <2>1. CacheInv'
      BY <1>1, <1>2, StartStep DEF Inv, Phase
    <2> QED
      BY <1>2, <2>1 DEF StartSync, Becomes, Inv, CacheInv, CacheTypeOK
  <1>4. CASE SyncSource(c)
    <2>1. PICK k \in Command :
            /\ command' = [command EXCEPT ![c] = k]
            /\ k.stage = "source" /\ k.wants = command[c].wants /\ k.has = command[c].has
            /\ k.sound = command[c].sound
      BY <1>1, <1>4, GoesIs DEF SyncSource, Stage
    <2>2. Gathered(k) /\ k.stage \in Early
      BY <1>1, <1>4, <2>1 DEF SyncSource, Stands, Gathered, Gotten, Early
    <2> QED
      BY <1>1, <1>3, <2>1, <2>2, EarlyStep
  <1>5. CASE SyncPackage(c)
    <2>1. PICK k \in Command :
            /\ command' = [command EXCEPT ![c] = k]
            /\ k.stage = "package" /\ k.wants = command[c].wants /\ k.has = command[c].has
            /\ k.sound = command[c].sound
      BY <1>1, <1>5, GoesIs DEF SyncPackage, Stage
    <2>2. Gathered(k) /\ k.stage \in Early
      BY <1>1, <1>5, <2>1 DEF SyncPackage, Stands, Gathered, Gotten, Early
    <2> QED
      BY <1>1, <1>3, <2>1, <2>2, EarlyStep
  <1> QED
    BY <1>4, <1>5

\* The command takes what its Sync has copied: a sound tree.
LEMMA CopiedIs ==
  \A c \in Clients, part \in Part, stage \in Stage :
    Inv /\ ((Phase(c) = "done" /\ Copied(c, part, stage)) \/ Has(c, part, stage)) =>
      \E k \in Command :
        /\ command' = [command EXCEPT ![c] = k]
        /\ k.stage = stage /\ k.wants = command[c].wants /\ k.has = command[c].has \cup {part}
        /\ k.sound = command[c].sound
  <1> SUFFICES ASSUME NEW c \in Clients, NEW part \in Part, NEW stage \in Stage, Inv,
                      (Phase(c) = "done" /\ Copied(c, part, stage)) \/ Has(c, part, stage)
               PROVE  \E k \in Command :
                        /\ command' = [command EXCEPT ![c] = k]
                        /\ k.stage = stage /\ k.wants = command[c].wants
                        /\ k.has = command[c].has \cup {part} /\ k.sound = command[c].sound
    OBVIOUS
  <1>1. command[c] \in Command /\ command \in [Clients -> Command]
    BY DEF Inv, TypeOK
  <1> DEFINE new == [command[c] EXCEPT !.stage = stage, !.has = @ \cup {part}]
  <1>2. /\ new \in Command /\ new.stage = stage /\ new.wants = command[c].wants
        /\ new.has = command[c].has \cup {part}
        /\ new.sound = command[c].sound
    BY <1>1 DEF Command
  <1>3. CASE Has(c, part, stage)
    BY <1>2, <1>3 DEF Has
  <1>4. CASE Phase(c) = "done" /\ Copied(c, part, stage)
    <2>1. Sound(sync[c]) = TRUE
      <3>1. sync[c] \in [phase : {"done"}, repo : Repos, since : Commit, tree : Tree, excused : BOOLEAN]
        BY <1>4, SyncIs DEF Phase, Inv, CacheInv, CacheTypeOK
      <3>2. sync[c].since <= sync[c].tree.commit /\ (sync[c].tree.whole \/ sync[c].excused)
        BY <1>4 DEF Phase, Inv, CacheInv, Local
      <3>3. sync[c].since \in Nat /\ sync[c].tree.commit \in Nat
        BY <3>1 DEF Tree, Commit
      <3> QED
        BY <3>2, <3>3 DEF Sound
    <2>2. /\ command[c].sound = (command[c].sound /\ Sound(sync[c]))
          /\ command[c] = [stage |-> command[c].stage, wants |-> command[c].wants,
                           has |-> command[c].has, sound |-> command[c].sound,
                           id |-> command[c].id]
      BY <1>1, <2>1, CommandIs DEF Command
    <2>3. command' = [command EXCEPT ![c] = new]
      BY <1>1, <1>4, <2>1, <2>2 DEF Copied
    <2> QED
      BY <1>2, <2>3
  <1> QED
    BY <1>3, <1>4

\* What a Sync has ended with is taken: the next Sync begins from nothing.
LEMMA TakenStep ==
  ASSUME Inv, NEW c \in Clients, sync[c].phase \in {"done", "notfound", "failed"},
         Becomes(c, [phase |-> "idle"]), UNCHANGED <<head, entry, holder, torn>>
  PROVE  /\ CacheInv' /\ sync'[c].phase \in Quiet
         /\ \A d \in Clients : d # c => sync'[d] = sync[d]
  <1>1. CacheInv'
    BY RestStep DEF Inv, Phase, Locked
  <1>2. \A d \in Clients : sync'[d] = IF d = c THEN [phase |-> "idle"] ELSE sync[d]
    BY DEF Becomes, Inv, CacheInv, CacheTypeOK
  <1> QED
    BY <1>1, <1>2 DEF Quiet

LEMMA TakeStep == \A c \in Submitters : Inv /\ (TakeSource(c) \/ TakePackage(c)) => Inv'
  <1> SUFFICES ASSUME NEW c \in Submitters, Inv, TakeSource(c) \/ TakePackage(c) PROVE Inv'
    OBVIOUS
  <1>1. /\ c \in Clients /\ command[c].stage \in {"source", "package"}
        /\ command[c].stage \in Early /\ command[c].sound /\ Gathered(command[c])
        /\ UNCHANGED <<wire, chiefVars>>
    BY ClientAssumption DEF TakeSource, TakePackage, Synced, Stands, Early, Inv, CommandOK
  <1>2. /\ CacheInv' /\ sync'[c].phase \in Quiet
        /\ \A d \in Clients : d # c => sync'[d] = sync[d]
    BY <1>1, TakenStep DEF TakeSource, TakePackage, Synced, Phase
  <1>3. CASE Goes(c, "failed")
    BY <1>1, <1>2, <1>3, FailStep
  <1>4. ASSUME NEW part \in Part, NEW stage \in Stage,
               (Phase(c) = "done" /\ Copied(c, part, stage)) \/ Has(c, part, stage)
        PROVE  \E k \in Command :
                 /\ command' = [command EXCEPT ![c] = k]
                 /\ k.stage = stage /\ k.wants = command[c].wants
                 /\ k.has = command[c].has \cup {part} /\ k.sound = command[c].sound
    <2>1. c \in Clients
      BY ClientAssumption
    <2> QED
      BY ONLY Inv, <1>4, <2>1, CopiedIs
  <1>5. ASSUME NEW part \in Trees, NEW k \in Command, command' = [command EXCEPT ![c] = k],
               command[c].stage = "source", k.stage = "sourced", k.wants = command[c].wants,
               k.has = command[c].has \cup {part}, k.sound = command[c].sound
        PROVE  Inv'
    <2>1. Gathered(k) /\ k.stage \in Early
      BY <1>1, <1>5 DEF Gathered, Gotten, Sources, Early, Trees
    <2> QED
      BY <1>1, <1>2, <1>5, <2>1, EarlyStep
  <1>6. ASSUME NEW k \in Command, command' = [command EXCEPT ![c] = k],
               command[c].stage = "package", k.stage = "synced", k.wants = command[c].wants,
               k.has = command[c].has \cup {"package"}, k.sound = command[c].sound
        PROVE  Inv'
    <2>1. command[c].has \in IF k.wants THEN Sources ELSE {{}}
      BY <1>1, <1>6 DEF Gathered, Gotten
    <2>2. k.has \in IF k.wants THEN {{"source", "package"}, {"body", "package"}} ELSE {{"package"}}
      BY <1>6, <2>1 DEF Sources
    <2>3. Gathered(k) /\ k.stage \in Early
      BY <1>6, <2>2 DEF Gathered, Early
    <2> QED
      BY <1>1, <1>2, <1>6, <2>3, EarlyStep
  <1>7. /\ "source" \in Part /\ "body" \in Part /\ "package" \in Part
        /\ "sourced" \in Stage /\ "synced" \in Stage
        /\ "source" \in Trees /\ "body" \in Trees
    BY DEF Part, Stage, Trees
  <1>8. CASE TakeSource(c) /\ ~Goes(c, "failed")
    <2>1. PICK part \in Trees \cap Part :
            (Phase(c) = "done" /\ Copied(c, part, "sourced")) \/ Has(c, part, "sourced")
      BY <1>7, <1>8 DEF TakeSource
    <2>2. command[c].stage = "source"
      BY <1>8 DEF TakeSource, Synced, Stands
    <2> QED
      BY <1>4, <1>5, <1>7, <2>1, <2>2
  <1>9. CASE TakePackage(c) /\ ~Goes(c, "failed")
    <2>1. Phase(c) = "done" /\ Copied(c, "package", "synced")
      BY <1>9 DEF TakePackage
    <2>2. command[c].stage = "package"
      BY <1>9 DEF TakePackage, Synced, Stands
    <2> QED
      BY <1>4, <1>6, <1>7, <2>1, <2>2
  <1> QED
    BY <1>3, <1>8, <1>9

\* Describe and UploadSubmission keep what the directory has.
LEMMA StageStep ==
  ASSUME Inv, NEW c \in Submitters, NEW stage \in {"described", "uploaded"}, Goes(c, stage),
         command[c].stage = IF stage = "described" THEN "synced" ELSE "packed",
         UNCHANGED <<cacheVars, wire, chiefVars>>
  PROVE  Inv'
  <1>1. /\ c \in Clients /\ command[c].stage \in Early /\ Gathered(command[c])
        /\ command[c].sound /\ sync[c].phase \in Quiet /\ stage \in Stage
    BY ClientAssumption DEF Early, Inv, CommandOK, NoLockElse, Stage
  <1>2. CacheInv' /\ \A d \in Clients : sync'[d] = sync[d]
    BY CacheRests
  <1>3. PICK k \in Command :
          /\ command' = [command EXCEPT ![c] = k]
          /\ k.stage = stage /\ k.wants = command[c].wants /\ k.has = command[c].has
          /\ k.sound = command[c].sound
    BY <1>1, GoesIs
  <1>4. Gathered(k) /\ k.stage \in Early
    BY <1>1, <1>3 DEF Gathered, Early, Complete
  <1> QED
    BY <1>1, <1>2, <1>3, <1>4, EarlyStep

LEMMA DescribeStep == \A c \in Submitters : Inv /\ (Describe(c) \/ UploadSubmission(c)) => Inv'
  <1> SUFFICES ASSUME NEW c \in Submitters, Inv, Describe(c) \/ UploadSubmission(c) PROVE Inv'
    OBVIOUS
  <1>1. CASE Goes(c, "failed")
    <2>1. /\ c \in Clients /\ command[c].stage \in Early /\ UNCHANGED <<cacheVars, wire, chiefVars>>
          /\ sync[c].phase \in Quiet
      BY ClientAssumption DEF Describe, UploadSubmission, Stands, Early, Inv, NoLockElse
    <2>2. CacheInv' /\ \A d \in Clients : sync'[d] = sync[d]
      BY <2>1, CacheRests
    <2> QED
      BY <1>1, <2>1, <2>2, FailStep
  <1>2. CASE Describe(c) /\ Goes(c, "described")
    BY <1>2, StageStep DEF Describe, Stands
  <1>3. CASE UploadSubmission(c) /\ Goes(c, "uploaded")
    BY <1>3, StageStep DEF UploadSubmission, Stands
  <1> QED
    BY <1>1, <1>2, <1>3 DEF Describe, UploadSubmission

\* The source package takes the place of the trees that it is built from.
LEMMA PackStep == \A c \in Submitters : Inv /\ Pack(c) => Inv'
  <1> SUFFICES ASSUME NEW c \in Submitters, Inv, Pack(c) PROVE Inv'
    OBVIOUS
  <1>1. /\ c \in Clients /\ command[c].stage = "described" /\ command[c].stage \in Early
        /\ Gathered(command[c]) /\ command[c].sound /\ sync[c].phase \in Quiet
        /\ command[c] \in Command /\ command \in [Clients -> Command]
        /\ UNCHANGED <<cacheVars, wire, chiefVars>>
    BY ClientAssumption DEF Pack, Stands, Early, Inv, TypeOK, CommandOK, NoLockElse
  <1>2. CacheInv' /\ \A d \in Clients : sync'[d] = sync[d]
    BY <1>1, CacheRests
  <1>3. CASE Goes(c, "failed")
    BY <1>1, <1>2, <1>3, FailStep
  <1> DEFINE packed(has) == (has \ {"source", "package"}) \cup {"dsc"} \cup
                            (IF "source" \in has THEN {"orig"} ELSE {})
             new == [command[c] EXCEPT !.stage = "packed", !.has = packed(@)]
  <1>4. CASE command' = [command EXCEPT ![c].stage = "packed", ![c].has = packed(@)]
    <2>1. packed(command[c].has) \in SUBSET Part /\ "packed" \in Stage
      BY <1>1 DEF Command, Part, Stage
    <2>2. /\ new \in Command /\ new.stage = "packed" /\ new.wants = command[c].wants
          /\ new.has = packed(command[c].has) /\ new.sound = command[c].sound
      <3> HIDE DEF packed
      <3> QED
        BY <1>1, <2>1 DEF Command
    <2>3. command' = [command EXCEPT ![c] = new]
      BY <1>1, <1>4
    <2>4. PICK k \in Command :
            /\ command' = [command EXCEPT ![c] = k] /\ k.stage = "packed"
            /\ k.wants = command[c].wants /\ k.has = packed(command[c].has)
            /\ k.sound = command[c].sound
      <3> HIDE DEF new, packed
      <3> QED
        BY <2>2, <2>3
    <2>5. Complete(k)
      <3>1. command[c].has \in IF k.wants THEN {{"source", "package"}, {"body", "package"}}
                                            ELSE {{"package"}}
        BY <1>1, <2>4 DEF Gathered
      <3>2. /\ packed({"source", "package"}) = {"dsc", "orig"}
            /\ packed({"body", "package"}) = {"dsc", "body"} /\ packed({"package"}) = {"dsc"}
        OBVIOUS
      <3> QED
        <4> HIDE DEF packed
        <4> QED
          BY <2>4, <3>1, <3>2 DEF Complete
    <2>6. Gathered(k) /\ k.stage \in Early
      BY <2>4, <2>5 DEF Gathered, Early
    <2> QED
      BY <1>1, <1>2, <2>4, <2>6, EarlyStep
  <1> QED
    BY <1>1, <1>3, <1>4 DEF Pack

-----------------------------------------------------------------------------
(* Requests and answers.                                                    *)

LEMMA WireIs ==
  /\ [is |-> "request"] \in Wire /\ [is |-> "refusal"] \in Wire /\ Silence \in Wire
  /\ Silence.is = "none"
  /\ \A i \in Pipeline : [is |-> "answer", id |-> i] \in Wire
  /\ \A w \in Wire : w.is = "answer" => w.id \in Pipeline
  BY DEF Wire, Silence

\* A submission sends its request when its source package is uploaded.
LEMMA SubmitStep == \A c \in Submitters : Inv /\ SubmitPackage(c) => Inv'
  <1> SUFFICES ASSUME NEW c \in Submitters, Inv, SubmitPackage(c) PROVE Inv'
    OBVIOUS
  <1>1. /\ c \in Clients /\ command[c].stage = "uploaded" /\ sync[c].phase \in Quiet
        /\ "asked" \in Stage /\ Goes(c, "asked") /\ Sent(c) /\ UNCHANGED <<cacheVars, chiefVars>>
    BY ClientAssumption DEF SubmitPackage, Stands, Inv, NoLockElse, Stage
  <1>2. /\ command[c].sound /\ Complete(command[c]) /\ Made(c) = {}
    BY <1>1 DEF Inv, CommandOK, Gathered, Asking, Early
  <1>3. CacheInv' /\ \A d \in Clients : sync'[d] = sync[d]
    BY <1>1, CacheRests
  <1>4. PICK k \in Command :
          /\ command' = [command EXCEPT ![c] = k]
          /\ k.stage = "asked" /\ k.wants = command[c].wants /\ k.has = command[c].has
          /\ k.sound = command[c].sound
    BY <1>1, GoesIs
  <1>5. PICK w \in Wire : wire' = [wire EXCEPT ![c] = w] /\ w.is = "request"
    BY <1>1, WireIs DEF Sent
  <1>6. CommandOK(c, k, w)
    BY <1>2, <1>4, <1>5 DEF CommandOK, Gathered, Complete, Asking, Early
  <1>7. command[c].stage \notin Saves /\ k.stage # "saving"
    BY <1>1, <1>4 DEF Saves
  <1> QED
    BY <1>1, <1>3, <1>4, <1>5, <1>6, <1>7, QuietStep

LEMMA RetryStep == \A c \in Retriers : Inv /\ RetryPipeline(c) => Inv'
  <1> SUFFICES ASSUME NEW c \in Retriers, Inv, RetryPipeline(c) PROVE Inv'
    OBVIOUS
  <1>1. /\ c \in Clients /\ c \notin Submitters /\ command[c].stage = "idle"
        /\ command[c].stage \in Early /\ sync[c].phase \in Quiet /\ command[c].sound
        /\ command[c] \in Command /\ Made(c) = {} /\ UNCHANGED <<cacheVars, chiefVars>>
    BY ClientAssumption
    DEF RetryPipeline, Stands, Early, Inv, TypeOK, NoLockElse, CommandOK, Asking
  <1>2. CacheInv' /\ \A d \in Clients : sync'[d] = sync[d]
    BY <1>1, CacheRests
  <1>3. CASE Goes(c, "failed") /\ UNCHANGED wire
    BY <1>1, <1>2, <1>3, FailStep
  <1>4. ASSUME NEW i \in DOMAIN accepted \cup Default("retry"), Sent(c),
               command' = [command EXCEPT ![c].stage = "asked", ![c].id = i]
        PROVE  Inv'
    <2> DEFINE new == [command[c] EXCEPT !.stage = "asked", !.id = i]
    <2>1. i \in Id
      <3>1. \A n \in DOMAIN accepted : n \in Pipeline
        BY ClientAssumption DEF Inv, TypeOK, Pipeline
      <3>2. Default("retry") \subseteq Pipeline \cup {0}
        BY DEF Default, Inv, TypeOK, File
      <3> QED
        BY <3>1, <3>2 DEF Id
    <2>2. /\ new \in Command /\ command' = [command EXCEPT ![c] = new]
          /\ new.stage = "asked" /\ new.sound
      BY <1>1, <1>4, <2>1 DEF Command, Stage
    <2>3. PICK k \in Command : /\ command' = [command EXCEPT ![c] = k]
                               /\ k.stage = "asked" /\ k.sound
      BY <2>2
    <2>4. PICK w \in Wire : wire' = [wire EXCEPT ![c] = w] /\ w.is = "request"
      BY <1>4, WireIs DEF Sent
    <2>5. CommandOK(c, k, w)
      BY <1>1, <2>3, <2>4 DEF CommandOK, Asking, Early
    <2>6. command[c].stage \notin Saves /\ k.stage # "saving"
      BY <1>1, <2>3 DEF Saves
    <2> QED
      BY <1>1, <1>2, <2>3, <2>4, <2>5, <2>6, QuietStep
  <1> QED
    BY <1>3, <1>4 DEF RetryPipeline

LEMMA ReceiveStep == \A c \in Clients : Inv /\ Receive(c) => Inv'
  <1> SUFFICES ASSUME NEW c \in Clients, Inv, Receive(c) PROVE Inv'
    OBVIOUS
  <1>1. /\ command[c].stage = "asked" /\ sync[c].phase \in Quiet /\ command[c].sound
        /\ command[c] \in Command /\ wire[c] \in Wire /\ UNCHANGED <<cacheVars, chiefVars>>
        /\ wire' = [wire EXCEPT ![c] = Silence] /\ "failed" \in Stage /\ "answered" \in Stage
        /\ command[c].stage \notin Saves
    BY DEF Receive, Stands, Inv, TypeOK, NoLockElse, CommandOK, Stage, Saves
  <1>2. CacheInv' /\ \A d \in Clients : sync'[d] = sync[d]
    BY <1>1, CacheRests
  <1>3. PICK w \in Wire : wire' = [wire EXCEPT ![c] = w] /\ w.is = "none"
    BY <1>1, WireIs
  <1>4. CASE wire[c].is = "refusal" /\ Goes(c, "failed")
    <2>1. PICK k \in Command :
            /\ command' = [command EXCEPT ![c] = k]
            /\ k.stage = "failed" /\ k.sound = command[c].sound
      BY <1>1, <1>4, GoesIs
    <2>2. CommandOK(c, k, w)
      BY <1>1, <1>3, <2>1 DEF CommandOK, Gathered, Asking, Early
    <2> QED
      BY <1>1, <1>2, <1>3, <2>1, <2>2, QuietStep
  <1>5. CASE /\ wire[c].is = "answer"
             /\ command' = [command EXCEPT ![c].stage = "answered", ![c].id = wire[c].id]
    <2> DEFINE new == [command[c] EXCEPT !.stage = "answered", !.id = wire[c].id]
    <2>1. wire[c].id \in Id /\ wire[c].id \in Made(c)
      BY <1>1, <1>5, WireIs DEF Id, Inv, CommandOK, Asking
    <2>2. /\ new \in Command /\ command' = [command EXCEPT ![c] = new]
          /\ new.stage = "answered" /\ new.sound /\ new.id \in Made(c)
      BY <1>1, <1>5, <2>1 DEF Command
    <2>3. PICK k \in Command : /\ command' = [command EXCEPT ![c] = k]
                               /\ k.stage = "answered" /\ k.sound /\ k.id \in Made(c)
      BY <2>2
    <2>4. CommandOK(c, k, w)
      BY <1>3, <2>3 DEF CommandOK, Gathered, Asking, Early
    <2> QED
      BY <1>1, <1>2, <1>3, <2>3, <2>4, QuietStep
  <1> QED
    BY <1>4, <1>5 DEF Receive

\* A command that ends early leaves a request under way at most.
LEMMA AbandonStep ==
  ASSUME Inv, CacheInv', NEW c \in Clients, NEW stage \in {"failed", "killed"},
         command[c].stage \in Early \cup {"asked", "answered", "saving"}, Goes(c, stage),
         command[c].stage = "saving" => stage = "killed",
         wire' = [wire EXCEPT ![c] = Abandoned(c)], UNCHANGED chiefVars,
         \A d \in Clients : d # c => sync'[d] = sync[d], sync'[c].phase \in Quiet
  PROVE  Inv'
  <1>1. /\ stage \in Stage /\ command[c].sound /\ wire[c] \in Wire
        /\ CommandOK(c, command[c], wire[c])
    BY DEF Stage, Inv, TypeOK, CommandOK
  <1>2. PICK k \in Command :
          /\ command' = [command EXCEPT ![c] = k]
          /\ k.stage = stage /\ k.wants = command[c].wants /\ k.has = command[c].has
          /\ k.sound = command[c].sound /\ k.id = command[c].id
    BY <1>1, GoesIs
  <1>3. PICK w \in Wire : /\ wire' = [wire EXCEPT ![c] = w]
                          /\ w.is = "none" \/ (w = wire[c] /\ w.is = "request")
    BY <1>1, WireIs DEF Abandoned
  <1>4. CommandOK(c, k, w)
    BY <1>1, <1>2, <1>3 DEF CommandOK, Gathered, Complete, Asking, Early
  <1>5. /\ command[c].stage \in Saves => k.stage \in Saves
        /\ k.stage # "saving"
    BY <1>2 DEF Saves, Early
  <1> QED
    BY <1>2, <1>3, <1>4, <1>5, QuietStep

LEMMA GiveUpCommand == \A c \in Clients : Inv /\ GiveUp(c) => Inv'
  <1> SUFFICES ASSUME NEW c \in Clients, Inv, GiveUp(c) PROVE Inv'
    OBVIOUS
  <1>1. command[c].stage = "asked" /\ sync[c].phase \in Quiet /\ UNCHANGED <<cacheVars, chiefVars>>
    BY DEF GiveUp, Stands, Inv, NoLockElse
  <1>2. CacheInv' /\ \A d \in Clients : sync'[d] = sync[d]
    BY <1>1, CacheRests
  <1> QED
    BY <1>1, <1>2, AbandonStep DEF GiveUp

LEMMA KilledStep == \A c \in Clients : Inv /\ Killed(c) => Inv'
  <1> SUFFICES ASSUME NEW c \in Clients, Inv, Killed(c) PROVE Inv'
    OBVIOUS
  <1>1. /\ command[c].stage \in Early \cup {"asked", "answered", "saving"} /\ Goes(c, "killed")
        /\ wire' = [wire EXCEPT ![c] = Abandoned(c)] /\ UNCHANGED chiefVars
    BY DEF Killed, Over, Early, Inv, TypeOK, Command, Stage
  <1>2. CacheInv'
    BY DieStep DEF Killed, Inv
  <1>3. \A d \in Clients : sync'[d] = IF d = c THEN [phase |-> "failed"] ELSE sync[d]
    BY DEF Killed, SyncDies, Inv, CacheInv, CacheTypeOK
  <1>4. sync'[c].phase \in Quiet /\ \A d \in Clients : d # c => sync'[d] = sync[d]
    BY <1>3 DEF Quiet
  <1> QED
    BY <1>1, <1>2, <1>4, AbandonStep

\* The chief accepts one pipeline more, of the request of c.
LEMMA ServeStep == \A c \in Clients : Inv /\ Serve(c) => Inv'
  <1> SUFFICES ASSUME NEW c \in Clients, Inv, Serve(c) PROVE Inv'
    OBVIOUS
  <1> DEFINE new == [by |-> c, has |-> command[c].has, wants |-> command[c].wants,
                     sound |-> command[c].sound]
             n == Len(accepted) + 1
  <1>1. /\ accepted \in Seq(Accepted) /\ command[c] \in Command /\ wire[c].is = "request"
        /\ accepted' = Append(accepted, new) /\ Len(accepted) + 1 <= MaxPipelines
        /\ UNCHANGED <<cacheVars, command, saved, overlapped>>
        /\ wire \in [Clients -> Wire] /\ Made(c) = {} /\ command[c].sound
        /\ c \in Submitters => Complete(command[c])
    BY DEF Serve, Number, idVars, Inv, TypeOK, CommandOK, Asking
  <1>2. CacheInv' /\ \A d \in Clients : sync'[d] = sync[d]
    BY <1>1, CacheRests
  <1>3. new \in Accepted /\ Len(accepted) \in Nat
    BY <1>1 DEF Accepted, Command
  <1>4. /\ accepted' \in Seq(Accepted) /\ Len(accepted') = n /\ n \in Nat
        /\ DOMAIN accepted = 1 .. Len(accepted) /\ DOMAIN accepted' = 1 .. n
        /\ accepted'[n] = new /\ \A i \in DOMAIN accepted : accepted'[i] = accepted[i]
    <2> HIDE DEF new
    <2> QED
      BY <1>1, <1>3
  <1>5. /\ DOMAIN accepted' = DOMAIN accepted \cup {n} /\ n \notin DOMAIN accepted
    BY <1>3, <1>4
  <1>6. /\ Made(c)' = {n}
        /\ \A d \in Clients \ {c} : Made(d)' = Made(d)
    <2>1. \A i \in DOMAIN accepted : accepted[i].by # c
      BY <1>1 DEF Made
    <2> QED
      BY <1>4, <1>5, <2>1 DEF Made
  <1>7. n \in Pipeline
    BY <1>1, <1>3, ClientAssumption DEF Pipeline
  <1>8. PICK w \in Wire :
          /\ wire' = [wire EXCEPT ![c] = w]
          /\ Stands(c, "asked") => w.is = "answer" /\ w.id = n
          /\ ~Stands(c, "asked") => w.is = "none"
    <2>1. [is |-> "answer", id |-> n] \in Wire /\ Silence \in Wire /\ Silence.is = "none"
      BY <1>7, WireIs
    <2> QED
      BY <2>1 DEF Serve, Number
  <1>9. TypeOK'
    BY <1>1, <1>2, <1>4, <1>8 DEF Inv, TypeOK, CacheInv
  <1>10. ASSUME NEW d \in Clients PROVE CommandOK(d, command[d], wire[d])'
    <2>1. CommandOK(d, command[d], wire[d]) /\ command'[d] = command[d]
      BY <1>1 DEF Inv
    <2>2. CASE d = c
      <3>1. wire'[d] = w /\ Made(d)' = {n}
        BY <1>1, <1>6, <1>8, <2>2
      <3>2. command[c].stage \in {"asked", "failed", "killed"}
        BY <1>1, <2>1, <2>2 DEF CommandOK, Asking, Early, Command, Stage
      <3>3. Asking(d, command[d], wire[d])'
        BY <1>8, <2>1, <2>2, <3>1, <3>2 DEF Asking, Early, Stands
      <3>4. (d \in Submitters => Gathered(command[d]) /\ (wire[d].is = "request" => Complete(command[d])))'
        BY <1>8, <2>1, <3>1 DEF CommandOK, Gathered, Gotten, Complete
      <3> QED
        BY <2>1, <3>3, <3>4 DEF CommandOK
    <2>3. CASE d # c
      <3>1. wire'[d] = wire[d] /\ Made(d)' = Made(d)
        BY <1>1, <1>6, <1>8, <2>3
      <3> QED
        BY <2>1, <3>1 DEF CommandOK, Asking, Gathered, Gotten, Complete
    <2> QED
      BY <2>2, <2>3
  <1>11. OneEach'
    <2>1. \A i \in DOMAIN accepted : accepted[i].by # c
      BY <1>1 DEF Made
    <2> QED
      BY <1>4, <1>5, <2>1 DEF Inv, OneEach
  <1>12. SubmissionIsOfItsTrees'
    <2>1. ASSUME NEW i \in DOMAIN accepted', accepted'[i].by \in Submitters
          PROVE  accepted'[i].sound /\ Complete(accepted'[i])
      <3>1. CASE i \in DOMAIN accepted
        BY <1>4, <2>1, <3>1 DEF Inv, SubmissionIsOfItsTrees, Complete
      <3>2. CASE i = n
        BY <1>1, <1>4, <2>1, <3>2 DEF Complete
      <3> QED
        BY <1>5, <2>1, <3>1, <3>2
    <2> QED
      BY <2>1 DEF SubmissionIsOfItsTrees, Complete
  <1>13. SavedIds' /\ InTurn'
    BY <1>1, <1>4, <1>5 DEF Inv, SavedIds, SavedBy, InTurn, OneAtATime, Writes, FileOf
  <1>14. NoLockElse'
    BY <1>1, <1>2 DEF Inv, NoLockElse
  <1> QED
    BY <1>2, <1>9, <1>10, <1>11, <1>12, <1>13, <1>14 DEF Inv

LEMMA RefuseStep == \A c \in Clients : Inv /\ Refuse(c) => Inv'
  <1> SUFFICES ASSUME NEW c \in Clients, Inv, Refuse(c) PROVE Inv'
    OBVIOUS
  <1>1. /\ UNCHANGED <<cacheVars, command, chiefVars>> /\ command[c] \in Command
        /\ command \in [Clients -> Command] /\ wire[c].is = "request"
        /\ CommandOK(c, command[c], wire[c])
    BY DEF Refuse, Inv, TypeOK
  <1>2. CacheInv' /\ \A d \in Clients : sync'[d] = sync[d]
    BY <1>1, CacheRests
  <1>3. PICK k \in Command : k = command[c]
    BY <1>1
  <1>4. command' = [command EXCEPT ![c] = k]
    BY <1>1, <1>3
  <1>5. PICK w \in Wire :
          /\ wire' = [wire EXCEPT ![c] = w]
          /\ w.is = IF k.stage = "asked" THEN "refusal" ELSE "none"
    BY <1>3, WireIs DEF Refuse, Stands
  <1>6. k.stage \in {"asked", "failed", "killed"}
    BY <1>1, <1>3 DEF CommandOK, Asking, Early, Command, Stage
  <1>7. CommandOK(c, k, w)
    BY <1>1, <1>3, <1>5, <1>6 DEF CommandOK, Asking, Early
  <1>8. k.stage \notin {"source", "package"} => sync'[c].phase \in Quiet
    BY <1>2, <1>3 DEF Inv, NoLockElse
  <1> QED
    BY <1>1, <1>2, <1>3, <1>4, <1>5, <1>7, <1>8, QuietStep

\* A command saves its id: that of the pipeline of its own making.
LEMMA SaveStep ==
  ASSUME Inv, NEW c \in Clients, NEW stage \in Saves, command[c].stage \in {"answered", "saving"},
         Goes(c, stage), UNCHANGED <<cacheVars, wire, accepted>>,
         saved' \in [File -> SUBSET Pipeline],
         \A f \in File : f # FileOf(c) => saved'[f] = saved[f],
         saved'[FileOf(c)] \subseteq saved[FileOf(c)] \cup {command[c].id},
         overlapped' \subseteq File, InTurn'
  PROVE  Inv'
  <1>1. /\ stage \in Stage /\ command[c].id \in Id /\ stage \notin {"source", "package"}
        /\ CommandOK(c, command[c], wire[c]) /\ sync[c].phase \in Quiet
    BY DEF Saves, Stage, Inv, TypeOK, Command, NoLockElse
  <1>2. CacheInv' /\ \A d \in Clients : sync'[d] = sync[d]
    BY CacheRests
  <1>3. PICK k \in Command :
          /\ command' = [command EXCEPT ![c] = k]
          /\ k.stage = stage /\ k.sound = command[c].sound /\ k.id = command[c].id
    BY <1>1, GoesIs
  <1>4. PICK w \in Wire : w = wire[c] /\ wire' = [wire EXCEPT ![c] = w]
    BY DEF Inv, TypeOK
  <1>5. CommandOK(c, k, w) /\ command[c].id \in Made(c)
    BY <1>1, <1>3, <1>4 DEF CommandOK, Gathered, Asking, Early, Saves
  <1>6. /\ \A d \in Clients : CommandOK(d, command[d], wire[d])'
        /\ NoLockElse' /\ OneEach' /\ SubmissionIsOfItsTrees'
        /\ command' \in [Clients -> Command] /\ wire' \in [Clients -> Wire]
    BY <1>1, <1>2, <1>3, <1>4, <1>5, CommandStep
  <1>7. SavedIds'
    <2> SUFFICES ASSUME NEW f \in File, NEW i \in saved'[f]
                 PROVE  (i \in DOMAIN accepted /\ SavedBy(accepted[i].by, i, f))'
      BY DEF SavedIds
    <2>1. CASE i = command[c].id /\ f = FileOf(c)
      BY <1>3, <1>5, <2>1 DEF Made, SavedBy, FileOf, Inv, TypeOK
    <2>2. CASE ~(i = command[c].id /\ f = FileOf(c))
      <3>1. i \in saved[f]
        BY <2>2
      <3>2. i \in DOMAIN accepted /\ SavedBy(accepted[i].by, i, f) /\ accepted[i].by \in Clients
        BY <3>1, MakerIs DEF Inv, SavedIds
      <3> QED
        BY <1>3, <3>2 DEF SavedBy, FileOf, Inv, TypeOK
    <2> QED
      BY <2>1, <2>2
  <1>8. TypeOK'
    BY <1>2, <1>6 DEF Inv, TypeOK, CacheInv
  <1> QED
    BY <1>2, <1>6, <1>7, <1>8 DEF Inv

\* Who writes a file, before and after a step of c alone.
LEMMA WritersAre ==
  ASSUME Inv, NEW c \in Clients, NEW stage \in Stage, Goes(c, stage)
  PROVE  \A d \in Clients, f \in File :
           Writes(d, f)' <=> IF d = c THEN stage = "saving" /\ FileOf(c) = f ELSE Writes(d, f)
  <1>1. PICK k \in Command : command' = [command EXCEPT ![c] = k] /\ k.stage = stage
    BY GoesIs
  <1> QED
    BY <1>1 DEF Writes, FileOf, Inv, TypeOK

LEMMA FilesAre ==
  /\ \A c \in Clients : FileOf(c) \in File
  /\ {"saving", "ended"} \subseteq Stage \cap Saves
  BY DEF FileOf, File, Stage, Saves

\* WriteFile empties the file, and marks it when another process is at it.
LEMMA OpenIDStep == \A c \in Clients : Inv /\ OpenID(c) => Inv'
  <1> SUFFICES ASSUME NEW c \in Clients, Inv, OpenID(c) PROVE Inv'
    OBVIOUS
  <1> DEFINE F == FileOf(c)
  <1>1. /\ command[c].stage = "answered" /\ UNCHANGED <<cacheVars, wire, accepted>>
        /\ saved \in [File -> SUBSET Pipeline] /\ overlapped \subseteq File /\ F \in File
    BY FilesAre DEF OpenID, OpenIDWith, Stands, Inv, TypeOK
  <1>2. CASE Goes(c, "ended") /\ UNCHANGED idVars
    <2>1. UNCHANGED <<saved, overlapped>>
      BY <1>2 DEF idVars
    <2>2. InTurn'
      BY <1>2, <2>1, FilesAre, WritersAre DEF Inv, InTurn, OneAtATime
    <2> QED
      BY <1>1, <1>2, <2>1, <2>2, FilesAre, SaveStep
  <1>3. CASE /\ Goes(c, "saving") /\ Holds(c, {})
             /\ overlapped' = overlapped \cup
                  {FileOf(d) : d \in {e \in Clients : Stands(e, "saving") /\ FileOf(e) = FileOf(c)}}
    <2>1. /\ saved' \in [File -> SUBSET Pipeline] /\ saved'[F] = {}
          /\ \A f \in File : f # F => saved'[f] = saved[f]
      BY <1>1, <1>3 DEF Holds
    <2>2. overlapped' \subseteq File
      BY <1>1, <1>3, FilesAre
    <2>3. ASSUME NEW f \in File, f \notin overlapped' PROVE OneAtATime(f)'
      <3>1. f \notin overlapped /\ OneAtATime(f)
        BY <1>3, <2>3 DEF Inv, InTurn
      <3>2. CASE f # F
        BY <1>3, <2>1, <3>1, <3>2, FilesAre, WritersAre DEF OneAtATime
      <3>3. CASE f = F
        <4>1. \A d \in Clients : ~Writes(d, f)
          BY <1>3, <2>3, <3>3 DEF Writes, Stands
        <4> QED
          BY <1>3, <2>1, <3>3, <4>1, FilesAre, WritersAre DEF OneAtATime
      <3> QED
        BY <3>2, <3>3
    <2>4. InTurn'
      BY <2>3 DEF InTurn
    <2> QED
      BY <1>1, <1>3, <2>1, <2>2, <2>4, FilesAre, SaveStep
  <1> QED
    BY <1>2, <1>3 DEF OpenID, OpenIDWith

\* Then it writes the id.
LEMMA WriteIDStep == \A c \in Clients : Inv /\ WriteID(c) => Inv'
  <1> SUFFICES ASSUME NEW c \in Clients, Inv, WriteID(c) PROVE Inv'
    OBVIOUS
  <1> DEFINE F == FileOf(c)
             id == command[c].id
  <1>1. /\ command[c].stage = "saving" /\ Goes(c, "ended") /\ overlapped' = overlapped
        /\ UNCHANGED <<cacheVars, wire, accepted>> /\ Writes(c, F)
        /\ saved \in [File -> SUBSET Pipeline] /\ overlapped \subseteq File /\ F \in File
    BY FilesAre DEF WriteID, Stands, Writes, Inv, TypeOK
  <1>2. id \in Pipeline
    <2>1. id \in Made(c)
      BY <1>1 DEF Inv, CommandOK, Asking
    <2> QED
      BY <2>1, ClientAssumption DEF Made, Inv, TypeOK, Pipeline
  <1>3. /\ saved' \in [File -> SUBSET Pipeline]
        /\ \A f \in File : f # F => saved'[f] = saved[f]
        /\ saved'[F] \subseteq saved[F] \cup {id}
    BY <1>1, <1>2 DEF WriteID, Holds
  <1>4. ASSUME NEW f \in File, f \notin overlapped' PROVE OneAtATime(f)'
    <2>1. f \notin overlapped /\ OneAtATime(f)
      BY <1>1, <1>4 DEF Inv, InTurn
    <2>2. CASE f # F
      BY <1>1, <1>3, <2>1, <2>2, FilesAre, WritersAre DEF OneAtATime
    <2>3. CASE f = F
      <3>1. \A d \in Clients : Writes(d, f) => d = c
        BY <1>1, <2>1, <2>3 DEF OneAtATime
      <3>2. saved'[f] \subseteq {id}
        BY <1>1, <1>3, <2>1, <2>3 DEF OneAtATime
      <3>3. \A d \in Clients : ~Writes(d, f)'
        BY <1>1, <3>1, FilesAre, WritersAre
      <3> QED
        BY <3>2, <3>3 DEF OneAtATime
    <2> QED
      BY <2>2, <2>3
  <1>5. InTurn'
    BY <1>4 DEF InTurn
  <1> QED
    BY <1>1, <1>3, <1>5, FilesAre, SaveStep

\* Only the cache moves.
LEMMA CacheStep ==
  ASSUME Inv, CacheInv', NoLockElse', UNCHANGED <<command, wire, chiefVars>>
  PROVE  Inv'
  <1>1. UNCHANGED <<command, wire, accepted, saved, overlapped>>
    BY DEF chiefVars, idVars
  <1> QED
    BY <1>1 DEF Inv, TypeOK, CacheInv, CommandOK, Asking, Made, Gathered, Gotten, Complete, OneEach,
                SubmissionIsOfItsTrees, SavedIds, SavedBy, InTurn, OneAtATime, Writes, FileOf

LEMMA SynchroniseStep == \A c \in Clients : Inv /\ Synchronise(c) => Inv'
  <1> SUFFICES ASSUME NEW c \in Clients, Inv, Synchronise(c) PROVE Inv'
    OBVIOUS
  <1>1. SyncStep(c) /\ CacheInv /\ UNCHANGED <<command, wire, chiefVars>>
    BY DEF Synchronise, Inv
  <1>2. CacheInv'
    BY <1>1, AskStep, LockStep, OpenStep, PullStep, ResetStep, CloneStep, CheckoutStep, CopyStep
    DEF SyncStep
  <1>3. sync[c].phase \notin Quiet
    BY <1>1 DEF SyncStep, GetRemoteHash, LockCache, OpenCache, PullCache, ResetTree, CloneCache,
                CheckoutClone, CopyCache, Phase, Quiet
  <1>4. command[c].stage \in {"source", "package"}
    BY <1>3 DEF Inv, NoLockElse
  <1>5. \A d \in Clients : d # c => sync'[d] = sync[d]
    <2>1. ASSUME NEW s, Becomes(c, s) PROVE \A d \in Clients : d # c => sync'[d] = sync[d]
      BY <1>1, <2>1 DEF Becomes, CacheInv, CacheTypeOK
    <2>2. CASE Unavailable(c)
      BY <2>1, <2>2 DEF Unavailable
    <2>3. CASE GetRemoteHash(c) \/ LockCache(c)
      BY <2>1, <2>3 DEF GetRemoteHash, LockCache
    <2>4. CASE OpenCache(c)
      BY <2>1, <2>2, <2>4 DEF OpenCache, Moves
    <2>5. CASE PullCache(c)
      BY <2>1, <2>2, <2>5 DEF PullCache, Moves
    <2>6. CASE ResetTree(c)
      BY <2>1, <2>2, <2>6 DEF ResetTree, Moves
    <2>7. CASE CloneCache(c)
      BY <2>1, <2>7 DEF CloneCache, CloneFails, Moves
    <2>8. CASE CheckoutClone(c)
      BY <2>1, <2>8 DEF CheckoutClone, CloneFails
    <2>9. CASE CopyCache(c)
      BY <2>1, <2>9 DEF CopyCache
    <2> QED
      BY <1>1, <2>3, <2>4, <2>5, <2>6, <2>7, <2>8, <2>9 DEF SyncStep
  <1>6. NoLockElse'
    BY <1>1, <1>4, <1>5 DEF Inv, NoLockElse
  <1> QED
    BY <1>1, <1>2, <1>6, CacheStep

LEMMA PushedStep ==
  ASSUME Inv, NEW r \in Repos, Push(r), UNCHANGED <<command, wire, chiefVars>>
  PROVE  Inv'
  <1>1. CacheInv'
    BY PushStep DEF Inv
  <1>2. NoLockElse'
    BY DEF Push, Inv, NoLockElse
  <1> QED
    BY <1>1, <1>2, CacheStep

\* The lock's file cannot be made or locked.
LEMMA LockFailsStep ==
  ASSUME Inv, NEW c \in Clients, LockFails(c), UNCHANGED <<command, wire, chiefVars>>
  PROVE  Inv'
  <1>1. /\ Phase(c) \notin Locked /\ Becomes(c, [phase |-> "failed"])
        /\ UNCHANGED <<head, entry, holder, torn>>
    BY DEF LockFails, Locked
  <1>2. CacheInv'
    BY <1>1, RestStep DEF Inv
  <1>3. \A d \in Clients : sync'[d] = IF d = c THEN [phase |-> "failed"] ELSE sync[d]
    BY <1>1 DEF Becomes, Inv, CacheInv, CacheTypeOK
  <1>4. NoLockElse'
    BY <1>3 DEF Inv, NoLockElse, Quiet
  <1> QED
    BY <1>2, <1>4, CacheStep

-----------------------------------------------------------------------------
(* The steps of the cache as steps of AtomicSync.                           *)

\* Where a process is in AtomicSync.
R(c) == ReadOf(sync[c])
\* What a step of c on its entry leaves alone.
Alone(c) == head' = head /\ \A d \in Clients : d # c => R(d)' = R(d)
Stutters == UNCHANGED <<head, torn>> /\ \A d \in Clients : R(d)' = R(d)

LEMMA ReadIs ==
  ASSUME NEW s
  PROVE  /\ s.phase \in HasSeen =>
              ReadOf(s) = [is |-> "seen", repo |-> s.repo, commit |-> Seen(s)]
         /\ s.phase \in {"asking", "cloning"} => ReadOf(s) = [is |-> "begun", repo |-> s.repo]
         /\ s.phase = "done" => ReadOf(s) = [is |-> "got", tree |-> s.tree]
         /\ s.phase \in {"idle", "failed", "notfound"} => ReadOf(s) = [is |-> "none"]
  BY DEF ReadOf, HasSeen

\* A step of a process that writes no entry but the one it has locked is not seen by others.
LEMMA LeavesOthers ==
  ASSUME CacheInv, NEW c \in Clients,
         \A d \in Clients : d # c => sync'[d] = sync[d],
         \A q \in Repos : holder[q] # c => entry'[q] = entry[q]
  PROVE  \A d \in Clients : d # c => R(d)' = R(d)
  <1> SUFFICES ASSUME NEW d \in Clients, d # c PROVE R(d)' = R(d)
    OBVIOUS
  <1>1. sync'[d] = sync[d]
    OBVIOUS
  <1>2. ASSUME sync[d].phase \in Locked PROVE entry'[sync[d].repo] = entry[sync[d].repo]
    <2>1. sync[d].repo \in Repos /\ holder[sync[d].repo] = d
      BY <1>2, Holding
    <2> QED
      BY <2>1
  <1>3. CASE sync[d].phase \in Locked \/ sync[d].phase = "locking"
    BY <1>1, <1>2, <1>3 DEF R, ReadOf, Seen
  <1>4. CASE sync[d].phase \notin Locked \cup {"locking"}
    BY <1>1, <1>4 DEF R, ReadOf, HasSeen, Locked
  <1> QED
    BY <1>3, <1>4

LEMMA AtomicStutter == Stutters => UNCHANGED Atomic!parts
  BY DEF Stutters, Atomic!parts, R

\* The steps of AtomicSync, by what they do to one process.
LEMMA AtomicBecomes ==
  ASSUME NEW c \in Clients, Alone(c), NEW x, R(c)' = x
  PROVE  Atomic!Becomes(c, x)
  BY DEF Alone, Atomic!Becomes, R

LEMMA AtomicReads ==
  ASSUME NEW c \in Clients, Alone(c), R(c).is \in {"begun", "seen"},
         R(c)' = [is |-> "seen", repo |-> R(c).repo, commit |-> head[R(c).repo]],
         torn' \in {torn, torn \ {R(c).repo}}
  PROVE  Atomic!Next
  <1>1. Atomic!Read(c) /\ Atomic!Reads(c)
    BY AtomicBecomes DEF Atomic!Read, Atomic!Reads, Atomic!Branch, Atomic!MayMend, R
  <1> QED
    BY <1>1 DEF Atomic!Next

LEMMA AtomicRestarts ==
  ASSUME NEW c \in Clients, Alone(c), R(c).is \in {"begun", "seen"},
         R(c)' = [is |-> "begun", repo |-> R(c).repo], torn' \in {torn, torn \ {R(c).repo}}
  PROVE  Atomic!Next
  <1>1. Atomic!Restart(c) /\ Atomic!Reads(c)
    BY AtomicBecomes DEF Atomic!Restart, Atomic!Reads, Atomic!Branch, Atomic!MayMend, R
  <1> QED
    BY <1>1 DEF Atomic!Next

LEMMA AtomicMends ==
  ASSUME NEW c \in Clients, Alone(c), R(c).is \in {"begun", "seen"}, R(c)' = R(c),
         torn' = torn \ {R(c).repo}
  PROVE  Atomic!Next
  <1>1. Atomic!Mend(c) /\ Atomic!Reads(c)
    BY DEF Alone, Atomic!Mend, Atomic!Reads, Atomic!Branch, R
  <1> QED
    BY <1>1 DEF Atomic!Next

LEMMA AtomicReturns ==
  ASSUME NEW c \in Clients, Alone(c), R(c).is = "seen", NEW whole \in BOOLEAN,
         whole \/ R(c).repo \in torn, torn' = torn,
         R(c)' = [is |-> "got", tree |-> [commit |-> R(c).commit, whole |-> whole]]
  PROVE  Atomic!Next
  <1>1. Atomic!Return(c) /\ Atomic!Reads(c)
    BY AtomicBecomes DEF Atomic!Return, Atomic!Reads, Atomic!Branch, R
  <1> QED
    BY <1>1 DEF Atomic!Next

LEMMA AtomicFails ==
  ASSUME NEW c \in Clients, Alone(c), R(c).is \in {"begun", "seen"}, R(c)' = [is |-> "none"],
         torn' \in {torn, torn \ {R(c).repo}, torn \cup {R(c).repo}}
  PROVE  Atomic!Next
  <1>1. Atomic!Fail(c) /\ Atomic!Reads(c)
    BY AtomicBecomes DEF Atomic!Fail, Atomic!Reads, Atomic!Branch, Atomic!MayMend,
                         Atomic!Nothing, R
  <1> QED
    BY <1>1 DEF Atomic!Next

LEMMA AtomicLeaves ==
  ASSUME NEW c \in Clients, Alone(c), R(c).is = "got", R(c)' = [is |-> "none"], torn' = torn
  PROVE  Atomic!Next
  <1>1. Atomic!Leave(c)
    BY AtomicBecomes DEF Atomic!Leave, Atomic!Nothing, R
  <1> QED
    BY <1>1 DEF Atomic!Next

LEMMA AtomicBegins ==
  ASSUME NEW c \in Clients, Alone(c), R(c).is = "none", NEW r \in Repos,
         R(c)' = [is |-> "begun", repo |-> r], torn' = torn
  PROVE  Atomic!Next
  <1>1. Atomic!Begin(c, r)
    BY AtomicBecomes DEF Atomic!Begin, R
  <1> QED
    BY <1>1 DEF Atomic!Next

\* A process that does not touch entries changes its own place only.
LEMMA OwnPlace ==
  ASSUME CacheInv, NEW c \in Clients, NEW s, Becomes(c, s), head' = head,
         \A q \in Repos : holder[q] # c => entry'[q] = entry[q]
  PROVE  Alone(c) /\ sync'[c] = s
  <1>1. sync'[c] = s /\ \A d \in Clients : d # c => sync'[d] = sync[d]
    BY DEF Becomes, CacheInv, CacheTypeOK
  <1> QED
    BY <1>1, LeavesOthers DEF Alone

\* The entry that c has locked, after a step that writes no other.
LEMMA OwnEntry ==
  ASSUME CacheInv, NEW c \in Clients, sync[c].phase \in Locked,
         NEW e, entry' = [entry EXCEPT ![sync[c].repo] = e]
  PROVE  /\ entry'[sync[c].repo] = e
         /\ \A q \in Repos : holder[q] # c => entry'[q] = entry[q]
  <1>1. sync[c].repo \in Repos /\ holder[sync[c].repo] = c
    BY Holding
  <1> QED
    BY <1>1 DEF CacheInv, CacheTypeOK

LEMMA MovesIs ==
  ASSUME CacheInv, NEW c \in Clients, sync[c].phase \in Used \cup {"cloning"}, NEW ph, Moves(c, ph)
  PROVE  \E s : /\ Becomes(c, s) /\ s.phase = ph /\ s.repo = sync[c].repo /\ s.hash = sync[c].hash
                /\ sync[c].phase \in Used => s.use = sync[c].use
  <1>1. sync[c] \in Sync
    BY DEF CacheInv, CacheTypeOK
  <1>2. Becomes(c, [sync[c] EXCEPT !.phase = ph])
    BY DEF Moves
  <1>3. CASE sync[c].phase \in Used
    <2>1. sync[c] \in [phase : Used, repo : Repos, since : Commit, hash : Commit, use : Use]
      BY <1>1, <1>3, SyncIs
    <2> QED
      BY <1>2, <2>1
  <1>4. CASE sync[c].phase = "cloning"
    <2>1. /\ sync[c] \in [phase : {"locking", "cloning", "fetched"}, repo : Repos, since : Commit,
                         hash : Commit]
          /\ sync[c].phase \notin Used
      BY <1>1, <1>4, SyncIs DEF Used
    <2> QED
      BY <1>2, <2>1
  <1> QED
    BY <1>3, <1>4

\* Before and after the lock.
LEMMA AskMoves == \A c \in Clients : CacheInv /\ GetRemoteHash(c) => Atomic!Next
  <1> SUFFICES ASSUME NEW c \in Clients, CacheInv, GetRemoteHash(c) PROVE Atomic!Next
    OBVIOUS
  <1> DEFINE r == sync[c].repo
             new == [phase |-> "locking", repo |-> r, since |-> sync[c].since, hash |-> head[r]]
  <1>1. /\ sync[c].phase = "asking" /\ UNCHANGED <<head, entry, holder, torn>>
        /\ R(c) = [is |-> "begun", repo |-> r]
    BY ReadIs DEF GetRemoteHash, Phase, R
  <1>2. CASE Becomes(c, [phase |-> "notfound"])
    <2>1. Alone(c) /\ sync'[c] = [phase |-> "notfound"]
      BY <1>1, <1>2, OwnPlace
    <2>2. R(c)' = [is |-> "none"]
      BY <2>1 DEF R, ReadOf, HasSeen
    <2> QED
      BY <1>1, <2>1, <2>2, AtomicFails
  <1>3. CASE Becomes(c, new)
    <2>1. Alone(c) /\ sync'[c] = new
      BY <1>1, <1>3, OwnPlace
    <2>2. R(c)' = [is |-> "seen", repo |-> r, commit |-> head[r]]
      BY <2>1 DEF R, ReadOf, HasSeen, Seen
    <2> QED
      BY <1>1, <2>1, <2>2, AtomicReads
  <1> QED
    BY <1>2, <1>3 DEF GetRemoteHash

LEMMA LockMoves == \A c \in Clients : CacheInv /\ LockCache(c) => Stutters
  <1> SUFFICES ASSUME NEW c \in Clients, CacheInv, LockCache(c) PROVE Stutters
    OBVIOUS
  <1>1. /\ sync[c].phase = "locking" /\ UNCHANGED <<head, entry, torn>>
        /\ Becomes(c, Using(sync[c], "first"))
    BY DEF LockCache, Phase
  <1>2. Alone(c) /\ sync'[c] = Using(sync[c], "first")
    BY <1>1, OwnPlace
  <1>3. R(c)' = R(c)
    BY <1>1, <1>2 DEF R, ReadOf, HasSeen, Seen, Using
  <1> QED
    BY <1>1, <1>2, <1>3 DEF Stutters, Alone

LEMMA LockFailsMoves == \A c \in Clients : CacheInv /\ LockFails(c) => Atomic!Next
  <1> SUFFICES ASSUME NEW c \in Clients, CacheInv, LockFails(c) PROVE Atomic!Next
    OBVIOUS
  <1>1. /\ sync[c].phase = "locking" /\ UNCHANGED <<head, entry, torn>>
        /\ Becomes(c, [phase |-> "failed"])
    BY DEF LockFails, Phase
  <1>2. Alone(c) /\ sync'[c] = [phase |-> "failed"]
    BY <1>1, OwnPlace
  <1>3. R(c)' = [is |-> "none"]
    BY <1>2 DEF R, ReadOf, HasSeen
  <1>4. R(c).is = "seen"
    BY <1>1, ReadIs DEF R, HasSeen
  <1> QED
    BY <1>1, <1>2, <1>3, <1>4, AtomicFails

LEMMA UnavailableMoves ==
  ASSUME CacheInv, NEW c \in Clients, sync[c].phase \in Used, Unavailable(c), head' = head
  PROVE  Atomic!Next
  <1> DEFINE r == sync[c].repo
  <1>1. sync[c].phase \in Locked /\ sync[c].phase \in HasSeen
    BY DEF Used, Locked, HasSeen
  <1>2. R(c).is = "seen" /\ R(c).repo = r
    BY <1>1, ReadIs DEF R
  <1>3. CASE entry' = [entry EXCEPT ![r] = NoEntry] /\ torn' = torn \ {r}
             /\ Becomes(c, Without(sync[c]))
    <2>1. Alone(c) /\ sync'[c] = Without(sync[c])
      BY <1>1, <1>3, OwnEntry, OwnPlace
    <2>2. R(c)' = [is |-> "begun", repo |-> r]
      BY <2>1 DEF R, ReadOf, HasSeen, Without
    <2> QED
      BY <1>2, <1>3, <2>1, <2>2, AtomicRestarts
  <1>4. ASSUME NEW e, entry' = [entry EXCEPT ![r] = e], torn' \in {torn \ {r}, torn \cup {r}},
               Becomes(c, [phase |-> "failed"])
        PROVE  Atomic!Next
    <2>1. Alone(c) /\ sync'[c] = [phase |-> "failed"]
      BY <1>1, <1>4, OwnEntry, OwnPlace
    <2>2. R(c)' = [is |-> "none"]
      BY <2>1 DEF R, ReadOf, HasSeen
    <2> QED
      BY <1>2, <1>4, <2>1, <2>2, AtomicFails
  <1> QED
    BY <1>3, <1>4 DEF Unavailable

LEMMA OpenMoves == \A c \in Clients : CacheInv /\ OpenCache(c) => Stutters \/ Atomic!Next
  <1> SUFFICES ASSUME NEW c \in Clients, CacheInv, OpenCache(c) PROVE Stutters \/ Atomic!Next
    OBVIOUS
  <1> DEFINE r == sync[c].repo
  <1>1. /\ sync[c].phase = "opening" /\ sync[c].phase \in Used /\ sync[c].phase \in Locked
        /\ sync[c].phase \in HasSeen /\ head' = head
    BY DEF OpenCache, Phase, Used, Locked, HasSeen
  <1>2. R(c) = [is |-> "seen", repo |-> r, commit |-> Seen(sync[c])]
    BY <1>1, ReadIs DEF R
  <1>3. CASE Unavailable(c)
    BY <1>1, <1>3, UnavailableMoves
  <1>4. CASE /\ entry[r].commit = sync[c].hash
             /\ Moves(c, "copying") /\ UNCHANGED <<entry, torn, holder>>
    <2>1. PICK s : Becomes(c, s) /\ s.phase = "copying" /\ s.repo = r
      BY <1>1, <1>4, MovesIs
    <2>2. Alone(c) /\ sync'[c] = s
      BY <1>1, <1>4, <2>1, OwnPlace
    <2>3. R(c)' = [is |-> "seen", repo |-> r, commit |-> entry[r].commit]
      BY <1>4, <2>1, <2>2 DEF R, ReadOf, HasSeen, Seen
    <2>4. Seen(sync[c]) = entry[r].commit
      BY <1>4 DEF Seen
    <2> QED
      BY <1>1, <1>2, <1>4, <2>2, <2>3, <2>4 DEF Stutters, Alone
  <1>5. CASE /\ entry[r].git = "head" /\ entry' = [entry EXCEPT ![r].whole = TRUE]
             /\ torn' = torn \ {r} /\ Moves(c, "pulling")
    <2>1. PICK s : Becomes(c, s) /\ s.phase = "pulling" /\ s.repo = r /\ s.hash = sync[c].hash
                   /\ s.use = sync[c].use
      BY <1>1, <1>5, MovesIs
    <2>2. PICK e \in Entry : e = [entry[r] EXCEPT !.whole = TRUE] /\ e.commit = entry[r].commit
      <3>1. entry[r] \in Entry
        BY <1>1, Holding
      <3> QED
        BY <1>5, <3>1, MarkedIs
    <2>3. entry' = [entry EXCEPT ![r] = e]
      BY <1>5, <2>2
    <2>4. Alone(c) /\ sync'[c] = s /\ entry'[r] = e
      BY <1>1, <2>1, <2>3, OwnEntry, OwnPlace
    <2>5. R(c)' = [is |-> "seen", repo |-> r, commit |-> Seen(s)']
      BY <2>1, <2>4 DEF R, ReadOf, HasSeen
    <2>6. Seen(s)' = Seen(sync[c])
      BY <1>1, <2>1, <2>2, <2>4 DEF Seen
    <2> QED
      BY <1>1, <1>2, <1>5, <2>4, <2>5, <2>6, AtomicMends
  <1> QED
    BY <1>3, <1>4, <1>5 DEF OpenCache

LEMMA PullMoves == \A c \in Clients : CacheInv /\ PullCache(c) => Atomic!Next
  <1> SUFFICES ASSUME NEW c \in Clients, CacheInv, PullCache(c) PROVE Atomic!Next
    OBVIOUS
  <1> DEFINE r == sync[c].repo
  <1>1. /\ sync[c].phase = "pulling" /\ sync[c].phase \in Used /\ sync[c].phase \in Locked
        /\ sync[c].phase \in HasSeen /\ head' = head
    BY DEF PullCache, Phase, Used, Locked, HasSeen
  <1>2. R(c).is = "seen" /\ R(c).repo = r
    BY <1>1, ReadIs DEF R
  <1>3. CASE Unavailable(c)
    BY <1>1, <1>3, UnavailableMoves
  <1>4. ASSUME NEW ph \in {"copying", "resetting"}, NEW e, Moves(c, ph),
               entry' = [entry EXCEPT ![r] = e], e.commit = head[r], torn' = torn
        PROVE  Atomic!Next
    <2>1. PICK s : Becomes(c, s) /\ s.phase = ph /\ s.repo = r
      BY <1>1, <1>4, MovesIs
    <2>2. Alone(c) /\ sync'[c] = s /\ entry'[r] = e
      BY <1>1, <1>4, <2>1, OwnEntry, OwnPlace
    <2>3. R(c)' = [is |-> "seen", repo |-> r, commit |-> head[r]]
      BY <1>4, <2>1, <2>2 DEF R, ReadOf, HasSeen, Seen
    <2> QED
      BY <1>2, <1>4, <2>2, <2>3, AtomicReads
  <1>5. CASE entry[r].commit = head[r] /\ Moves(c, "copying") /\ UNCHANGED <<entry, torn>>
    <2>1. entry' = [entry EXCEPT ![r] = entry[r]]
      BY <1>1, <1>5, Holding DEF CacheInv, CacheTypeOK
    <2> QED
      BY <1>4, <1>5, <2>1
  <1>6. CASE /\ entry' = [entry EXCEPT ![r] = At(head[r], FALSE)]
             /\ Moves(c, "resetting") /\ UNCHANGED torn
    <2>1. At(head[r], FALSE).commit = head[r]
      BY DEF At
    <2> QED
      BY <1>4, <1>6, <2>1
  <1> QED
    BY <1>3, <1>5, <1>6 DEF PullCache

LEMMA ResetMoves == \A c \in Clients : CacheInv /\ ResetTree(c) => Stutters \/ Atomic!Next
  <1> SUFFICES ASSUME NEW c \in Clients, CacheInv, ResetTree(c) PROVE Stutters \/ Atomic!Next
    OBVIOUS
  <1> DEFINE r == sync[c].repo
  <1>1. /\ sync[c].phase = "resetting" /\ sync[c].phase \in Used /\ sync[c].phase \in Locked
        /\ sync[c].phase \in HasSeen /\ head' = head
    BY DEF ResetTree, Phase, Used, Locked, HasSeen
  <1>2. R(c) = [is |-> "seen", repo |-> r, commit |-> entry[r].commit]
    BY <1>1 DEF R, ReadOf, Seen
  <1>3. CASE Unavailable(c)
    BY <1>1, <1>3, UnavailableMoves
  <1>4. CASE entry' = [entry EXCEPT ![r].whole = TRUE] /\ Moves(c, "copying") /\ UNCHANGED torn
    <2>1. PICK s : Becomes(c, s) /\ s.phase = "copying" /\ s.repo = r
      BY <1>1, <1>4, MovesIs
    <2>2. entry[r].git = "head"
      BY <1>1 DEF CacheInv, Local, WithHEAD
    <2>3. PICK e \in Entry : e = [entry[r] EXCEPT !.whole = TRUE] /\ e.commit = entry[r].commit
      <3>1. entry[r] \in Entry
        BY <1>1, Holding
      <3> QED
        BY <2>2, <3>1, MarkedIs
    <2>4. entry' = [entry EXCEPT ![r] = e]
      BY <1>4, <2>3
    <2>5. Alone(c) /\ sync'[c] = s /\ entry'[r] = e
      BY <1>1, <2>1, <2>4, OwnEntry, OwnPlace
    <2>6. R(c)' = R(c)
      BY <1>2, <2>1, <2>3, <2>5 DEF R, ReadOf, HasSeen, Seen
    <2> QED
      BY <1>4, <2>5, <2>6 DEF Stutters, Alone
  <1> QED
    BY <1>3, <1>4 DEF ResetTree

LEMMA CloneFailsMoves ==
  ASSUME CacheInv, NEW c \in Clients, sync[c].phase \in {"cloning", "fetched"}, CloneFails(c),
         UNCHANGED <<head, torn>>
  PROVE  Atomic!Next
  <1>1. R(c).is \in {"begun", "seen"} /\ sync[c].phase \in Locked
    BY ReadIs DEF R, HasSeen, Locked
  <1>2. PICK ph \in {"failed", "notfound"} : Becomes(c, [phase |-> ph])
    BY DEF CloneFails
  <1>3. Alone(c) /\ sync'[c] = [phase |-> ph]
    BY <1>1, <1>2, OwnEntry, OwnPlace DEF CloneFails
  <1>4. R(c)' = [is |-> "none"]
    BY <1>3 DEF R, ReadOf, HasSeen
  <1> QED
    BY <1>1, <1>3, <1>4, AtomicFails

LEMMA CloneMoves == \A c \in Clients : CacheInv /\ CloneCache(c) => Stutters \/ Atomic!Next
  <1> SUFFICES ASSUME NEW c \in Clients, CacheInv, CloneCache(c) PROVE Stutters \/ Atomic!Next
    OBVIOUS
  <1> DEFINE r == sync[c].repo
  <1>1. /\ sync[c].phase = "cloning" /\ sync[c].phase \in Locked /\ UNCHANGED <<head, torn>>
        /\ R(c) = [is |-> "begun", repo |-> r]
    BY ReadIs DEF CloneCache, Phase, Locked, R
  <1>2. CASE CloneFails(c)
    BY <1>1, <1>2, CloneFailsMoves
  <1>3. CASE entry' = [entry EXCEPT ![r] = [git |-> "unborn"]] /\ UNCHANGED <<sync, holder>>
    <2>1. Becomes(c, sync[c])
      BY <1>3 DEF Becomes, CacheInv, CacheTypeOK
    <2>2. Alone(c) /\ sync'[c] = sync[c]
      BY <1>1, <1>3, <2>1, OwnEntry, OwnPlace
    <2>3. R(c)' = R(c)
      BY <1>1, <2>2 DEF R, ReadOf, HasSeen
    <2> QED
      BY <1>1, <2>2, <2>3 DEF Stutters, Alone
  <1>4. CASE entry' = [entry EXCEPT ![r] = At(head[r], FALSE)] /\ Moves(c, "fetched")
    <2>1. PICK s : Becomes(c, s) /\ s.phase = "fetched" /\ s.repo = r
      BY <1>1, <1>4, MovesIs
    <2>2. Alone(c) /\ sync'[c] = s /\ entry'[r] = At(head[r], FALSE)
      BY <1>1, <1>4, <2>1, OwnEntry, OwnPlace
    <2>3. R(c)' = [is |-> "seen", repo |-> r, commit |-> head[r]]
      BY <2>1, <2>2 DEF R, ReadOf, HasSeen, Seen, At
    <2> QED
      BY <1>1, <2>2, <2>3, AtomicReads
  <1> QED
    BY <1>2, <1>3, <1>4 DEF CloneCache

LEMMA CheckoutMoves == \A c \in Clients : CacheInv /\ CheckoutClone(c) => Stutters \/ Atomic!Next
  <1> SUFFICES ASSUME NEW c \in Clients, CacheInv, CheckoutClone(c) PROVE Stutters \/ Atomic!Next
    OBVIOUS
  <1> DEFINE r == sync[c].repo
             s == Using(sync[c], "second")
  <1>1. /\ sync[c].phase = "fetched" /\ sync[c].phase \in Locked /\ UNCHANGED <<head, torn>>
        /\ R(c) = [is |-> "seen", repo |-> r, commit |-> entry[r].commit]
    BY DEF CheckoutClone, Phase, Locked, R, ReadOf, HasSeen, Seen
  <1>2. CASE CloneFails(c)
    BY <1>1, <1>2, CloneFailsMoves
  <1>3. CASE entry' = [entry EXCEPT ![r].whole = TRUE] /\ Becomes(c, s)
    <2>1. entry[r].git = "head"
      BY <1>1 DEF CacheInv, Local, WithHEAD
    <2>2. PICK e \in Entry : e = [entry[r] EXCEPT !.whole = TRUE] /\ e.commit = entry[r].commit
      <3>1. entry[r] \in Entry
        BY <1>1, Holding
      <3> QED
        BY <2>1, <3>1, MarkedIs
    <2>3. entry' = [entry EXCEPT ![r] = e]
      BY <1>3, <2>2
    <2>4. Alone(c) /\ sync'[c] = s /\ entry'[r] = e
      BY <1>1, <1>3, <2>3, OwnEntry, OwnPlace
    <2>5. s.phase = "opening" /\ s.repo = r /\ s.use = "second"
      BY DEF Using
    <2>6. R(c)' = R(c)
      BY <1>1, <2>2, <2>4, <2>5 DEF R, ReadOf, HasSeen, Seen
    <2> QED
      BY <1>1, <2>4, <2>6 DEF Stutters, Alone
  <1> QED
    BY <1>2, <1>3 DEF CheckoutClone

LEMMA CopyMoves == \A c \in Clients : CacheInv /\ CopyCache(c) => Atomic!Next
  <1> SUFFICES ASSUME NEW c \in Clients, CacheInv, CopyCache(c) PROVE Atomic!Next
    OBVIOUS
  <1> DEFINE r == sync[c].repo
             tree == [commit |-> entry[r].commit, whole |-> entry[r].whole]
             new == [phase |-> "done", repo |-> r, since |-> sync[c].since,
                     excused |-> r \in torn, tree |-> tree]
  <1>1. /\ sync[c].phase = "copying" /\ sync[c].phase \in Locked
        /\ UNCHANGED <<head, entry, torn>>
        /\ R(c) = [is |-> "seen", repo |-> r, commit |-> entry[r].commit]
    BY DEF CopyCache, Phase, Locked, R, ReadOf, HasSeen, Seen
  <1>2. CASE Becomes(c, [phase |-> "failed"])
    <2>1. Alone(c) /\ sync'[c] = [phase |-> "failed"]
      BY <1>1, <1>2, OwnPlace
    <2>2. R(c)' = [is |-> "none"]
      BY <2>1 DEF R, ReadOf, HasSeen
    <2> QED
      BY <1>1, <2>1, <2>2, AtomicFails
  <1>3. CASE Becomes(c, new)
    <2>1. Alone(c) /\ sync'[c] = new
      BY <1>1, <1>3, OwnPlace
    <2>2. R(c)' = [is |-> "got", tree |-> tree]
      BY <2>1 DEF R, ReadOf, HasSeen
    <2>3. r \in Repos /\ entry[r] \in Entry /\ entry[r].git = "head" /\ holder[r] = c
      BY <1>1, Holding DEF CacheInv, Local, WithHEAD
    <2>4. entry[r].whole \in BOOLEAN
      BY <2>3, EntryIs
    <2>5. entry[r].whole \/ r \in torn
      <3>1. Explained(r)
        BY <2>3 DEF CacheInv
      <3> QED
        BY <1>1, <2>3, <3>1 DEF Explained, Partial
    <2> QED
      BY <1>1, <2>1, <2>2, <2>4, <2>5, AtomicReturns
  <1> QED
    BY <1>2, <1>3 DEF CopyCache

\* The steps around the cache.
LEMMA DieMoves == \A c \in Clients : CacheInv /\ SyncDies(c) => Stutters \/ Atomic!Next
  <1> SUFFICES ASSUME NEW c \in Clients, CacheInv, SyncDies(c) PROVE Stutters \/ Atomic!Next
    OBVIOUS
  <1> DEFINE r == sync[c].repo
             held == {q \in Repos : holder[q] = c}
  <1>1. /\ Becomes(c, [phase |-> "failed"]) /\ UNCHANGED <<head, entry>>
        /\ torn' = torn \cup {q \in held : Partial(q)}
    BY DEF SyncDies, Becomes
  <1>2. Alone(c) /\ sync'[c] = [phase |-> "failed"]
    BY <1>1, OwnPlace
  <1>3. R(c)' = [is |-> "none"]
    BY <1>2 DEF R, ReadOf, HasSeen
  <1>4. held \subseteq {r} /\ (sync[c].phase \notin Locked => held = {})
    BY DEF CacheInv, CacheTypeOK
  <1>5. torn' \in {torn, torn \cup {r}} /\ (sync[c].phase \notin Locked => torn' = torn)
    BY <1>1, <1>4
  <1>6. sync[c].phase \in HasSeen \cup {"asking", "cloning", "done", "idle", "failed", "notfound"}
    BY DEF CacheInv, CacheTypeOK, Sync, HasSeen
  <1>7. CASE sync[c].phase \in HasSeen \cup {"asking", "cloning"}
    <2>1. R(c).is \in {"begun", "seen"} /\ R(c).repo = r
      BY <1>7, ReadIs DEF R
    <2> QED
      BY <1>2, <1>3, <1>5, <2>1, AtomicFails
  <1>8. CASE sync[c].phase = "done"
    <2>1. R(c).is = "got" /\ sync[c].phase \notin Locked
      BY <1>8, ReadIs DEF R, Locked
    <2> QED
      BY <1>2, <1>3, <1>5, <2>1, AtomicLeaves
  <1>9. CASE sync[c].phase \in {"idle", "failed", "notfound"}
    <2>1. R(c) = [is |-> "none"] /\ sync[c].phase \notin Locked
      BY <1>9, ReadIs DEF R, Locked
    <2> QED
      BY <1>1, <1>2, <1>3, <1>5, <2>1 DEF Stutters, Alone
  <1> QED
    BY <1>6, <1>7, <1>8, <1>9

LEMMA PushMoves == \A r \in Repos : CacheInv /\ Push(r) => Atomic!Next
  <1> SUFFICES ASSUME NEW r \in Repos, CacheInv, Push(r) PROVE Atomic!Next
    OBVIOUS
  <1>1. head[r] < MaxHead /\ head' = [head EXCEPT ![r] = @ + 1] /\ UNCHANGED <<entry, sync, torn>>
    BY DEF Push
  <1>2. \A c \in Clients : ReadOf(sync[c])' = ReadOf(sync[c])
    BY <1>1 DEF ReadOf, Seen
  <1>3. Atomic!Push(r)
    BY <1>1, <1>2 DEF Atomic!Push
  <1> QED
    BY <1>3 DEF Atomic!Next

LEMMA StartMoves ==
  ASSUME CacheInv, NEW c \in Clients, NEW r \in Repos, sync[c].phase \in Quiet, StartSync(c, r)
  PROVE  Atomic!Next
  <1> DEFINE new == [phase |-> "asking", repo |-> r, since |-> head[r]]
  <1>1. Becomes(c, new) /\ UNCHANGED <<head, entry, torn>>
    BY DEF StartSync
  <1>2. Alone(c) /\ sync'[c] = new
    BY <1>1, OwnPlace
  <1>3. R(c)' = [is |-> "begun", repo |-> r]
    BY <1>2 DEF R, ReadOf, HasSeen
  <1>4. R(c).is = "none"
    BY ReadIs DEF R, Quiet
  <1> QED
    BY <1>1, <1>2, <1>3, <1>4, AtomicBegins

\* A command takes the tree, or goes on without.
LEMMA TakeMoves ==
  ASSUME CacheInv, NEW c \in Clients, Phase(c) \in {"done", "notfound", "failed"},
         Becomes(c, [phase |-> "idle"]), UNCHANGED <<head, entry, holder, torn>>
  PROVE  Stutters \/ Atomic!Next
  <1>1. Alone(c) /\ sync'[c] = [phase |-> "idle"]
    BY OwnPlace
  <1>2. R(c)' = [is |-> "none"]
    BY <1>1 DEF R, ReadOf, HasSeen
  <1>3. CASE Phase(c) = "done"
    <2>1. R(c).is = "got"
      BY <1>3, ReadIs DEF R, Phase
    <2> QED
      BY <1>1, <1>2, <2>1, AtomicLeaves
  <1>4. CASE Phase(c) \in {"notfound", "failed"}
    <2>1. R(c) = [is |-> "none"]
      BY <1>4, ReadIs DEF R, Phase
    <2> QED
      BY <1>1, <1>2, <2>1 DEF Stutters, Alone
  <1> QED
    BY <1>3, <1>4

LEMMA OutsideMoves == UNCHANGED cacheVars => Stutters
  BY DEF cacheVars, Stutters, R, ReadOf, Seen

LEMMA StepMoves == Inv /\ Next => Stutters \/ Atomic!Next
  <1> SUFFICES ASSUME Inv, Next PROVE Stutters \/ Atomic!Next
    OBVIOUS
  <1>1. CacheInv
    BY DEF Inv
  <1>2. CASE Environment
    <2>1. ASSUME NEW r \in Repos, Push(r) PROVE Atomic!Next
      BY <1>1, <2>1, PushMoves
    <2>2. ASSUME NEW c \in Clients, Killed(c) PROVE Stutters \/ Atomic!Next
      BY <1>1, <2>2, DieMoves DEF Killed
    <2>3. ASSUME NEW c \in Clients, Serve(c) \/ Refuse(c) PROVE Stutters
      BY <2>3, OutsideMoves DEF Serve, Refuse
    <2>4. ASSUME NEW c \in Clients, LockFails(c) PROVE Atomic!Next
      BY <1>1, <2>4, LockFailsMoves
    <2> QED
      BY <1>2, <2>1, <2>2, <2>3, <2>4 DEF Environment
  <1>3. ASSUME NEW c \in Clients, Work(c) PROVE Stutters \/ Atomic!Next
    <2>1. CASE c \in Submitters /\ (SyncSource(c) \/ SyncPackage(c))
      <3>1. sync[c].phase \in Quiet
        BY <2>1 DEF SyncSource, SyncPackage, Stands, Inv, NoLockElse
      <3>2. PICK r \in Repos : StartSync(c, r)
        BY <2>1, ClientAssumption DEF SyncSource, SyncPackage
      <3> QED
        BY <1>1, <3>1, <3>2, StartMoves
    <2>2. CASE TakeSource(c) \/ TakePackage(c)
      BY <1>1, <2>2, TakeMoves DEF TakeSource, TakePackage, Synced
    <2>3. CASE Synchronise(c)
      BY <1>1, <2>3, AskMoves, LockMoves, OpenMoves, PullMoves, ResetMoves, CloneMoves,
         CheckoutMoves, CopyMoves DEF Synchronise, SyncStep
    <2>4. CASE \/ Start(c) \/ Describe(c) \/ Pack(c) \/ UploadSubmission(c) \/ SubmitPackage(c)
               \/ RetryPipeline(c) \/ Receive(c) \/ GiveUp(c) \/ OpenID(c) \/ WriteID(c)
      <3>1. UNCHANGED cacheVars
        BY <2>4 DEF Start, Describe, Pack, UploadSubmission, SubmitPackage, RetryPipeline, Receive,
                    GiveUp, OpenID, OpenIDWith, WriteID
      <3> QED
        BY <3>1, OutsideMoves
    <2> QED
      BY <1>3, <2>1, <2>2, <2>3, <2>4 DEF Work
  <1> QED
    BY <1>2, <1>3 DEF Next

LEMMA AtomicStarts == Init => Atomic!Init
  BY DEF Init, CacheInit, Atomic!Init, Atomic!Nothing, ReadOf, HasSeen

-----------------------------------------------------------------------------
(* The theorems.                                                            *)

LEMMA InitInv == Init => Inv
  <1> SUFFICES ASSUME Init PROVE Inv
    OBVIOUS
  <1>1. CacheTypeOK
    BY CacheAssumption, EntryIs, InSync
    DEF Init, CacheInit, CacheTypeOK, Commit, Locked
  <1>2. CacheInv
    BY <1>1, EntryIs DEF Init, CacheInit, CacheInv, Local, Explained, Partial, Locked, Asked,
       Hashed, Used, WithHEAD
  <1>3. accepted = <<>> /\ accepted \in Seq(Accepted) /\ Len(accepted) = 0 /\ DOMAIN accepted = {}
    BY DEF Init
  <1>4. TypeOK
    <2>1. NoCommand \in Command /\ 0 \in Id
      BY DEF NoCommand, Command, Stage, Id
    <2> QED
      BY <1>1, <1>3, <2>1, WireIs, ClientAssumption DEF Init, TypeOK
  <1>5. \A c \in Clients : CommandOK(c, command[c], wire[c])
    <2>1. NoCommand.stage = "idle" /\ NoCommand.has = {} /\ NoCommand.sound
      BY DEF NoCommand
    <2> QED
      BY <1>3, <2>1, WireIs DEF Init, CommandOK, Gathered, Asking, Made, Early
  <1>6. NoLockElse /\ OneEach /\ SubmissionIsOfItsTrees
    BY <1>3 DEF Init, CacheInit, NoLockElse, Quiet, OneEach, SubmissionIsOfItsTrees
  <1>7. SavedIds /\ InTurn
    BY DEF Init, NoCommand, SavedIds, InTurn, OneAtATime, Writes
  <1> QED
    BY <1>2, <1>4, <1>5, <1>6, <1>7 DEF Inv

LEMMA NextInv == Inv /\ [Next]_vars => Inv'
  <1> SUFFICES ASSUME Inv, [Next]_vars PROVE Inv'
    OBVIOUS
  <1>1. CASE UNCHANGED vars
    <2>1. UNCHANGED <<cacheVars, command, wire, chiefVars>>
      BY <1>1 DEF vars
    <2>2. CacheInv' /\ \A d \in Clients : sync'[d] = sync[d]
      BY <2>1, CacheRests
    <2>3. NoLockElse'
      BY <2>1, <2>2 DEF Inv, NoLockElse
    <2> QED
      BY <2>1, <2>2, <2>3, CacheStep
  <1>2. CASE Environment
    BY <1>2, PushedStep, LockFailsStep, ServeStep, RefuseStep, KilledStep DEF Environment
  <1>3. ASSUME NEW c \in Clients, Work(c) PROVE Inv'
    BY <1>3, BeginStep, SyncBegins, TakeStep, DescribeStep, PackStep, SubmitStep, RetryStep,
       SynchroniseStep, ReceiveStep, GiveUpCommand, OpenIDStep, WriteIDStep DEF Work
  <1> QED
    BY <1>1, <1>2, <1>3 DEF Next

LEMMA Invariant == Spec => []Inv
  BY InitInv, NextInv, PTL DEF Spec

\* The values of all variables stay in their sets, and a process is at work on a cache
\* entry exactly while it has the entry's lock (the flock of Sync, repo_sync.go).
THEOREM TypeCorrect == Spec => []TypeOK
  <1>1. Inv => TypeOK
    BY DEF Inv
  <1> QED
    BY <1>1, Invariant, PTL

\* A tree that Sync copies is at least as new as the branch was when Sync began, for any
\* number of processes that pull, clone and remove the entry, and for any death of theirs.
THEOREM CopiesAreRecent == Spec => []CopyIsRecent
  <1>1. Inv => CopyIsRecent
    <2> SUFFICES ASSUME Inv, NEW c \in Clients, sync[c].phase = "done"
                 PROVE  sync[c].tree.commit >= sync[c].since
      BY DEF CopyIsRecent, Phase
    <2>1. sync[c] \in [phase : {"done"}, repo : Repos, since : Commit, tree : Tree, excused : BOOLEAN]
      BY SyncIs DEF Inv, CacheInv, CacheTypeOK
    <2>2. sync[c].since \in Nat /\ sync[c].tree.commit \in Nat
      BY <2>1 DEF Tree, Commit
    <2>3. sync[c].since <= sync[c].tree.commit
      BY DEF Inv, CacheInv, Local
    <2> QED
      BY <2>2, <2>3
  <1> QED
    BY <1>1, Invariant, PTL

\* A tree that Sync copies is whole, unless a process died while it wrote that entry, or
\* could not remove it.
THEOREM CopiesAreWhole == Spec => []CopyIsWhole
  <1>1. Inv => CopyIsWhole
    BY DEF Inv, CacheInv, Local, CopyIsWhole, Phase
  <1> QED
    BY <1>1, Invariant, PTL

\* Every package pipeline that irgsh-cli makes the chief start was asked for with the
\* source package, made of trees as recent as the command and whole but for deaths; of a
\* source that was asked for, with the tarball of such a tree or else the one body that
\* was downloaded (package.go), of which nothing is known.
THEOREM SubmissionsAreOfTheirTrees == Spec => []SubmissionIsOfItsTrees
  <1>1. Inv => SubmissionIsOfItsTrees
    BY DEF Inv
  <1> QED
    BY <1>1, Invariant, PTL

\* A command never makes the chief start two pipelines, and one that succeeds reports
\* the one it made.
THEOREM OneForEachCommand == Spec => []OnePerCommand
  <1>1. Inv => OnePerCommand
    <2> SUFFICES ASSUME Inv, NEW c \in Clients
                 PROVE  /\ Cardinality(Made(c)) <= 1
                        /\ command[c].stage \in {"answered", "ended"} => Made(c) = {command[c].id}
      BY DEF OnePerCommand, Made
    <2>1. \A i, j \in Made(c) : i = j
      BY DEF Made, Inv, OneEach
    <2>2. CASE Made(c) = {}
      BY <2>2, FS_EmptySet DEF Inv, CommandOK, Asking
    <2>3. CASE Made(c) # {}
      <3>1. PICK i : i \in Made(c)
        BY <2>3
      <3>2. Made(c) = {i}
        BY <2>1, <3>1
      <3>3. Cardinality(Made(c)) = 1
        BY <3>2, FS_Singleton
      <3>4. command[c].stage \in {"answered", "ended"} => command[c].id \in Made(c)
        BY DEF Inv, CommandOK, Asking
      <3> QED
        BY <3>2, <3>3, <3>4
    <2> QED
      BY <2>2, <2>3
  <1> QED
    BY <1>1, Invariant, PTL

\* What status, log and retry default to (pipeline_store.go): a file holds ids of its own
\* kind that their processes were answered, whatever becomes of the processes; and one id
\* alone unless WriteFile's truncation and write (util.go) of two processes have overlapped.
THEOREM DefaultsAreOfTheirKind == Spec => []DefaultIds
  <1>1. Inv => DefaultIds
    <2> SUFFICES ASSUME Inv, NEW f \in File
                 PROVE  /\ \A i \in saved[f] : FileOf(accepted[i].by) = f
                                             /\ command[accepted[i].by].id = i
                        /\ Cardinality(saved[f]) > 1 => f \in overlapped
      BY DEF DefaultIds
    <2>1. \A i \in saved[f] : FileOf(accepted[i].by) = f /\ command[accepted[i].by].id = i
      BY DEF Inv, SavedIds, SavedBy
    <2>2. ASSUME f \notin overlapped PROVE ~(Cardinality(saved[f]) > 1)
      <3>1. \A i, j \in saved[f] : i = j
        BY <2>2 DEF Inv, InTurn, OneAtATime
      <3>2. CASE saved[f] = {}
        BY <3>2, FS_EmptySet
      <3>3. CASE saved[f] # {}
        <4>1. PICK i : saved[f] = {i}
          BY <3>1, <3>3
        <4>2. Cardinality(saved[f]) = 1
          BY <4>1, FS_Singleton
        <4> QED
          BY <4>2
      <3> QED
        BY <3>2, <3>3
    <2> QED
      BY <2>1, <2>2
  <1> QED
    BY <1>1, Invariant, PTL

\* However the steps of several processes on one cache entry, their failures, deaths and
\* the pushes to the branch mix, each Sync of repo_sync.go is as good as one reading of
\* the branch at a moment between its call and its return: it copies the commit of that
\* moment, and all of it unless a process died on the entry or could not remove it.
THEOREM SyncIsAtomic == Spec => ImplementsAtomicSync
  <1>1. Inv /\ [Next]_vars => [Atomic!Next]_(Atomic!parts)
    <2>1. CASE UNCHANGED vars
      BY <2>1, OutsideMoves, AtomicStutter DEF vars
    <2> QED
      BY <2>1, StepMoves, AtomicStutter
  <1> QED
    BY <1>1, AtomicStarts, Invariant, PTL DEF Spec, ImplementsAtomicSync, Atomic!Spec
=============================================================================
