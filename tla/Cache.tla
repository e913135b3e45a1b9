------------------------------- MODULE Cache -------------------------------
(***************************************************************************)
(* The track cache of library/cache.c and its references to track_infos    *)
(* (core/track_info.c), used by the worker and by the main thread.         *)
(*                                                                         *)
(* Every track_info counts its references: one of the cache, one of every   *)
(* list or result that holds it. The worker runs update-cache, which lists  *)
(* the whole cache, looks every file up on the disk, and lets the cache     *)
(* lock go (cache_yield, see FifoMutex) between any two of them; what it    *)
(* found is a result that the main thread applies later. Meanwhile the main *)
(* thread plays files, drops and copies tracks, and takes tracks out of the *)
(* cache. The counts are atomic, but between looking at one and acting on   *)
(* it (track_info_unique_ref) others may change it.                        *)
(*                                                                         *)
(* The hash table has one bucket here, so that all tracks share a chain.    *)
(* The field next of a track_info links the chain, and later, in a result,  *)
(* the old track to the new one. The files may change at any time: what     *)
(* stat and the input plugins find is a choice.                            *)
(***************************************************************************)
EXTENDS Integers, Sequences, FiniteSets, SequencesExt

CONSTANTS
    Filename,
    MaxTracks,  \* bound: track_infos made in a run
    MaxCopies   \* bound: references that the lists hold

ASSUME MaxTracksAssumption == MaxTracks \in Nat

Null == 0
Ids == 1..MaxTracks

VARIABLES
    ti,     \* the track_infos made so far, in order: [file, refs, next];
            \* their index is their address, and it is not used again
    bucket, \* hash_table[0]
    held,   \* how many references the lists and the player have on each
    job,    \* the worker: pc, force, tis (tis[i], Null when cleared), i
    result  \* the pending job results: [kind, tis, i], of the kind "add" with the
            \* track added, or "update" with tis of the job; i is the entry that
            \* the main thread handles next

cvars == <<ti, bucket, held, job, result>>

Idle == [pc |-> "idle", force |-> FALSE, tis |-> <<>>, i |-> 0]

CacheInit ==
    /\ ti = <<>> /\ bucket = Null
    /\ held = [t \in Ids |-> 0]
    /\ job = Idle /\ result = <<>>

-----------------------------------------------------------------------------
(* The chain. *)

\* where the field next leads to from t in so many steps; a chain that runs in a
\* circle is cut where it must have repeated itself
Links(s, t) ==
    LET link[n \in 0..Len(s)] ==
            IF n = 0 THEN t
            ELSE LET last == link[n - 1] IN IF last = Null THEN Null ELSE s[last].next
    IN  link
ChainFrom(s, t) ==
    LET link == Links(s, t)
    IN  [n \in 1..Cardinality({k \in 0..Len(s) : link[k] # Null}) |-> link[n - 1]]
Chain == ChainFrom(ti, bucket)
IsCached(t) == t \in ToSet(Chain)

\* a memory: the track_infos and the bucket, as an operation leaves them
Now == [ti |-> ti, bucket |-> bucket]

Ref(m, t) == [m EXCEPT !.ti[t].refs = @ + 1]
Unref(m, t) == [m EXCEPT !.ti[t].refs = @ - 1]

\* track_info_new and add_ti: the reference is the cache's
FreshTi(m) == Len(m.ti) + 1
WithNew(m, file) ==
    [ti |-> Append(m.ti, [file |-> file, refs |-> 1, next |-> m.bucket]),
     bucket |-> FreshTi(m)]

\* lookup_cache_entry
Lookup(file) ==
    LET chain == Chain
        found == {i \in DOMAIN chain : ti[chain[i]].file = file}
    IN  IF found = {} THEN Null ELSE chain[CHOOSE i \in found : \A j \in found : i <= j]

\* faulty: a track that is not in the chain loses a reference, too
RemovedBlindly(m, t) ==
    LET chain == ChainFrom(m.ti, m.bucket)
        i == CHOOSE j \in DOMAIN chain : chain[j] = t
    IN  IF t \notin ToSet(chain) THEN Unref(m, t)
        ELSE IF i = 1 THEN Unref([m EXCEPT !.bucket = m.ti[t].next], t)
        ELSE Unref([m EXCEPT !.ti[chain[i - 1]].next = m.ti[t].next], t)

\* do_cache_remove_ti: nothing happens unless t is in the chain
RemovedTi(m, t) ==
    LET chain == ChainFrom(m.ti, m.bucket)
        i == CHOOSE j \in DOMAIN chain : chain[j] = t
    IN  IF t \notin ToSet(chain) THEN m
        ELSE IF i = 1 THEN Unref([m EXCEPT !.bucket = m.ti[t].next], t)
        ELSE Unref([m EXCEPT !.ti[chain[i - 1]].next = m.ti[t].next], t)

Store(m) == ti' = m.ti /\ bucket' = m.bucket

\* what cache_get_ti may leave: without force a track that is in the cache is
\* found there, but if its duration is not known it is taken out and read again
GetTi(file, force) ==
    LET t == Lookup(file)
        found == IF t = Null \/ force THEN {} ELSE {[m |-> Ref(Now, t), t |-> t]}
        m == IF t = Null THEN Now ELSE RemovedTi(Now, t)
        read == {[m |-> Ref(WithNew(m, file), FreshTi(m)), t |-> FreshTi(m)], [m |-> m, t |-> Null]}
    IN  found \cup read

-----------------------------------------------------------------------------
(* The worker. *)

\* an add job runs between two other jobs: add_file looks the file up and the
\* result carries the reference
AddFile ==
    /\ job.pc = "idle" /\ Len(ti) < MaxTracks /\ Len(result) < 2
    /\ \E f \in Filename, force \in BOOLEAN : \E g \in GetTi(f, force) :
        /\ Store(g.m)
        /\ result' = IF g.t = Null THEN result
                     ELSE Append(result, [kind |-> "add", tis |-> <<g.t>>, i |-> 1])
    /\ UNCHANGED <<held, job>>

\* cache_refresh: get_track_infos(true) takes a reference on everything
StartRefresh ==
    /\ job.pc = "idle" /\ Len(result) < 2
    /\ ti' = [t \in DOMAIN ti |->
                IF IsCached(t) THEN [ti[t] EXCEPT !.refs = @ + 1] ELSE ti[t]]
    /\ \E force \in BOOLEAN :
        job' = [pc |-> "yield", force |-> force, tis |-> Chain, i |-> 1]
    /\ UNCHANGED <<bucket, held, result>>

Entry == job.tis[job.i]
At(place) == job' = [job EXCEPT !.pc = place]
Forward(m) == /\ Store(m)
            /\ job' = [job EXCEPT !.pc = "yield", !.i = @ + 1]
Forgotten(m) == /\ Store(Unref(m, Entry))
            /\ job' = [job EXCEPT !.pc = "yield", !.i = @ + 1, !.tis[job.i] = Null]

\* faulty: the entry stays in the hash
StatKeeps ==
    /\ job.pc = "yield" /\ job.i <= Len(job.tis)
    /\ \/ ~job.force /\ Forgotten(Now)
       \/ \E place \in {"changed", "deleted"} : At(place) /\ UNCHANGED <<ti, bucket>>
    /\ UNCHANGED <<held, result>>

\* after cache_yield: stat, and out of the hash unless the file is unchanged
Stat ==
    /\ job.pc = "yield" /\ job.i <= Len(job.tis)
    /\ \/ ~job.force /\ Forgotten(Now)
       \/ \E place \in {"changed", "deleted"} : Store(RemovedTi(Now, Entry)) /\ At(place)
    /\ UNCHANGED <<held, result>>

\* faulty: the reference of the cache is not known to be gone already
UniqueWithCache(t) == ti[t].refs <= 2

\* track_info_unique_ref
Unique(t) == ti[t].refs = 1

\* a track that only the cache had is not read again by force
ForcedUnique ==
    /\ job.pc = "changed"
    /\ IF job.force /\ Unique(Entry) THEN Forgotten(Now) ELSE At("read") /\ UNCHANGED <<ti, bucket>>
    /\ UNCHANGED <<held, result>>

\* ip_get_ti
Read ==
    /\ job.pc = "read"
    /\ \/ Len(ti) < MaxTracks /\ Store(WithNew(Now, ti[Entry].file)) /\ At("new")
       \/ At("deleted") /\ UNCHANGED <<ti, bucket>>
    /\ UNCHANGED <<held, result>>

\* faulty: the new track goes into the result without a reference of its own
TellWithoutRef ==
    /\ job.pc \in {"new", "deleted"}
    /\ IF Unique(Entry) THEN Forgotten(Now)
       ELSE Forward([Now EXCEPT !.ti[Entry].next = IF job.pc = "new" THEN Len(ti) ELSE Null])
    /\ UNCHANGED <<held, result>>

\* nobody else has the track: nobody is told. Otherwise the result holds a
\* reference on the old track and on the new one
Tell ==
    /\ job.pc \in {"new", "deleted"}
    /\ IF Unique(Entry) THEN Forgotten(Now)
       ELSE IF job.pc = "new" THEN Forward(Ref([Now EXCEPT !.ti[Entry].next = Len(ti)], Len(ti)))
       ELSE Forward([Now EXCEPT !.ti[Entry].next = Null])
    /\ UNCHANGED <<held, result>>

EndRefresh ==
    /\ job.pc = "yield" /\ job.i > Len(job.tis)
    /\ result' = Append(result, [kind |-> "update", tis |-> job.tis, i |-> 1])
    /\ job' = Idle
    /\ UNCHANGED <<ti, bucket, held>>

-----------------------------------------------------------------------------
(* The main thread. The cache lock is free when the worker is idle or yields *)

LockIsFree == job.pc \in {"idle", "yield"}

\* the main thread does nothing else while it handles an update
MainIsFree == result # <<>> => Head(result).i = 1

\* termus_play_file, and resume: the list or the player keeps the reference
GetFile ==
    /\ LockIsFree /\ MainIsFree /\ Len(ti) < MaxTracks
    /\ \E f \in Filename : \E g \in GetTi(f, FALSE) :
        /\ g.t # Null /\ held[g.t] < MaxCopies
        /\ Store(g.m) /\ held' = [held EXCEPT ![g.t] = @ + 1]
    /\ UNCHANGED <<job, result>>

\* a list or a thread of the player drops a track, or another one takes it too
DropTrack ==
    \E t \in DOMAIN ti :
        /\ held[t] > 0 /\ held' = [held EXCEPT ![t] = @ - 1] /\ Store(Unref(Now, t))
        /\ UNCHANGED <<job, result>>
CopyTrack ==
    \E t \in DOMAIN ti :
        /\ held[t] \in 1..MaxCopies - 1
        /\ held' = [held EXCEPT ![t] = @ + 1] /\ Store(Ref(Now, t))
        /\ UNCHANGED <<job, result>>

\* job_handle_update_result: a file of the library is gone or has changed
RemoveFromCache ==
    \E t \in DOMAIN ti :
        /\ LockIsFree /\ MainIsFree /\ held[t] > 0
        /\ Store(Unref(RemovedTi(Now, t), t))
        /\ held' = [held EXCEPT ![t] = @ - 1]
        /\ UNCHANGED <<job, result>>

HandleAdd ==
    /\ result # <<>> /\ Head(result).kind = "add"
    /\ LET t == Head(result).tis[1]
       IN  held[t] < MaxCopies /\ held' = [held EXCEPT ![t] = @ + 1]
    /\ result' = Tail(result)
    /\ UNCHANGED <<ti, bucket, job>>

\* the lists that have old get new instead, n times; when the file is gone they
\* drop old, and the player may keep it. Then the references of the result go
Replaced(old, new, n) ==
    [t \in DOMAIN ti |->
        [ti[t] EXCEPT !.refs = @ - (IF t = old THEN n + 1 ELSE 0) + (IF t = new THEN n - 1 ELSE 0)]]

\* job_handle_update_cache_result: one entry
HandleEntry ==
    /\ result # <<>> /\ Head(result).kind = "update" /\ Head(result).i <= Len(Head(result).tis)
    /\ LET old == Head(result).tis[Head(result).i]
           new == ti[old].next
       IN  \/ old = Null /\ UNCHANGED <<ti, held>>
           \/ \E stays \in {0, 1} :
                /\ old # Null /\ (stays = 1 => new = Null /\ held[old] > 0)
                /\ ti' = Replaced(old, new, held[old] - stays)
                /\ held' = [t \in Ids |-> IF t = old THEN stays
                                          ELSE IF t = new THEN held[t] + held[old] ELSE held[t]]
    /\ result' = [result EXCEPT ![1].i = @ + 1]
    /\ UNCHANGED <<bucket, job>>

\* and its end
EndUpdate ==
    /\ result # <<>> /\ Head(result).kind = "update" /\ Head(result).i > Len(Head(result).tis)
    /\ result' = Tail(result)
    /\ UNCHANGED <<ti, bucket, held, job>>

-----------------------------------------------------------------------------
CacheNext ==
    \/ AddFile \/ StartRefresh \/ Stat \/ ForcedUnique \/ Read \/ Tell \/ EndRefresh
    \/ GetFile \/ DropTrack \/ CopyTrack \/ RemoveFromCache \/ HandleAdd \/ HandleEntry \/ EndUpdate

CacheSpec == CacheInit /\ [][CacheNext]_cvars

-----------------------------------------------------------------------------
(* Properties. *)

\* what the main thread has still to handle, and behind it the running job
Pending == Append(result, [kind |-> "job", tis |-> job.tis, i |-> 1])

\* the entries of Pending that hold a reference on a track; those that were found
\* changed hold one on the new track, too
Old(e) == Pending[e[1]].tis[e[2]]
Entries ==
    {e \in UNION {{k} \X (Pending[k].i..Len(Pending[k].tis)) : k \in DOMAIN Pending} : Old(e) # Null}
Told(e) ==
    \/ Pending[e[1]].kind = "update"
    \/ Pending[e[1]].kind = "job" /\ e[2] < job.i
New(e) == IF Told(e) THEN ti[Old(e)].next ELSE Null
GivenBack(t) ==
    Cardinality({e \in Entries : Old(e) = t}) + Cardinality({e \in Entries : New(e) = t})

CacheTypeOK ==
    /\ Len(ti) <= MaxTracks /\ bucket \in 0..Len(ti)
    /\ \A t \in DOMAIN ti : ti[t].refs >= 0 /\ ti[t].next \in 0..Len(ti) /\ ti[t].file \in Filename
    /\ held \in [Ids -> Nat]

\* A track_info has as many references as there are holders: fewer, and
\* somebody uses freed memory; more, and it is never freed.
RefsAreCounted ==
    \A t \in DOMAIN ti :
        ti[t].refs = held[t] + GivenBack(t) + (IF IsCached(t) THEN 1 ELSE 0)

\* The chain of the cache holds no track twice and no freed one: the field next
\* that links it is not the one that a result has overwritten.
ChainIsSound == IsInjective(Chain) /\ \A t \in ToSet(Chain) : ti[t].refs > 0

\* Every track_info has as many references as holders, and the chain of the cache
\* holds none twice and none that was freed (cache_refresh, track_info_unref).
CacheIsSound == CacheTypeOK /\ RefsAreCounted /\ ChainIsSound

\* A track that a list holds and the cache gave up is told to the lists: it is
\* in the running job or in a pending result, unless the main thread took it
\* out itself. This is what "unique" decides on, before others look again.
EveryChangeIsTold ==
    [][ (job.pc \in {"changed", "new", "deleted"} /\ job'.pc = "yield"
            /\ job'.tis[job.i] = Null)
        => held[Entry] = 0 /\ \A e \in Entries : e[1] \in DOMAIN result => Entry \notin {Old(e), New(e)}
      ]_cvars
=============================================================================
