----------------------------- MODULE EventsTable -----------------------------
(***************************************************************************)
(* The hash table under worker->events (collections/mhash.h, instantiated  *)
(* by transport_collections.h) and the operations that the worker does     *)
(* with it.  Open addressing with double hashing: a slot is free or holds  *)
(* an entry, and is dirty when a collision chain goes on behind it.  When  *)
(* too many slots are used or dirty, entries move to a shadow table, a     *)
(* batch at every addition and deletion, until it takes the table's place. *)
(*                                                                         *)
(* Every call of start_resize by the worker ends with the smallest batch,  *)
(* as 256 exceeds n / 2^18 for all tables of fewer than 2^26 buckets.      *)
(***************************************************************************)
EXTENDS Integers, Sequences, FiniteSetsExt

CONSTANTS
  Key,       \* the values of user_data
  Version,   \* what tells two entries of one user_data apart: fd, timeout, timestamp
  HashOf,    \* user_data -> its low 32 bits, which do not cover the descriptor
  FdOf,      \* user_data -> descriptor
  Endless,   \* the keys of operations without a timeout (accepts)
  Primes,    \* __ac_prime_list: the numbers of buckets
  Batch,     \* slots moved by one step of a resize
  Reserved,  \* buffers_count: the entries the table is made for
  Standing   \* the keys of operations begun before, which stay under way

ASSUME KeyAssumption == IsFiniteSet(Key) /\ HashOf \in [Key -> Nat]
ASSUME PrimesAssumption ==
  /\ Primes \in Seq(Nat) /\ Primes # <<>> /\ Primes[1] >= 3
  /\ \A i, j \in DOMAIN Primes : i < j => Primes[i] < Primes[j]
  /\ \A i \in DOMAIN Primes : \A a, b \in 1..Primes[i] - 1 : (a * b) % Primes[i] # 0
\* The next table has room for the entries of a full one, or for all keys, and
\* for an addition with each step of the resize.
ASSUME RoomAssumption ==
  \A i \in DOMAIN Primes :
    Min({7 * Primes[i], 10 * Cardinality(Key)}) + 3 * Primes[i] + 9
      <= 7 * Primes[IF i < Len(Primes) THEN i + 1 ELSE i]
\* "Minimal batch must be greater or equal to 1 / (1 - f)"
ASSUME BatchAssumption == Batch \in Nat /\ 3 * Batch >= 10
ASSUME UseAssumption == Reserved \in Nat /\ Endless \subseteq Key /\ Standing \in Seq(Key)

VARIABLES
  table,    \* struct mh_events_t
  shadow,   \* table->shadow, the target of a resize
  fault,    \* "abort" after the sizes differed, "shadow" if the shadow must grow
  memory    \* whether malloc succeeds

eventsVars == <<table, shadow, fault, memory>>

-----------------------------------------------------------------------------
(* One table: at maps the slots in use to entries.                          *)

Upper(n) == (n * 7) \div 10

NewTable(n, prime) ==
  [n |-> n, prime |-> prime, at |-> [i \in {} |-> 0], dirty |-> {}, used |-> 0, size |-> 0, position |-> 0]

\* What the shadow is while nothing is resized.
NoTable == NewTable(0, 0)

Exist(t) == DOMAIN t.at

Holds(t, i, k) == i \in Exist(t) /\ t.at[i].key = k

\* The j-th slot that is tried for k: the increment depends on k as well.
Probe(t, k, j) == ((HashOf[k] % t.n) + j * (1 + (HashOf[k] % (t.n - 1)))) % t.n

\* mh_events_find and mh_events_get: the slot of k, or n.
Find(t, k) ==
  LET x == Probe(t, k, Min({j \in 0..t.n - 1 : Holds(t, Probe(t, k, j), k) \/ Probe(t, k, j) \notin t.dirty}))
  IN IF Holds(t, x, k) THEN x ELSE t.n

\* The slots that mh_events_put_slot tries for k: those in use by other keys
\* become dirty, up to the first that is not.  If that was freed inside a chain
\* it is used again, unless the key is found further down the chain.
Place(t, k) ==
  LET first == Min({j \in 0..t.n - 1 : Probe(t, k, j) \notin Exist(t) \/ Holds(t, Probe(t, k, j), k)})
      dirty == t.dirty \cup {Probe(t, k, j) : j \in 0..first - 1}
      end   == Min({j \in first..t.n - 1 : Probe(t, k, j) \notin dirty})
      hits  == IF Holds(t, Probe(t, k, first), k) THEN {first}
               ELSE {j \in first..end : Holds(t, Probe(t, k, j), k)}
  IN [slot |-> Probe(t, k, IF hits = {} THEN first ELSE Min(hits)),
      dirty |-> dirty,
      known |-> hits # {}]

\* The copy of the entry into its place.
Fill(t, e, p) ==
  [t EXCEPT !.at = [i \in DOMAIN @ \cup {p.slot} |-> IF i = p.slot THEN e ELSE @[i]],
            !.dirty = p.dirty,
            !.size = IF p.known THEN @ ELSE @ + 1,
            !.used = IF p.known \/ p.slot \in p.dirty THEN @ ELSE @ + 1]

\* Mutant: an entry that is known keeps its old contents.
PutSlotKeeping(t, e) ==
  IF \E i \in Exist(t) : t.at[i].key = e.key THEN t ELSE Fill(t, e, Place(t, e.key))

\* mh_events_put_slot, and the copy of the entry that both its callers make.
PutSlot(t, e) == Fill(t, e, Place(t, e.key))

\* Mutant: a dirty slot that is freed is no longer counted.
FreeSlotUncounted(t, x) ==
  IF x \notin Exist(t) THEN t
  ELSE [t EXCEPT !.at = [i \in DOMAIN @ \ {x} |-> @[i]], !.size = @ - 1, !.used = @ - 1]

\* mh_events_del of a table that is not resized.
FreeSlot(t, x) ==
  IF x \notin Exist(t) THEN t
  ELSE [t EXCEPT !.at = [i \in DOMAIN @ \ {x} |-> @[i]],
                 !.size = @ - 1,
                 !.used = IF x \in t.dirty THEN @ ELSE @ - 1]

-----------------------------------------------------------------------------
(* A table with its shadow: T has the fields h, s and fault.                *)

Resizing(T) == T.h.position > 0

\* The index of the next number of buckets, or of the largest one.
NextPrime(prime, atLeast) ==
  LET fit == {i \in prime..Len(Primes) : Primes[i] >= atLeast}
  IN IF fit = {} THEN Len(Primes) ELSE Min(fit)

Primed(t, p) == [t EXCEPT !.prime = p]

\* The shadow after the slots between two positions were moved to it.
Moved(T, from, to) ==
  LET s[i \in from..to] ==
        IF i = from THEN T.s
        ELSE IF i - 1 \in Exist(T.h) THEN PutSlot(s[i - 1], T.h.at[i - 1])
        ELSE s[i - 1]
  IN s[to]

\* A shadow that has got all slots takes the place of the table.
Exchange(T) ==
  IF T.h.position < T.h.n THEN T
  ELSE IF T.s.size # T.h.size THEN [T EXCEPT !.fault = "abort"]
  ELSE [T EXCEPT !.h = T.s, !.s = NoTable]

\* mh_events_resize: one batch of slots, and at the end the exchange.
ResizeStep(T) ==
  LET to == Min({T.h.position + Batch, T.h.n})
  IN Exchange([T EXCEPT !.h.position = to, !.s = Moved(T, T.h.position, to)])

\* mh_events_start_resize; ok: both allocations succeed.  If they fail, the
\* table keeps its buckets but not its prime.
StartResize(T, buckets, ok) ==
  LET p == NextPrime(T.h.prime, buckets)
  IN IF Resizing(T) \/ buckets < T.h.n THEN T
     ELSE IF ~ok THEN [T EXCEPT !.h = Primed(@, p)]
     ELSE ResizeStep([T EXCEPT !.h = Primed(@, p), !.s = NewTable(Primes[p], p)])

\* The shadow gets what is added during a resize.  Its own shadow would be
\* itself: it must not have to grow.
PutShadow(T, e) ==
  IF ~Resizing(T) \/ T.s.size = T.s.n THEN T
  ELSE IF T.s.used >= Upper(T.s.n) THEN [T EXCEPT !.fault = "shadow"]
  ELSE [T EXCEPT !.s = PutSlot(T.s, e)]

PutTable(T, e) == [T EXCEPT !.h = PutSlot(@, e)]

MustGrow(T) == ~Resizing(T) /\ T.h.used >= Upper(T.h.n)

\* An addition goes on with a resize, or begins one.
Grown(T, ok) ==
  IF Resizing(T) THEN ResizeStep(T)
  ELSE IF MustGrow(T) THEN StartResize(T, T.h.n + 1, ok)
  ELSE T

\* mh_events_put
Put(T, e, ok) ==
  IF T.h.size = T.h.n THEN T
  ELSE IF MustGrow(T) /\ ~ok THEN Grown(T, ok)
  ELSE PutTable(PutShadow(Grown(T, ok), e), e)

\* mh_events_del and mh_events_del_resize
Del(T, x) ==
  IF x \notin Exist(T.h) THEN T
  ELSE IF ~Resizing(T) THEN [T EXCEPT !.h = FreeSlot(@, x)]
  ELSE ResizeStep([T EXCEPT !.h = FreeSlot(@, x), !.s = FreeSlot(@, Find(@, T.h.at[x].key))])

\* Mutant: the loop over the collected indices ends one too early.
DelAllButLast(T, indices) ==
  LET d[i \in 0..T.h.n] ==
        IF i = 0 THEN T ELSE IF i - 1 \in indices THEN Del(d[i - 1], i - 1) ELSE d[i - 1]
  IN d[IF indices = {} THEN 0 ELSE Max(indices)]

\* The deletion of the entries that had these indices, in their order.
DelAll(T, indices) ==
  LET d[i \in 0..T.h.n] ==
        IF i = 0 THEN T ELSE IF i - 1 \in indices THEN Del(d[i - 1], i - 1) ELSE d[i - 1]
  IN d[T.h.n]

-----------------------------------------------------------------------------
(* The operations of the worker.                                            *)

Tables == [h |-> table, s |-> shadow, fault |-> fault]

Become(T) ==
  /\ fault = "none"
  /\ table' = T.h /\ shadow' = T.s /\ fault' = T.fault
  /\ UNCHANGED memory

\* mh_events_new and mh_events_reserve, whose failure is ignored.
Created(ok) ==
  StartResize([h |-> NewTable(Primes[1], 1), s |-> NoTable, fault |-> "none"],
              (Reserved * 10) \div 7, ok)

\* Some operations are under way.
Filled(ok) ==
  LET f[i \in 0..Len(Standing)] ==
        IF i = 0 THEN Created(ok) ELSE Put(f[i - 1], [key |-> Standing[i], ver |-> 0], TRUE)
  IN f[Len(Standing)]

Begins(T) == table = T.h /\ shadow = T.s /\ fault = T.fault

EventsInit ==
  /\ memory \in BOOLEAN
  /\ Begins(Filled(memory))

\* transport_worker_add_event, which ignores what mh_events_put returns.
AddEvent(k, v) == Become(Put(Tables, [key |-> k, ver |-> v], memory))

\* transport_worker_remove_event
RemoveEvent(k) ==
  /\ Find(table, k) # table.n
  /\ Become(Del(Tables, Find(table, k)))

\* The indices of the entries in E, which mh_foreach meets.
Collected(E) == {i \in Exist(table) : table.at[i].key \in E}

\* The loops of cancel_by_fd and of the timeout check.
Forget(E) == Become(DelAll(Tables, Collected(E)))

\* The user_data with an entry.
Tracked == {table.at[i].key : i \in Exist(table)}

OfFd(fd) == {k \in Key : FdOf[k] = fd}

\* transport_worker_cancel_by_fd
CancelByFd(fd) == Forget(OfFd(fd))

\* transport_worker_check_event_timeouts: any entry with a timeout may be due.
CheckEventTimeouts(E) == Forget(E)

MemoryChanges ==
  /\ memory' = ~memory
  /\ UNCHANGED <<table, shadow, fault>>

Changing == Key \ {Standing[i] : i \in DOMAIN Standing}

EventsNext ==
  \/ \E k \in Changing, v \in Version : AddEvent(k, v)
  \/ \E k \in Changing : RemoveEvent(k)
  \/ \E fd \in {FdOf[k] : k \in Changing} : CancelByFd(fd)
  \/ \E E \in SUBSET (Tracked \ Endless) : CheckEventTimeouts(E)
  \/ MemoryChanges

EventsSpec == EventsInit /\ [][EventsNext]_eventsVars

-----------------------------------------------------------------------------
Sound(t) ==
  /\ t.size = Cardinality(Exist(t))
  /\ t.used = Cardinality(Exist(t) \cup t.dirty)
  /\ t.used < t.n

CountersExact == fault = "none" /\ Sound(table) /\ (Resizing(Tables) => Sound(shadow))

EntriesFound ==
  \A t \in {table} \cup (IF Resizing(Tables) THEN {shadow} ELSE {}) :
    \A i \in Exist(t) : Find(t, t.at[i].key) = i

ShadowInStep ==
  Resizing(Tables) =>
    /\ \A i \in Exist(shadow) : \E j \in Exist(table) : table.at[j] = shadow.at[i]
    /\ \A j \in Exist(table) :
         j < table.position => \E i \in Exist(shadow) : shadow.at[i] = table.at[j]

\* The counters that every decision of the code rests on are exact, and some
\* slot is neither in use nor dirty, so that the loops of find, get and
\* put_slot (which have no other end) come to one.  Every entry is found by
\* its key, in the table and in its shadow: no addition or deletion of another
\* key breaks the chain that leads to it.  During a resize the shadow holds
\* current copies of what was moved and nothing that was deleted, so that the
\* abort() behind the resize is not reached and the shadow never has to grow.
TableSound == CountersExact /\ EntriesFound /\ ShadowInStep

\* The groups of entries that one call may be asked to forget.
Groups == {OfFd(fd) : fd \in {FdOf[k] : k \in Changing}} \cup SUBSET (Tracked \ Endless)

\* The entry whose key is in E is forgotten and no other.
Forgets(T, E) == {T.h.at[i].key : i \in Exist(T.h)} = Tracked \ E

ForgetsOrResized(T, E) == Forgets(T, E) \/ (Resizing(Tables) /\ ~Resizing(T))

\* In every state a removal would forget its entry only, and a cancellation
\* that completes no resize exactly the entries it is asked to: the others
\* keep their timeouts, and can be cancelled later.  (A cancellation that
\* completes a resize deletes the rest of its indices in a table where other
\* entries have these places.)
ForgetsExactly ==
  /\ \A k \in Tracked : Forgets(Del(Tables, Find(table, k)), {k})
  /\ \A E \in Groups : ForgetsOrResized(DelAll(Tables, Collected(E)), E)

\* The same without the exception, which the table does not keep.
ForgetsOnly == \A E \in Groups : Forgets(DelAll(Tables, Collected(E)), E)

Entries == [k \in Tracked |-> table.at[CHOOSE i \in Exist(table) : table.at[i].key = k].ver]

Abstract == INSTANCE EventSet WITH entries <- Entries

\* The table with its chains, its dirty slots and its resizes is the map of
\* EventSet: additions replace, removals remove, in whatever state it is.
ImplementsSet == Abstract!Spec
=============================================================================
