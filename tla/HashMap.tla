------------------------------- MODULE HashMap -------------------------------
(***************************************************************************)
(* The chained hash table of map/hash_map.c, used by several threads.      *)
(*                                                                         *)
(* The server keeps three of these tables and its threads call put and get *)
(* on them without any lock, so a step here is one store to shared memory  *)
(* with the loads right before it that decide it (or one load, when other  *)
(* threads can overtake the caller after it); loads of one word in a row   *)
(* count as one, and m->nentries++ as one store. Memory is explicit:       *)
(* entries and bucket arrays are heap blocks, m->entries, m->size and      *)
(* m->nentries are separate words. An access the C standard leaves         *)
(* undefined (a slot outside its array, a block not yet initialised or     *)
(* already freed) yields what the build can yield: NULL, the stale         *)
(* content, or a pointer whose use stops the process (crashed).            *)
(***************************************************************************)
EXTENDS Naturals, Sequences, FiniteSets

CONSTANTS
  Key,          \* keys; m->cmp (strcmp) orders them like the naturals
  Value,        \* values, pointers other than NULL
  Hash,         \* Hash[k]: murmur3 of k, before the final "% m->size"
  InitialSize,  \* INITIAL_SIZE
  Entry,        \* blocks malloc gives for entries: bounds the puts of a run
  Array,        \* blocks malloc gives for bucket arrays: bounds the rehashes
  Thread,       \* the threads that call hash_map_get
  Writer,       \* those that call hash_map_put too
  NULL,
  Junk          \* the content of memory nobody initialised

ASSUME KeyAssumption == Key \subseteq Nat /\ Hash \in [Key -> Nat]
ASSUME SizeAssumption == InitialSize \in Nat \ {0}
ASSUME ThreadAssumption == Writer \subseteq Thread
ASSUME NullAssumption ==
  /\ NULL \notin Entry \cup Array \cup Key \cup Value
  /\ Junk \notin Entry \cup {NULL}
ASSUME HeapAssumption == Array # {}

VARIABLES
  nentries, size, entries,  \* the three words of *m that change
  arr, live,                \* content of each bucket array; arrays not freed
  key, value, next, mem,    \* fields of each entry; "fresh", "used", "freed"
  pc,                       \* what each thread does next
  want,                     \* key of the get in progress
  res,                      \* what the last get returned
  ask,                      \* parameter size of a hash_map_rehash that begins
  saved,                    \* its old_entries, till it has old_size as well
  stack,                    \* activations of hash_map_put_entry, inner first
  idx, base, prev, cur,     \* locals: index, array loaded, previous, current
  crashed

mvars == <<nentries, size, entries>>
avars == <<arr, live>>
nvars == <<key, value, next, mem>>
gvars == <<want, res, ask, saved>>
lvars == <<idx, base, prev, cur>>
vars  == <<mvars, avars, nvars, pc, gvars, stack, lvars, crashed>>

(* One activation: the entry put_entry inserts and, while it rehashes, the *)
(* locals of hash_map_rehash (todo is its loop variable "entry").          *)
Activation(e, old, n, i, p) ==
  [entry |-> e, old |-> old, n |-> n, i |-> i, todo |-> p]
Frame(e) == Activation(e, NULL, 0, 0, NULL)

Putting(t) == stack[t] # << >>
Ins(t)     == Head(stack[t]).entry
Target(t)  == IF Putting(t) THEN key[Ins(t)] ELSE want[t]

SetTop(t, f)  == [stack EXCEPT ![t] = <<f>> \o Tail(@)]
Goto(t, l)    == pc' = [pc EXCEPT ![t] = l]

(* The locals of a call are dead once it returns.                          *)
Forget(t) ==
  /\ idx' = [idx EXCEPT ![t] = 0]   /\ base' = [base EXCEPT ![t] = NULL]
  /\ prev' = [prev EXCEPT ![t] = NULL] /\ cur' = [cur EXCEPT ![t] = NULL]

Usable(p) == p \in Entry /\ mem[p] = "used"

(* What loading a[i] can give.                                             *)
Load(a, i) ==
  IF i \in DOMAIN arr[a]
  THEN {arr[a][i]} \cup (IF a \in live /\ arr[a][i] # Junk THEN {} ELSE {NULL, Junk})
  ELSE {NULL, Junk}

Init ==
  LET a0 == CHOOSE a \in Array : TRUE IN
  /\ nentries = 0 /\ size = InitialSize /\ entries = a0
  /\ arr = [a \in Array |-> IF a = a0 THEN [i \in 0..(InitialSize-1) |-> NULL]
                                      ELSE [i \in {} |-> NULL]]
  /\ live = {a0}
  /\ key = [e \in Entry |-> NULL] /\ value = [e \in Entry |-> NULL]
  /\ next = [e \in Entry |-> NULL] /\ mem = [e \in Entry |-> "fresh"]
  /\ pc = [t \in Thread |-> "idle"]
  /\ want = [t \in Thread |-> NULL] /\ res = [t \in Thread |-> NULL]
  /\ ask = [t \in Thread |-> 0] /\ saved = [t \in Thread |-> NULL]
  /\ stack = [t \in Thread |-> << >>]
  /\ idx = [t \in Thread |-> 0] /\ base = [t \in Thread |-> NULL]
  /\ prev = [t \in Thread |-> NULL] /\ cur = [t \in Thread |-> NULL]
  /\ crashed = FALSE
-----------------------------------------------------------------------------
(* What the operations compare and store.  Some are preceded by a slip one *)
(* could make in the code; a property below catches each.                  *)

(* A get passes every other key, a put every smaller one.                  *)
PassesAsGet(t) == key[cur[t]] # Target(t)
Passes(t)      == IF Putting(t) THEN key[cur[t]] < Target(t) ELSE key[cur[t]] # Target(t)

(* current = current->next                                                 *)
SameAgain(t) == cur[t]
Following(t) == next[cur[t]]

(* create_entry: entry->next                                               *)
UnsetNext == Junk
NewNext   == NULL

(* hash_map_put_entry: current->value = entry->value                       *)
KeptValue(w) == value
NewValue(w)  == [value EXCEPT ![cur[w]] = value[Ins(w)]]

(* init_hash_map: m->nentries                                              *)
KeptCount == nentries
NewCount  == 0

(* hash_map_rehash: temp = entry->next, read before entry->next is cleared; *)
(* entry->next = NULL; free(old_entries)                                   *)
TempTooLate(e) == NULL
Temp(e)        == next[e]
Detached(e)    == [next EXCEPT ![e] = NULL]
Leaked(a)      == live
FreesNew(a)    == live \ {entries}
Released(a)    == live \ {a}

(* Back to the caller: hash_map_put, or the loop of hash_map_rehash.       *)
Return(t) ==
  /\ stack' = [stack EXCEPT ![t] = Tail(@)]
  /\ Goto(t, IF Len(stack[t]) = 1 THEN "idle" ELSE "scan")
  /\ Forget(t)
-----------------------------------------------------------------------------
(* Calls.                                                                  *)

(* hash_map_put: create_entry fills a block nobody else can see yet.       *)
Put(w, k, v) ==
  /\ pc[w] = "idle"
  /\ \E e \in Entry : mem[e] = "fresh"
  /\ LET e == CHOOSE x \in Entry : mem[x] = "fresh" IN
     /\ key' = [key EXCEPT ![e] = k]
     /\ value' = [value EXCEPT ![e] = v]
     /\ next' = [next EXCEPT ![e] = NewNext]
     /\ mem' = [mem EXCEPT ![e] = "used"]
     /\ stack' = [stack EXCEPT ![w] = <<Frame(e)>>]
  /\ Goto(w, "check")
  /\ UNCHANGED <<mvars, avars, gvars, lvars, crashed>>

Get(t, k) ==
  /\ pc[t] = "idle"
  /\ want' = [want EXCEPT ![t] = k]
  /\ res' = [res EXCEPT ![t] = NULL]
  /\ Goto(t, "index")
  /\ UNCHANGED <<mvars, avars, nvars, ask, saved, stack, lvars, crashed>>
-----------------------------------------------------------------------------
(* Finding a place: calculate_hash, the load of m->entries, that of the    *)
(* bucket's head, then the walk down the chain, shared by get and put.     *)
(* Both load the head twice, to test it and to use it.  For a get that is  *)
(* one load: found NULL by either it returns NULL, else it goes on from    *)
(* what the second gave.  A put that finds NULL only at the second reads   *)
(* through it: see Faulty.                                                 *)

(* calculate_hash: m->size is read here, m->entries only later.            *)
Index(t) ==
  /\ pc[t] = "index"
  /\ idx' = [idx EXCEPT ![t] = Hash[Target(t)] % size]
  /\ Goto(t, "base")
  /\ UNCHANGED <<mvars, avars, nvars, gvars, stack, base, prev, cur, crashed>>

Base(t) ==
  /\ pc[t] = "base"
  /\ base' = [base EXCEPT ![t] = entries]
  /\ Goto(t, "head")
  /\ UNCHANGED <<mvars, avars, nvars, gvars, stack, idx, prev, cur, crashed>>

HeadOf(t) ==
  /\ pc[t] = "head"
  /\ \E p \in Load(base[t], idx[t]) : cur' = [cur EXCEPT ![t] = p]
  /\ prev' = [prev EXCEPT ![t] = NULL]
  /\ Goto(t, "walk")
  /\ UNCHANGED <<mvars, avars, nvars, gvars, stack, idx, base, crashed>>

Advance(t) ==
  /\ pc[t] = "walk" /\ Usable(cur[t]) /\ Passes(t)
  /\ prev' = [prev EXCEPT ![t] = cur[t]]
  /\ cur' = [cur EXCEPT ![t] = Following(t)]
  /\ UNCHANGED <<mvars, avars, nvars, pc, gvars, stack, idx, base, crashed>>

(* The return statements of hash_map_get.                                  *)
Answer(t) ==
  /\ pc[t] = "walk" /\ ~Putting(t)
  /\ \/ cur[t] = NULL /\ res' = [res EXCEPT ![t] = NULL]
     \/ /\ Usable(cur[t]) /\ key[cur[t]] = want[t]
        /\ res' = [res EXCEPT ![t] = value[cur[t]]]
  /\ want' = [want EXCEPT ![t] = NULL]
  /\ Goto(t, "idle") /\ Forget(t)
  /\ UNCHANGED <<mvars, avars, nvars, ask, saved, stack, crashed>>
-----------------------------------------------------------------------------
(* hash_map_put_entry once the place is known.                             *)

(* The store that makes the entry reachable: in the slot when there is no  *)
(* previous entry, in previous->next otherwise.  The entry's own next is   *)
(* still NULL: the code stores it afterwards.                              *)
Publish(w) ==
  /\ pc[w] = "walk" /\ Putting(w)
  /\ cur[w] = NULL \/ (Usable(cur[w]) /\ key[cur[w]] > Target(w))
  /\ prev[w] = NULL \/ Usable(prev[w])
  /\ IF prev[w] = NULL
     THEN /\ arr' = [arr EXCEPT ![entries] =
                       [i \in DOMAIN @ |-> IF i = idx[w] THEN Ins(w) ELSE @[i]]]
          /\ UNCHANGED next
     ELSE /\ next' = [next EXCEPT ![prev[w]] = Ins(w)]
          /\ UNCHANGED arr
  /\ Goto(w, IF cur[w] = NULL THEN "count" ELSE "link")
  /\ UNCHANGED <<mvars, live, key, value, mem, gvars, stack, lvars, crashed>>

Link(w) ==
  /\ pc[w] = "link"
  /\ next' = [next EXCEPT ![Ins(w)] = cur[w]]
  /\ Goto(w, "count")
  /\ UNCHANGED <<mvars, avars, key, value, mem, gvars, stack, lvars, crashed>>

Count(w) ==
  /\ pc[w] = "count"
  /\ nentries' = nentries + 1
  /\ Return(w)
  /\ UNCHANGED <<size, entries, avars, nvars, gvars, crashed>>

(* The key is there already: its value is replaced, the new entry freed.   *)
Replace(w) ==
  /\ pc[w] = "walk" /\ Putting(w)
  /\ Usable(cur[w]) /\ key[cur[w]] = Target(w)
  /\ value' = NewValue(w)
  /\ mem' = [mem EXCEPT ![Ins(w)] = "freed"]
  /\ Return(w)
  /\ UNCHANGED <<mvars, avars, key, next, gvars, crashed>>
-----------------------------------------------------------------------------
(* hash_map_rehash.                                                        *)

(* m->nentries >= m->size / 2, and m->size * 2 for the call.               *)
Full == nentries >= size \div 2

Check(w) ==
  /\ pc[w] = "check"
  /\ ask' = IF Full THEN [ask EXCEPT ![w] = 2 * size] ELSE ask
  /\ Goto(w, IF Full THEN "save" ELSE "index")
  /\ UNCHANGED <<mvars, avars, nvars, want, res, saved, stack, lvars, crashed>>

Save(w) ==
  /\ pc[w] = "save"
  /\ saved' = [saved EXCEPT ![w] = entries]
  /\ Goto(w, "grow")
  /\ UNCHANGED <<mvars, avars, nvars, want, res, ask, stack, lvars, crashed>>

(* old_size is loaded, then init_hash_map clears nentries, stores the new  *)
(* size, the new array, and zeroes whatever array and length *m names by   *)
(* then.                                                                   *)
Grow(w) ==
  /\ pc[w] = "grow"
  /\ stack' = SetTop(w, Activation(Ins(w), saved[w], size, 0, NULL))
  /\ saved' = [saved EXCEPT ![w] = NULL]
  /\ nentries' = NewCount
  /\ Goto(w, "resize")
  /\ UNCHANGED <<size, entries, avars, nvars, want, res, ask, lvars, crashed>>

Resize(w) ==
  /\ pc[w] = "resize"
  /\ size' = ask[w]
  /\ Goto(w, "alloc")
  /\ UNCHANGED <<nentries, entries, avars, nvars, gvars, stack, lvars, crashed>>

Unallocated == {a \in Array : DOMAIN arr[a] = {}}

Alloc(w) ==
  /\ pc[w] = "alloc" /\ Unallocated # {}
  /\ LET a == CHOOSE x \in Unallocated : TRUE IN
     /\ arr' = [arr EXCEPT ![a] = [i \in 0..(ask[w] - 1) |-> Junk]]
     /\ live' = live \cup {a}
     /\ entries' = a
  /\ ask' = [ask EXCEPT ![w] = 0]
  /\ Goto(w, "zero")
  /\ UNCHANGED <<nentries, size, nvars, want, res, saved, stack, lvars, crashed>>

Zero(w) ==
  /\ pc[w] = "zero"
  /\ arr' = [arr EXCEPT ![entries] = [i \in DOMAIN @ |-> IF i < size THEN NULL ELSE @[i]]]
  /\ Goto(w, "scan")
  /\ UNCHANGED <<mvars, live, nvars, gvars, stack, lvars, crashed>>

(* The two loops: take the next bucket of the old array, then move its     *)
(* entries one at a time, each by a nested hash_map_put_entry.             *)
Scan(w) ==
  LET f == Head(stack[w]) IN
  /\ pc[w] = "scan" /\ f.todo = NULL /\ f.i < f.n
  /\ \E p \in Load(f.old, f.i) : 
       stack' = SetTop(w, Activation(f.entry, f.old, f.n, f.i + 1, p))
  /\ UNCHANGED <<mvars, avars, nvars, pc, gvars, lvars, crashed>>

Move(w) ==
  LET f == Head(stack[w]) IN
  /\ pc[w] = "scan" /\ Usable(f.todo)
  /\ next' = Detached(f.todo)
  /\ stack' = [stack EXCEPT ![w] =
                 <<Frame(f.todo), Activation(f.entry, f.old, f.n, f.i, Temp(f.todo))>>
                 \o Tail(@)]
  /\ Goto(w, "check")
  /\ UNCHANGED <<mvars, avars, key, value, mem, gvars, lvars, crashed>>

FreeOld(w) ==
  LET f == Head(stack[w]) IN
  /\ pc[w] = "scan" /\ f.todo = NULL /\ f.i = f.n /\ f.old \in live
  /\ live' = Released(f.old)
  /\ Goto(w, "index")
  /\ UNCHANGED <<mvars, arr, nvars, gvars, stack, lvars, crashed>>
-----------------------------------------------------------------------------
(* The undefined accesses that can stop the process: a pointer that is not *)
(* an entry in use, a store outside the array, a head that is NULL when    *)
(* hash_map_put_entry loads it again, a second free.                       *)
Bad(p) == p # NULL /\ ~Usable(p)

Faulty(t) ==
  \/ /\ pc[t] = "walk"
     /\ \/ Bad(cur[t])
        \/ Putting(t) /\ Bad(prev[t])
        \/ Putting(t) /\ prev[t] = NULL /\ idx[t] \notin DOMAIN arr[entries]
        \/ /\ Putting(t) /\ prev[t] = NULL /\ cur[t] # NULL
           /\ NULL \in Load(base[t], idx[t]) \cup Load(entries, idx[t])
  \/ /\ pc[t] = "scan"
     /\ LET f == Head(stack[t]) IN
        \/ Bad(f.todo)
        \/ f.todo = NULL /\ f.i = f.n /\ f.old \notin live
  \/ pc[t] = "zero" /\ size - 1 \notin DOMAIN arr[entries]

Fault(t) ==
  /\ Faulty(t)
  /\ crashed' = TRUE
  /\ UNCHANGED <<mvars, avars, nvars, pc, gvars, stack, lvars>>

PutStep(w) ==
  \/ Publish(w) \/ Link(w) \/ Count(w) \/ Replace(w)
  \/ Check(w) \/ Save(w) \/ Grow(w) \/ Resize(w) \/ Alloc(w) \/ Zero(w)
  \/ Scan(w) \/ Move(w) \/ FreeOld(w)

Step(t) ==
  \/ Index(t) \/ Base(t) \/ HeadOf(t) \/ Advance(t) \/ Answer(t) \/ Fault(t)
  \/ t \in Writer /\ PutStep(t)

Next ==
  /\ ~crashed
  /\ \/ \E w \in Writer, k \in Key, v \in Value : Put(w, k, v)
     \/ \E t \in Thread, k \in Key : Get(t, k)
     \/ \E t \in Thread : Step(t)

Spec == Init /\ [][Next]_vars

(* A thread that is not descheduled for ever finishes what it is doing.    *)
FairSpec == Spec /\ \A t \in Thread : WF_vars(Step(t))
-----------------------------------------------------------------------------
(* Properties of the heap.                                                 *)

EntryOrNull == Entry \cup {NULL}
PtrDom      == Entry \cup {NULL, Junk}
FrameDom    == [entry : Entry, old : Array \cup {NULL}, n : Nat, i : Nat, todo : PtrDom]

(* Every variable holds a value of its C type (a pointer may be Junk only  *)
(* where the code can load memory it did not initialise).                  *)
TypeOK ==
  /\ nentries \in Nat /\ size \in Nat \ {0} /\ entries \in Array
  /\ DOMAIN arr = Array /\ \A a \in Array : \A i \in DOMAIN arr[a] : arr[a][i] \in PtrDom
  /\ live \subseteq Array
  /\ key \in [Entry -> Key \cup {NULL}] /\ value \in [Entry -> Value \cup {NULL}]
  /\ next \in [Entry -> EntryOrNull] /\ mem \in [Entry -> {"fresh", "used", "freed"}]
  /\ pc \in [Thread -> {"idle", "index", "base", "head", "walk", "link", "count",
                        "check", "save", "grow", "resize", "alloc", "zero", "scan"}]
  /\ want \in [Thread -> Key \cup {NULL}] /\ res \in [Thread -> Value \cup {NULL}]
  /\ ask \in [Thread -> Nat] /\ saved \in [Thread -> Array \cup {NULL}]
  /\ stack \in [Thread -> Seq(FrameDom)]
  /\ idx \in [Thread -> Nat] /\ base \in [Thread -> Array \cup {NULL}]
  /\ prev \in [Thread -> EntryOrNull] /\ cur \in [Thread -> PtrDom]
  /\ crashed \in BOOLEAN

(* Along every chain the keys strictly ascend, whatever number of threads  *)
(* insert and rehash at once: the order hash_map_put_entry keeps and the   *)
(* reason no walk can go round in a circle.                                *)
ChainsAscend ==
  \A e \in Entry : next[e] # NULL => key[e] < key[next[e]]

(* The entries a walk from p meets.                                        *)
Chain(p) ==
  LET met[n \in 0..Cardinality(Entry)] ==
        IF n = 0 THEN {p} \cap Entry
                 ELSE met[n-1] \cup ({next[e] : e \in met[n-1]} \cap Entry)
  IN met[Cardinality(Entry)]

InUse     == {e \in Entry : mem[e] = "used"}
Quiescent == \A w \in Writer : ~Putting(w)

(* The entries that count as stored: every entry in use but the one a put  *)
(* has created and not yet made reachable.                                 *)
Pending(w) == Putting(w) /\ ~(Len(stack[w]) = 1 /\ pc[w] \in {"link", "count"})
Outer(w)   == stack[w][Len(stack[w])].entry
Stored     == InUse \ {Outer(w) : w \in {x \in Writer : Pending(x)}}

(* Between two puts every entry hangs in the one bucket its key hashes to  *)
(* under the current size, no key has two entries, and nothing else hangs  *)
(* in the table: insertion and the rehash, which moves every entry, agree. *)
EveryEntryInPlace ==
  Quiescent =>
    /\ DOMAIN arr[entries] = 0..(size-1)
    /\ \A i \in 0..(size-1) :
         Chain(arr[entries][i]) = {e \in InUse : Hash[key[e]] % size = i}
    /\ \A d, e \in InUse : key[d] = key[e] => d = e

(* Between two puts m->nentries counts the entries, at most half as many   *)
(* as there are buckets, and only the current array is allocated.          *)
CountExact ==
  Quiescent => /\ nentries = Cardinality(InUse)
               /\ nentries <= size \div 2
               /\ live = {entries}

(* The rehash a put starts never starts another one.                       *)
RehashDoesNotNest ==
  \A w \in Writer : Cardinality({n \in DOMAIN stack[w] : stack[w][n].old # NULL}) <= 1

(* A pointer some later step may follow never names a freed entry, and the *)
(* writer never makes an access that can stop the process.                 *)
NoFreedEntryInReach ==
  /\ \A e \in InUse : next[e] = NULL \/ Usable(next[e])
  /\ \A t \in Thread : cur[t] \in Entry /\ pc[t] = "walk" => Usable(cur[t])
  /\ \A w \in Writer : ~Faulty(w)

(* A get in progress ends, whatever the other threads do.                  *)
GetReturns ==
  \A t \in Thread : (pc[t] # "idle" /\ ~Putting(t)) ~> (pc[t] = "idle" \/ crashed)
=============================================================================
