-------------------------- MODULE HashMapWalkProofs --------------------------
(***************************************************************************)
(* The list of the console and the destruction of a table, with one thread *)
(* that puts and any number that get: until main destroys it the table is  *)
(* what HashMapProofs shows; a list stands on no freed entry whatever it   *)
(* meets, and one that met no put prints every key once; the destruction   *)
(* frees every entry once, what it was told of its key and value, and the  *)
(* array.                                                                  *)
(*                                                                         *)
(* The invariant says of a quiet list what it has printed, and of the      *)
(* destruction what is left of the table, bucket by bucket.                *)
(***************************************************************************)
EXTENDS HashMapWalk, HashMapProofs

(* A bucket, between two puts.                                             *)
Slotted(j) == {e \in InUse : Slot(e, size) = j}

(* The entries a list that met no put has printed.                         *)
Done ==
  {e \in InUse :
     \/ Slot(e, size) < i
     \/ Slot(e, size) = i /\ doing = "print" /\ key[e] < key[entry]
     \/ Slot(e, size) = i /\ doing \in {"next", "follow"} /\ key[e] <= key[entry]}

(* Where such a list is, and what it has printed.                          *)
Listing ==
  /\ i \in 0..size /\ (doing # "scan" => i < size)
  /\ doing = "take" => arr[entries][i] # NULL
  /\ doing \in {"print", "next", "follow"} => entry \in Slotted(i)
  /\ doing = "follow" => next[entry] # NULL
  /\ listed \in Seq(Nat) /\ Len(listed) = Cardinality(Done)
  /\ {listed[n] : n \in DOMAIN listed} = {key[e] : e \in Done}

(* What is left to free of the entries, from the slot the destruction is at. *)
Remaining(s) ==
  /\ \A e \in InUse : Slot(e, size) \in s..(size - 1)
  /\ \A j \in i..(size - 1) : Listed(arr[entries][j], Slotted(j), next, key)

Freeing ==
  /\ TypeOK
  /\ crashed => "value" \in frees /\ stray # {}
  /\ InUse \subseteq doomed /\ freed = frees \X (doomed \ InUse)
  /\ i \in 0..size
  /\ Numbered(InUse, key) /\ Distinct(InUse, key)
  /\ doing # "gone" => live = {entries} /\ DOMAIN arr[entries] = 0..(size - 1)
  /\ doing = "bucket" => Remaining(i)
  /\ doing = "free" => i > 0 /\ Remaining(i - 1) /\ Listed(entry, Slotted(i - 1), next, key)
  /\ doing = "gone" => InUse = {} /\ live = {}

(* Inductive, with one writer.                                             *)
WalkInv(w) ==
  /\ doing \in {"idle", "scan", "peek", "take", "print", "next", "follow", "bucket", "free", "gone"}
  /\ ~Destroying => TableInv(w) /\ (entry \in Entry => entry \in Stored)
  /\ Walking /\ ~met => Quiescent /\ Listing
  /\ Destroying => Freeing
-----------------------------------------------------------------------------
(* A bucket loaded from the array that is allocated.                       *)
LEMMA LoadHead ==
  ASSUME NEW S, S \subseteq InUse, entries \in live, NEW j \in DOMAIN arr[entries],
         Listed(arr[entries][j], S, next, key), NEW p \in Load(entries, j)
  PROVE  p = arr[entries][j]
<1>1. arr[entries][j] \in S \cup {NULL}
  BY ListedIn
<1>2. arr[entries][j] # Junk
  BY <1>1, NullAssumption DEF InUse
<1> QED BY <1>2 DEF Load

(* The table between two puts, bucket by bucket.                           *)
LEMMA Buckets ==
  ASSUME NEW w, Writer = {w}, TableInv(w), Quiescent
  PROVE  /\ entries \in Array /\ size \in Nat \ {0} /\ live = {entries}
         /\ DOMAIN arr[entries] = 0..(size - 1)
         /\ \A j \in 0..(size - 1) : Listed(arr[entries][j], Slotted(j), next, key)
         /\ Distinct(InUse, key) /\ Numbered(InUse, key) /\ IsFiniteSet(InUse)
         /\ \A e \in InUse : Slot(e, size) \in 0..(size - 1)
<1>1. entries \in Array /\ size \in Nat \ {0}
  BY DEF TableInv, IInv, TypeOK
<1>2. \A e \in InUse : Slot(e, size) \in 0..(size - 1)
  BY <1>1, KeysOf, SlotIs DEF TableInv
<1>3. \A j : Slotted(j) = {e \in InUse : Hash[key[e]] % size = j}
  BY DEF Slotted, Slot
<1> QED BY <1>1, <1>2, <1>3, AtRest

(* The walk starts: nothing printed, nothing below the first slot.         *)
LEMMA WalkInit ==
  ASSUME NEW w, Writer = {w}
  PROVE  WInit => WalkInv(w)
<1> SUFFICES ASSUME WInit PROVE WalkInv(w)
  OBVIOUS
<1>1. Init => TableInv(w)
  <2>1. ASSUME Init PROVE Looking(w) /\ Asked(w)
    BY <2>1, ThreadAssumption DEF Init, Looking, Asked
  <2> QED BY <2>1, InitInv, InitTable DEF TableInv
<1> QED BY <1>1, NullAssumption DEF WInit, WalkInv, Destroying, Walking

(* The other threads, whatever they do.                                    *)
LEMMA OthersKeep ==
  ASSUME NEW w, Writer = {w}, WalkInv(w), ~crashed, Others
  PROVE  WalkInv(w)'
<1>0. /\ ~Destroying /\ Next /\ doing' = doing /\ i' = i /\ entry' = entry
      /\ met' = (met \/ (Walking /\ ~Quiescent'))
      /\ listed' = IF met' THEN << >> ELSE listed
  BY DEF Others
<1>1. TableInv(w) /\ TableInv(w)' /\ Stored \subseteq Stored'
  BY <1>0, StepTable, StoredGrows DEF WalkInv
<1>2. Destroying' = Destroying /\ Walking' = Walking
  BY <1>0 DEF Destroying, Walking
<1>3. ASSUME Walking', ~met' PROVE Quiescent' /\ Listing'
  <2>1. Walking /\ ~met /\ Quiescent' /\ listed' = listed
    BY <1>0, <1>2, <1>3
  <2>2. Quiescent /\ Listing
    BY <2>1 DEF WalkInv
  <2>3. UNCHANGED <<mvars, avars, nvars, stack>>
    BY <1>0, <1>1, <2>1, <2>2, QuietStep
  <2>4. InUse' = InUse /\ (\A e, n : Slot(e, n)' = Slot(e, n)) /\ size' = size /\ arr' = arr
        /\ entries' = entries /\ key' = key /\ next' = next
    BY <2>3 DEF InUse, Slot, mvars, avars, nvars
  <2>5. Done' = Done /\ \A j : Slotted(j)' = Slotted(j)
    BY <1>0, <2>4 DEF Done, Slotted
  <2>6. Listing'
    BY <1>0, <2>1, <2>2, <2>4, <2>5 DEF Listing, Slotted
  <2> QED BY <2>1, <2>6
<1> QED BY <1>0, <1>1, <1>2, <1>3 DEF WalkInv

(* What the steps of a list leave of the table.                            *)
LEMMA TableRests ==
  ASSUME NEW w, Writer = {w}, TableInv(w), UNCHANGED vars
  PROVE  TableInv(w)'
<1>1. IInv' /\ TInv(w)'
  BY StutterInv, StutterTable DEF TableInv
<1>2. Looking(w)' /\ Asked(w)'
  BY ElsewhereLooking, AskedStays DEF TableInv, vars, lvars
<1> QED BY <1>1, <1>2 DEF TableInv

(* And of what is said of it.                                              *)
LEMMA TableStays ==
  ASSUME UNCHANGED vars
  PROVE  /\ TypeOK => TypeOK'
         /\ Stored' = Stored /\ InUse' = InUse /\ Quiescent' = Quiescent
         /\ (\A e, n : Slot(e, n)' = Slot(e, n)) /\ \A j : Slotted(j)' = Slotted(j)
         /\ entries' = entries /\ size' = size /\ arr' = arr /\ next' = next /\ key' = key
         /\ live' = live /\ mem' = mem /\ crashed' = crashed
<1>1. /\ entries' = entries /\ size' = size /\ arr' = arr /\ next' = next /\ key' = key
      /\ live' = live /\ mem' = mem /\ crashed' = crashed /\ stack' = stack /\ pc' = pc
      /\ nentries' = nentries
  BY DEF vars, mvars, avars, nvars
<1>2. InUse' = InUse /\ Quiescent' = Quiescent /\ (\A e, n : Slot(e, n)' = Slot(e, n))
  BY <1>1 DEF InUse, Quiescent, Putting, Slot
<1>3. Stored' = Stored
  BY <1>1, <1>2 DEF Stored, Pending, Outer, Putting
<1>4. \A j : Slotted(j)' = Slotted(j)
  BY <1>1, <1>2 DEF Slotted
<1>5. TypeOK => TypeOK'
  BY DEF TypeOK, vars, mvars, avars, nvars, gvars, lvars
<1> QED BY <1>1, <1>2, <1>3, <1>4, <1>5
-----------------------------------------------------------------------------
(* The list begins.                                                        *)
LEMMA BeginKeeps ==
  ASSUME NEW w, Writer = {w}, WalkInv(w), ~crashed, Begin
  PROVE  WalkInv(w)'
<1>0. doing = "idle" /\ doing' = "scan" /\ i' = 0 /\ entry' = NULL /\ listed' = << >>
      /\ met' = ~Quiescent /\ UNCHANGED vars
  BY DEF Begin, FirstIndex
<1>1. ~Destroying /\ ~Destroying'
  BY <1>0 DEF Destroying
<1>2. TableInv(w) /\ TableInv(w)'
  BY <1>0, <1>1, TableRests DEF WalkInv
<1>3. ASSUME ~met' PROVE Quiescent' /\ Listing'
  <2>1. Quiescent /\ Quiescent' /\ size' = size /\ InUse' = InUse /\ \A e, n : Slot(e, n)' = Slot(e, n)
    BY <1>0, <1>3, TableStays
  <2>2. size \in Nat \ {0} /\ \A e \in InUse : Slot(e, size) \in 0..(size - 1)
    BY <1>2, <2>1, Buckets
  <2>3. Done' = {}
    BY <1>0, <2>1, <2>2 DEF Done
  <2> QED BY <1>0, <2>1, <2>2, <2>3, FS_EmptySet DEF Listing
<1> QED BY <1>0, <1>1, <1>2, <1>3, NullAssumption DEF WalkInv

(* The end of the loop, or one more slot.                                  *)
LEMMA ScanKeeps ==
  ASSUME NEW w, Writer = {w}, WalkInv(w), ~crashed, ScanSlots
  PROVE  WalkInv(w)'
<1>0. /\ doing = "scan" /\ UNCHANGED vars
      /\ IF i < size
         THEN doing' = "peek" /\ UNCHANGED <<i, entry, met, listed>>
         ELSE doing' = "idle" /\ i' = -1 /\ entry' = NULL /\ met' = FALSE /\ listed' = << >>
  BY DEF ScanSlots
<1>1. ~Destroying /\ Walking /\ ~Destroying'
  BY <1>0 DEF Destroying, Walking
<1>2. TableInv(w) /\ TableInv(w)' /\ Stored' = Stored /\ (entry \in Entry => entry \in Stored)
  BY <1>0, <1>1, TableRests, TableStays DEF WalkInv
<1>3. ASSUME i < size, ~met' PROVE Quiescent' /\ Listing'
  <2>1. Quiescent /\ Listing
    BY <1>0, <1>1, <1>3 DEF WalkInv
  <2>2. Quiescent' /\ size' = size /\ InUse' = InUse /\ (\A e, n : Slot(e, n)' = Slot(e, n))
        /\ key' = key
    BY <1>0, <2>1, TableStays
  <2>3. Done' = Done
    BY <1>0, <1>3, <2>2 DEF Done
  <2> QED BY <1>0, <1>3, <2>1, <2>2, <2>3 DEF Listing
<1> QED BY <1>0, <1>1, <1>2, <1>3, NullAssumption DEF WalkInv, Walking

(* The head of the bucket is looked at.                                    *)
LEMMA PeekKeeps ==
  ASSUME NEW w, Writer = {w}, WalkInv(w), ~crashed, Peek
  PROVE  WalkInv(w)'
<1>0. /\ doing = "peek" /\ UNCHANGED vars /\ entry' = entry /\ listed' = listed /\ met' = met
      /\ \E p \in Load(entries, i) : IF p # NULL THEN doing' = "take" /\ UNCHANGED i
                                                 ELSE doing' = "scan" /\ i' = i + 1
  BY DEF Peek, Found
<1>1. ~Destroying /\ Walking /\ ~Destroying' /\ doing' \in {"take", "scan"}
  BY <1>0 DEF Destroying, Walking
<1>2. TableInv(w) /\ TableInv(w)' /\ Stored' = Stored /\ (entry \in Entry => entry \in Stored)
  BY <1>0, <1>1, TableRests, TableStays DEF WalkInv
<1>3. ASSUME ~met PROVE Quiescent' /\ Listing'
  <2>1. Quiescent /\ Listing
    BY <1>1, <1>3 DEF WalkInv
  <2>2. Quiescent' /\ size' = size /\ InUse' = InUse /\ (\A e, n : Slot(e, n)' = Slot(e, n))
        /\ key' = key /\ arr' = arr /\ entries' = entries
    BY <1>0, <2>1, TableStays
  <2>3. /\ i \in 0..(size - 1) /\ size \in Nat \ {0} /\ live = {entries}
        /\ DOMAIN arr[entries] = 0..(size - 1)
        /\ Listed(arr[entries][i], Slotted(i), next, key)
        /\ NULL \notin InUse
        /\ \A e \in InUse : Slot(e, size) \in 0..(size - 1)
    <3>1. i \in 0..(size - 1)
      BY <1>0, <1>2, <2>1 DEF Listing, TableInv, IInv, TypeOK
    <3> QED BY <1>2, <2>1, <3>1, Buckets DEF Numbered
  <2>4. PICK p \in Load(entries, i) : IF p # NULL THEN doing' = "take" /\ UNCHANGED i
                                                  ELSE doing' = "scan" /\ i' = i + 1
    BY <1>0
  <2>5. p = arr[entries][i]
    <3>1. Slotted(i) \subseteq InUse
      BY DEF Slotted
    <3> QED BY <2>3, <2>4, <3>1, LoadHead
  <2>6. Done' = Done
    <3>1. CASE p # NULL
      BY <1>0, <2>2, <2>4, <3>1 DEF Done
    <3>2. CASE p = NULL
      <4>1. Slotted(i) = {}
        BY <2>3, <2>5, <3>2, ListedIn DEF Slotted
      <4>2. \A e \in InUse : Slot(e, size) < i + 1 <=> Slot(e, size) < i
        BY <2>3, <4>1 DEF Slotted
      <4> QED BY <1>0, <2>2, <2>4, <3>2, <4>2 DEF Done
    <3> QED BY <3>1, <3>2
  <2>7. i' \in 0..size' /\ (doing' # "scan" => i' < size')
    BY <2>2, <2>3, <2>4
  <2>8. doing' = "take" => arr'[entries'][i'] # NULL
    BY <2>2, <2>4, <2>5
  <2> QED BY <1>0, <1>1, <2>1, <2>2, <2>6, <2>7, <2>8 DEF Listing
<1> QED BY <1>0, <1>1, <1>2, <1>3 DEF WalkInv

(* And loaded again.                                                       *)
LEMMA TakeKeeps ==
  ASSUME NEW w, Writer = {w}, WalkInv(w), ~crashed, Take
  PROVE  WalkInv(w)'
<1>0. /\ doing = "take" /\ UNCHANGED vars /\ i' = i /\ listed' = listed /\ met' = met
      /\ doing' = "print"
  BY DEF Take
<1>p. PICK p \in Load(entries, i) : entry' = p
  BY DEF Take
<1>1. ~Destroying /\ Walking /\ ~Destroying'
  BY <1>0 DEF Destroying, Walking
<1>2. TableInv(w) /\ TableInv(w)' /\ Stored' = Stored
  BY <1>0, <1>1, TableRests, TableStays DEF WalkInv
<1>3. p \in Entry => p \in Stored
  <2>1. entries \in Array /\ NULL \notin Entry /\ Junk \notin Entry
    BY <1>2, NullAssumption DEF TableInv, IInv, TypeOK
  <2>2. p \in Entry => i \in DOMAIN arr[entries] /\ p = arr[entries][i]
    BY <2>1 DEF Load
  <2> QED BY <1>2, <2>1, <2>2 DEF TableInv, TInv, Reach
<1>4. ASSUME ~met PROVE Quiescent' /\ Listing'
  <2>1. Quiescent /\ Listing
    BY <1>1, <1>4 DEF WalkInv
  <2>2. Quiescent' /\ size' = size /\ InUse' = InUse /\ (\A e, n : Slot(e, n)' = Slot(e, n))
        /\ key' = key /\ \A j : Slotted(j)' = Slotted(j)
    BY <1>0, <2>1, TableStays
  <2>3. /\ i \in 0..(size - 1) /\ live = {entries} /\ DOMAIN arr[entries] = 0..(size - 1)
        /\ Listed(arr[entries][i], Slotted(i), next, key)
        /\ NULL \notin InUse /\ \A e \in InUse : key[e] \in Nat
    <3>1. i \in 0..(size - 1)
      BY <1>0, <1>2, <2>1 DEF Listing, TableInv, IInv, TypeOK
    <3> QED BY <1>2, <2>1, <3>1, Buckets DEF Numbered
  <2>4. p = arr[entries][i] /\ p # NULL
    <3>1. Slotted(i) \subseteq InUse
      BY DEF Slotted
    <3>2. arr[entries][i] # NULL
      BY <1>0, <2>1 DEF Listing
    <3> QED BY <2>3, <3>1, <3>2, LoadHead
  <2>5. p \in Slotted(i) /\ \A d \in Slotted(i) : key[p] <= key[d]
    BY <2>3, <2>4 DEF Listed, First
  <2>6. \A d \in InUse : Slot(d, size) = i => ~(key[d] < key[p])
    BY <2>3, <2>5 DEF Slotted
  <2>7. Done' = Done
    BY <1>0, <1>p, <2>2, <2>6 DEF Done
  <2> QED BY <1>0, <1>p, <2>1, <2>2, <2>5, <2>7 DEF Listing
<1> QED BY <1>0, <1>p, <1>1, <1>2, <1>3, <1>4 DEF WalkInv
-----------------------------------------------------------------------------
(* What an appended element adds to what a sequence holds.                 *)
LEMMA AppendHolds ==
  ASSUME NEW s \in Seq(Nat), NEW x \in Nat
  PROVE  /\ Append(s, x) \in Seq(Nat) /\ Len(Append(s, x)) = Len(s) + 1
         /\ {Append(s, x)[n] : n \in DOMAIN Append(s, x)} = {s[n] : n \in DOMAIN s} \cup {x}
<1> DEFINE r == Append(s, x)
<1>1. r \in Seq(Nat) /\ Len(r) = Len(s) + 1 /\ Len(s) \in Nat /\ r[Len(s) + 1] = x
      /\ \A n \in 1..Len(s) : r[n] = s[n]
  OBVIOUS
<1>2. DOMAIN r = 1..Len(s) + 1 /\ DOMAIN s = 1..Len(s)
  BY <1>1
<1> HIDE DEF r
<1>3. {r[n] : n \in 1..Len(s) + 1} = {s[n] : n \in 1..Len(s)} \cup {x}
  <2>1. ASSUME NEW n \in 1..Len(s) + 1 PROVE r[n] \in {s[m] : m \in 1..Len(s)} \cup {x}
    <3>1. n \in 1..Len(s) \/ n = Len(s) + 1
      BY <1>1
    <3> QED BY <1>1, <3>1
  <2>2. ASSUME NEW m \in 1..Len(s) PROVE s[m] \in {r[n] : n \in 1..Len(s) + 1}
    <3>1. m \in 1..Len(s) + 1 /\ r[m] = s[m]
      BY <1>1
    <3> QED BY <3>1
  <2>3. x \in {r[n] : n \in 1..Len(s) + 1}
    <3>1. Len(s) + 1 \in 1..Len(s) + 1
      BY <1>1
    <3> QED BY <1>1, <3>1
  <2> QED BY <2>1, <2>2, <2>3
<1> QED BY <1>1, <1>2, <1>3 DEF r

(* An entry is printed.                                                    *)
LEMMA PrintKeeps ==
  ASSUME NEW w, Writer = {w}, WalkInv(w), ~crashed, PrintEntry
  PROVE  WalkInv(w)'
<1>0. /\ doing = "print" /\ UNCHANGED vars /\ i' = i /\ entry' = entry /\ met' = met
      /\ doing' = "next" /\ listed' = IF met THEN << >> ELSE Append(listed, key[entry])
  BY DEF PrintEntry
<1>1. ~Destroying /\ Walking /\ ~Destroying'
  BY <1>0 DEF Destroying, Walking
<1>2. TableInv(w) /\ TableInv(w)' /\ Stored' = Stored /\ (entry \in Entry => entry \in Stored)
  BY <1>0, <1>1, TableRests, TableStays DEF WalkInv
<1>3. ASSUME ~met PROVE Quiescent' /\ Listing'
  <2>1. Quiescent /\ Listing
    BY <1>1, <1>3 DEF WalkInv
  <2>2. Quiescent' /\ size' = size /\ InUse' = InUse /\ (\A e, n : Slot(e, n)' = Slot(e, n))
        /\ key' = key /\ \A j : Slotted(j)' = Slotted(j)
    BY <1>0, <2>1, TableStays
  <2>3. IsFiniteSet(InUse) /\ Distinct(InUse, key) /\ \A e \in InUse : key[e] \in Nat
    BY <1>2, <2>1, Buckets DEF Numbered
  <2>4. entry \in InUse /\ Slot(entry, size) = i /\ i \in Nat
    BY <1>0, <2>1 DEF Listing, Slotted
  <2>5. ASSUME NEW e \in InUse, Slot(e, size) = i
        PROVE  key[e] <= key[entry] <=> key[e] < key[entry] \/ e = entry
    BY <2>3, <2>4 DEF Distinct
  <2>6. Done' = Done \cup {entry}
    BY <1>0, <2>2, <2>4, <2>5 DEF Done
  <2>7. entry \notin Done /\ IsFiniteSet(Done)
    <3>1. ~(i < i) /\ ~(key[entry] < key[entry])
      BY <2>3, <2>4
    <3>2. Done \subseteq InUse
      BY DEF Done
    <3> QED BY <1>0, <2>3, <2>4, <3>1, <3>2, FS_Subset DEF Done
  <2>8. Cardinality(Done \cup {entry}) = Cardinality(Done) + 1
    BY <2>7, FS_AddElement
  <2>9. listed' \in Seq(Nat) /\ Len(listed') = Len(listed) + 1
        /\ {listed'[n] : n \in DOMAIN listed'} = {listed[n] : n \in DOMAIN listed} \cup {key[entry]}
    BY <1>0, <1>3, <2>1, <2>3, <2>4, AppendHolds DEF Listing
  <2>10. {key[e] : e \in Done \cup {entry}} = {key[e] : e \in Done} \cup {key[entry]}
    OBVIOUS
  <2>11. {listed'[n] : n \in DOMAIN listed'} = {key'[e] : e \in Done'}
    BY <2>1, <2>2, <2>6, <2>9, <2>10 DEF Listing
  <2>12. Len(listed') = Cardinality(Done')
    BY <2>1, <2>6, <2>8, <2>9 DEF Listing
  <2>13. i' \in 0..size' /\ (doing' # "scan" => i' < size') /\ entry' \in Slotted(i)
    BY <1>0, <2>1, <2>2 DEF Listing
  <2> QED BY <1>0, <2>2, <2>9, <2>11, <2>12, <2>13 DEF Listing
<1> QED BY <1>0, <1>1, <1>2, <1>3 DEF WalkInv

(* Where a quiet list stands, its bucket is a list from there on.          *)
LEMMA StandsIn ==
  ASSUME NEW w, Writer = {w}, TableInv(w), Quiescent, Listing, doing \in {"print", "next", "follow"}
  PROVE  /\ entry \in InUse /\ Slot(entry, size) = i /\ i \in 0..(size - 1)
         /\ First(next[entry], {d \in Slotted(i) : key[entry] < key[d]}, key)
         /\ \A e \in InUse : key[e] \in Nat /\ Slot(e, size) \in 0..(size - 1)
         /\ NULL \notin InUse /\ Distinct(InUse, key)
<1>1. i \in 0..(size - 1) /\ entry \in Slotted(i)
  BY DEF Listing, TableInv, IInv, TypeOK
<1>2. Listed(arr[entries][i], Slotted(i), next, key)
  BY <1>1, Buckets
<1>3. First(next[entry], {d \in Slotted(i) : key[entry] < key[d]}, key)
  BY <1>1, <1>2 DEF Listed
<1> QED BY <1>1, <1>3, Buckets DEF Slotted, Numbered

(* The end of a bucket, or not yet.                                        *)
LEMMA HasNextKeeps ==
  ASSUME NEW w, Writer = {w}, WalkInv(w), ~crashed, HasNext
  PROVE  WalkInv(w)'
<1>0. /\ doing = "next" /\ UNCHANGED vars /\ entry' = entry /\ listed' = listed /\ met' = met
      /\ IF next[entry] = NULL THEN doing' = "scan" /\ i' = i + 1
                               ELSE doing' = "follow" /\ UNCHANGED i
  BY DEF HasNext
<1>1. ~Destroying /\ Walking /\ ~Destroying' /\ doing' \in {"scan", "follow"}
  BY <1>0 DEF Destroying, Walking
<1>2. TableInv(w) /\ TableInv(w)' /\ Stored' = Stored /\ (entry \in Entry => entry \in Stored)
  BY <1>0, <1>1, TableRests, TableStays DEF WalkInv
<1>3. ASSUME ~met PROVE Quiescent' /\ Listing'
  <2>1. Quiescent /\ Listing
    BY <1>1, <1>3 DEF WalkInv
  <2>2. Quiescent' /\ size' = size /\ InUse' = InUse /\ (\A e, n : Slot(e, n)' = Slot(e, n))
        /\ key' = key /\ next' = next /\ \A j : Slotted(j)' = Slotted(j)
    BY <1>0, <2>1, TableStays
  <2>3. /\ entry \in InUse /\ Slot(entry, size) = i /\ i \in 0..(size - 1)
        /\ First(next[entry], {d \in Slotted(i) : key[entry] < key[d]}, key)
        /\ \A e \in InUse : key[e] \in Nat /\ Slot(e, size) \in 0..(size - 1)
        /\ NULL \notin InUse
    BY <1>0, <1>2, <2>1, StandsIn
  <2>4. CASE next[entry] = NULL
    <3>1. \A d \in InUse : Slot(d, size) = i => key[d] <= key[entry]
      BY <2>3, <2>4 DEF First, Slotted
    <3>2. \A d \in InUse : Slot(d, size) < i + 1 <=> Slot(d, size) < i \/ Slot(d, size) = i
      BY <2>3
    <3>3. Done' = Done
      BY <1>0, <2>2, <2>4, <3>1, <3>2 DEF Done
    <3>4. size \in Nat
      BY <1>2 DEF TableInv, IInv, TypeOK
    <3>5. i' \in 0..size'
      BY <1>0, <2>2, <2>3, <2>4, <3>4
    <3> QED BY <1>0, <2>1, <2>2, <2>4, <3>3, <3>5 DEF Listing
  <2>5. CASE next[entry] # NULL
    <3>1. Done' = Done
      BY <1>0, <2>2, <2>5 DEF Done
    <3> QED BY <1>0, <2>1, <2>2, <2>5, <3>1 DEF Listing
  <2> QED BY <2>4, <2>5
<1> QED BY <1>0, <1>1, <1>2, <1>3 DEF WalkInv

(* On to the next of the chain.                                            *)
LEMMA FollowKeeps ==
  ASSUME NEW w, Writer = {w}, WalkInv(w), ~crashed, Follow
  PROVE  WalkInv(w)'
<1>0. /\ doing = "follow" /\ Usable(entry) /\ UNCHANGED vars /\ entry' = next[entry]
      /\ listed' = listed /\ met' = met /\ i' = i /\ doing' = "print"
  BY DEF Follow, NextInChain
<1>1. ~Destroying /\ Walking /\ ~Destroying'
  BY <1>0 DEF Destroying, Walking
<1>2. TableInv(w) /\ TableInv(w)' /\ Stored' = Stored
  BY <1>0, <1>1, TableRests, TableStays DEF WalkInv
<1>3. next[entry] \in Entry => next[entry] \in Stored
  BY <1>0, <1>2, NullAssumption DEF TableInv, TInv, Reach, Usable, InUse
<1>4. ASSUME ~met PROVE Quiescent' /\ Listing'
  <2>1. Quiescent /\ Listing
    BY <1>1, <1>4 DEF WalkInv
  <2>2. Quiescent' /\ size' = size /\ InUse' = InUse /\ (\A e, n : Slot(e, n)' = Slot(e, n))
        /\ key' = key /\ next' = next /\ \A j : Slotted(j)' = Slotted(j)
    BY <1>0, <2>1, TableStays
  <2>3. /\ entry \in InUse /\ Slot(entry, size) = i /\ i \in 0..(size - 1)
        /\ First(next[entry], {d \in Slotted(i) : key[entry] < key[d]}, key)
        /\ \A e \in InUse : key[e] \in Nat
        /\ Distinct(InUse, key) /\ next[entry] # NULL
    BY <1>0, <1>2, <2>1, StandsIn DEF Listing
  <2>4. /\ next[entry] \in Slotted(i) /\ key[entry] < key[next[entry]]
        /\ \A d \in Slotted(i) : key[entry] < key[d] => key[next[entry]] <= key[d]
    BY <2>3 DEF First
  <2>5. \A d \in InUse : Slot(d, size) = i => (key[d] <= key[entry] <=> key[d] < key[next[entry]])
    <3>1. next[entry] \in InUse
      BY <2>4 DEF Slotted
    <3> QED BY <2>3, <2>4, <3>1 DEF Slotted
  <2>6. Done' = Done
    BY <1>0, <2>2, <2>5 DEF Done
  <2> QED BY <1>0, <2>1, <2>2, <2>4, <2>6 DEF Listing
<1> QED BY <1>0, <1>1, <1>2, <1>3, <1>4 DEF WalkInv

(* A pointer that leads to no entry: only in a list that met a put.        *)
LEMMA WalkFaultKeeps ==
  ASSUME NEW w, Writer = {w}, WalkInv(w), ~crashed, WalkFault
  PROVE  WalkInv(w)'
<1>0. /\ doing \in {"print", "next", "follow"} /\ ~Usable(entry) /\ crashed' = TRUE
      /\ UNCHANGED <<mvars, avars, nvars, pc, gvars, stack, lvars>>
      /\ doing' = doing /\ i' = i /\ entry' = entry /\ met' = met /\ listed' = listed
  BY DEF WalkFault, wvars
<1>1. ~Destroying /\ Walking /\ ~Destroying' /\ Walking'
  BY <1>0 DEF Destroying, Walking
<1>2. TableInv(w) /\ (entry \in Entry => entry \in Stored)
  BY <1>1 DEF WalkInv
<1>3. IInv'
  <2>1. TypeOK'
    BY <1>0, <1>2 DEF TableInv, IInv, TypeOK, mvars, avars, nvars, gvars, lvars
  <2>2. Allocated' /\ ChainsAscend'
    BY <1>0, <1>2 DEF TableInv, IInv, Allocated, Known, ChainsAscend, mvars, avars, nvars, gvars, lvars
  <2>3. \A t \in Thread : Placed(t)'
    BY <1>0, <1>2 DEF TableInv, IInv, Placed, Putting, Ins, Rehashing, mvars, avars, nvars, gvars, lvars
  <2> QED BY <2>1, <2>2, <2>3 DEF IInv
<1>4. TInv(w)' /\ Looking(w)'
  BY <1>0, <1>2, ElsewhereInv, ElsewhereLooking DEF TableInv, TInv, Reach, lvars
<1>a. Asked(w)'
  BY <1>0, <1>2 DEF TableInv, Asked, gvars, mvars
<1>5. Stored' = Stored
  <2>1. Loading(w)
    BY <1>0 DEF Loading, lvars
  <2> QED BY <2>1, LoadingSets
<1>6. met
  <2>1. ASSUME ~met PROVE FALSE
    <3>1. Listing
      BY <1>1, <2>1 DEF WalkInv
    <3> QED BY <1>0, <3>1 DEF Listing, Slotted, InUse, Usable
  <2> QED BY <2>1
<1> QED BY <1>0, <1>1, <1>2, <1>3, <1>4, <1>a, <1>5, <1>6 DEF WalkInv, TableInv
-----------------------------------------------------------------------------
(* main starts the destruction when no thread is left.                     *)
LEMMA BeginDestroyKeeps ==
  ASSUME NEW w, Writer = {w}, WalkInv(w), ~crashed, BeginDestroy
  PROVE  WalkInv(w)'
<1>0. /\ doing = "idle" /\ (\A t \in Thread : pc[t] = "idle")
      /\ doing' = "bucket" /\ i' = 0 /\ UNCHANGED vars
      /\ doomed' = InUse /\ freed' = {}
  BY DEF BeginDestroy
<1>1. ~Destroying /\ Destroying' /\ ~Walking'
  BY <1>0 DEF Destroying, Walking
<1>2. TableInv(w)
  BY <1>1 DEF WalkInv
<1>3. Quiescent
  <2>1. pc[w] = "idle"
    BY <1>0, ThreadAssumption
  <2>2. ~Putting(w)
    BY <1>2, <2>1, Depth DEF TableInv, TInv, Phase
  <2> QED BY <2>2 DEF Quiescent
<1>4. /\ TypeOK => TypeOK'
      /\ entries' = entries /\ size' = size /\ arr' = arr /\ next' = next /\ key' = key
      /\ live' = live /\ InUse' = InUse /\ crashed' = crashed
      /\ (\A e, n : Slot(e, n)' = Slot(e, n)) /\ \A j : Slotted(j)' = Slotted(j)
  BY <1>0, TableStays
<1>5. /\ TypeOK /\ size \in Nat \ {0} /\ live = {entries}
      /\ DOMAIN arr[entries] = 0..(size - 1)
      /\ \A j \in 0..(size - 1) : Listed(arr[entries][j], Slotted(j), next, key)
      /\ Distinct(InUse, key) /\ Numbered(InUse, key)
      /\ \A e \in InUse : Slot(e, size) \in 0..(size - 1)
  BY <1>2, <1>3, Buckets DEF TableInv, IInv
<1>6. Remaining(0)'
  BY <1>0, <1>4, <1>5 DEF Remaining
<1>7. InUse' \subseteq doomed' /\ freed' = frees' \X (doomed' \ InUse')
  BY <1>0, <1>4
<1>8. Freeing'
  BY <1>0, <1>4, <1>5, <1>6, <1>7 DEF Freeing
<1> QED BY <1>0, <1>1, <1>8 DEF WalkInv

(* One more bucket.                                                        *)
LEMMA BucketKeeps ==
  ASSUME NEW w, Writer = {w}, WalkInv(w), ~crashed, DestroyBucket
  PROVE  WalkInv(w)'
<1>0. /\ doing = "bucket" /\ i < size /\ i' = i + 1 /\ doing' = "free" /\ UNCHANGED vars
      /\ frees' = frees /\ stray' = stray /\ doomed' = doomed /\ freed' = freed
  BY DEF DestroyBucket, dvars
<1>p. PICK p \in Load(entries, i) : entry' = p
  BY DEF DestroyBucket
<1>1. Destroying /\ Destroying' /\ ~Walking'
  BY <1>0 DEF Destroying, Walking
<1>2. Freeing /\ Remaining(i)
  BY <1>0, <1>1 DEF WalkInv, Freeing
<1>3. /\ TypeOK => TypeOK'
      /\ entries' = entries /\ size' = size /\ arr' = arr /\ next' = next /\ key' = key
      /\ live' = live /\ InUse' = InUse /\ crashed' = crashed
      /\ (\A e, n : Slot(e, n)' = Slot(e, n)) /\ \A j : Slotted(j)' = Slotted(j)
  BY <1>0, TableStays
<1>4. /\ size \in Nat \ {0} /\ i \in 0..(size - 1) /\ i' \in 0..size /\ i' > 0 /\ i' - 1 = i
  BY <1>0, <1>2 DEF Freeing, TypeOK
<1>5. Listed(arr[entries][i], Slotted(i), next, key) /\ entries \in live
      /\ DOMAIN arr[entries] = 0..(size - 1)
  BY <1>0, <1>2, <1>4 DEF Freeing, Remaining
<1>6. p = arr[entries][i]
  <2>1. Slotted(i) \subseteq InUse
    BY DEF Slotted
  <2> QED BY <1>p, <1>4, <1>5, <2>1, LoadHead
<1>7. /\ \A e \in InUse : Slot(e, size) \in i..(size - 1)
      /\ \A j \in i'..(size - 1) : Listed(arr[entries][j], Slotted(j), next, key)
  BY <1>0, <1>2, <1>4 DEF Remaining
<1>8. (Remaining(i - 1))'
  <2>1. \A e \in InUse' : Slot(e, size)' \in (i' - 1)..(size' - 1)
    BY <1>3, <1>4, <1>7
  <2>2. \A j \in i'..(size' - 1) : Listed(arr[entries][j], Slotted(j), next, key)'
    BY <1>3, <1>7
  <2> QED BY <1>3, <2>1, <2>2 DEF Remaining
<1>9. Listed(entry', Slotted(i - 1)', next', key')
  <2>1. Slotted(i - 1)' = Slotted(i)
    BY <1>3, <1>4 DEF Slotted
  <2> QED BY <1>p, <1>3, <1>5, <1>6, <2>1
<1>10. Freeing'
  BY <1>0, <1>2, <1>3, <1>4, <1>8, <1>9 DEF Freeing
<1> QED BY <1>0, <1>1, <1>10 DEF WalkInv
-----------------------------------------------------------------------------
(* The end of the chain.                                                   *)
LEMMA EndOfBucketKeeps ==
  ASSUME NEW w, Writer = {w}, WalkInv(w), ~crashed, EndOfBucket
  PROVE  WalkInv(w)'
<1>0. /\ doing = "free" /\ entry = NULL /\ doing' = "bucket" /\ i' = i /\ UNCHANGED vars
      /\ frees' = frees /\ stray' = stray /\ doomed' = doomed /\ freed' = freed
  BY DEF EndOfBucket, dvars
<1>1. Destroying /\ Destroying' /\ ~Walking'
  BY <1>0 DEF Destroying, Walking
<1>2. Freeing /\ i > 0 /\ Remaining(i - 1) /\ Listed(entry, Slotted(i - 1), next, key)
  BY <1>0, <1>1 DEF WalkInv, Freeing
<1>3. /\ TypeOK => TypeOK'
      /\ entries' = entries /\ size' = size /\ arr' = arr /\ next' = next /\ key' = key
      /\ live' = live /\ InUse' = InUse /\ crashed' = crashed
      /\ (\A e, n : Slot(e, n)' = Slot(e, n)) /\ \A j : Slotted(j)' = Slotted(j)
  BY <1>0, TableStays
<1>4. size \in Nat \ {0} /\ i \in 1..size
  BY <1>2 DEF Freeing, TypeOK
<1>5. Slotted(i - 1) = {}
  BY <1>0, <1>2, ListedIn DEF Freeing, Numbered, Slotted
<1>6. ASSUME NEW e \in InUse PROVE Slot(e, size) \in i..(size - 1)
  <2>1. Slot(e, size) \in (i - 1)..(size - 1) /\ Slot(e, size) # i - 1
    BY <1>2, <1>5, <1>6 DEF Remaining, Slotted
  <2> QED BY <1>4, <2>1
<1>7. \A j \in i..(size - 1) : Listed(arr[entries][j], Slotted(j), next, key)
  BY <1>2 DEF Remaining
<1>8. Remaining(i)'
  BY <1>0, <1>3, <1>6, <1>7 DEF Remaining
<1>9. Freeing'
  BY <1>0, <1>2, <1>3, <1>8 DEF Freeing
<1> QED BY <1>0, <1>1, <1>9 DEF WalkInv

(* While the destruction is inside a chain it stands on an entry of it.    *)
LEMMA StandsInBucket ==
  ASSUME Freeing, doing = "free", entry # NULL
  PROVE  /\ entry \in Slotted(i - 1)
         /\ Listed(next[entry], Slotted(i - 1) \ {entry}, next, key)
         /\ Usable(entry) /\ entry \in Entry /\ entry \in InUse
<1> DEFINE S == Slotted(i - 1)
<1>1. Distinct(InUse, key) /\ Numbered(InUse, key) /\ S \subseteq InUse
  BY DEF Freeing, Slotted
<1>2. entry \in S /\ Listed(next[entry], S \ {entry}, next, key)
  <2>1. Distinct(S, key) /\ Numbered(S, key) /\ Listed(entry, S, next, key)
    BY <1>1 DEF Freeing, Distinct, Numbered
  <2> HIDE DEF S
  <2> QED BY <2>1, ListedRest
<1> QED BY <1>1, <1>2 DEF Usable, InUse

(* One more entry of the chain.                                            *)
LEMMA EntryKeeps ==
  ASSUME NEW w, Writer = {w}, WalkInv(w), ~crashed, DestroyEntry
  PROVE  WalkInv(w)'
<1>0. /\ doing = "free" /\ doing' = "free" /\ i' = i /\ Usable(entry)
      /\ entries' = entries /\ size' = size /\ arr' = arr /\ next' = next /\ key' = key
      /\ live' = live /\ crashed' = crashed
      /\ mem' = [mem EXCEPT ![entry] = "freed"] /\ entry' = next[entry]
      /\ frees' = frees /\ stray' = stray /\ doomed' = doomed
      /\ freed' = freed \cup (frees \X {entry})
  BY DEF DestroyEntry, Rest, AsTold, mvars, avars
<1>1. Destroying /\ Destroying' /\ ~Walking'
  BY <1>0 DEF Destroying, Walking
<1>2. Freeing /\ i > 0 /\ Remaining(i - 1)
  BY <1>0, <1>1 DEF WalkInv, Freeing
<1>3. \A e, n : Slot(e, n)' = Slot(e, n)
  BY <1>0 DEF Slot
<1>4. size \in Nat \ {0} /\ i \in 1..size
  BY <1>2 DEF Freeing, TypeOK
<1>t. TypeOK'
  <2>1. mem' \in [Entry -> {"fresh", "used", "freed"}] /\ crashed' \in BOOLEAN
    BY <1>0, <1>2 DEF Freeing, TypeOK
  <2> QED BY <1>2, <2>1 DEF DestroyEntry, Freeing, TypeOK, mvars, avars, gvars, lvars
<1> DEFINE S == Slotted(i - 1)
<1>5. /\ entry \in S /\ Listed(next[entry], S \ {entry}, next, key)
      /\ entry \in Entry /\ entry \in InUse
  <2>1. entry # NULL
    BY <1>0, NullAssumption DEF Usable
  <2> QED BY <1>0, <1>2, <2>1, StandsInBucket
<1>6. InUse' = InUse \ {entry}
  <2>1. \A e \in Entry : mem'[e] = "used" <=> mem[e] = "used" /\ e # entry
    BY <1>0, <1>2 DEF Freeing, TypeOK
  <2> QED BY <2>1 DEF InUse
<1>7. Slotted(i - 1)' = S \ {entry}
  BY <1>0, <1>3, <1>6 DEF Slotted
<1>8. ASSUME NEW j \in i..(size - 1) PROVE Listed(arr[entries][j], Slotted(j), next, key)'
  <2>1. Slotted(j)' = Slotted(j)
    <3>1. Slot(entry, size) = i - 1 /\ j # i - 1
      BY <1>4, <1>5, <1>8 DEF Slotted
    <3> QED BY <1>0, <1>3, <1>6, <3>1 DEF Slotted
  <2>2. Listed(arr[entries][j], Slotted(j), next, key)
    BY <1>2, <1>8 DEF Remaining
  <2> QED BY <1>0, <2>1, <2>2
<1>9. Remaining(i - 1)'
  <2>1. \A e \in InUse' : Slot(e, size)' \in (i' - 1)..(size' - 1)
    BY <1>0, <1>2, <1>3, <1>6 DEF Remaining
  <2> QED BY <1>0, <1>3, <1>8, <2>1 DEF Remaining
<1>10. Listed(entry, Slotted(i - 1), next, key)'
  BY <1>0, <1>5, <1>7
<1>11. Distinct(InUse, key)' /\ Numbered(InUse, key)'
  BY <1>0, <1>2, <1>6 DEF Freeing, Distinct, Numbered
<1>12. InUse' \subseteq doomed' /\ freed' = frees' \X (doomed' \ InUse')
  <2>1. InUse \subseteq doomed /\ freed = frees \X (doomed \ InUse)
    BY <1>2 DEF Freeing
  <2>2. doomed \ InUse' = (doomed \ InUse) \cup {entry}
    BY <1>5, <1>6, <2>1
  <2> QED BY <1>0, <1>6, <2>1, <2>2
<1>13. Freeing'
  BY <1>0, <1>2, <1>t, <1>9, <1>10, <1>11, <1>12 DEF Freeing
<1> QED BY <1>0, <1>1, <1>13 DEF WalkInv

(* What stops the destruction is a value that is no block: it stands on an *)
(* entry in use, whose key and value it has not freed before.              *)
LEMMA DestroyFaultKeeps ==
  ASSUME NEW w, Writer = {w}, WalkInv(w), ~crashed, DestroyFault
  PROVE  WalkInv(w)'
<1>0. /\ doing = "free" /\ doing' = doing /\ i' = i /\ entry' = entry /\ crashed' = TRUE
      /\ UNCHANGED <<mvars, avars, nvars, pc, gvars, stack, lvars>>
      /\ frees' = frees /\ stray' = stray /\ doomed' = doomed /\ freed' = freed
  BY DEF DestroyFault, wvars, dvars
<1>f. \/ Bad(entry)
      \/ Usable(entry) /\ "value" \in frees /\ entry \in stray
      \/ Usable(entry) /\ (frees \X {entry}) \cap freed # {}
  BY DEF DestroyFault, AsTold
<1>1. Destroying /\ Destroying' /\ ~Walking'
  BY <1>0 DEF Destroying, Walking
<1>2. Freeing
  BY <1>1 DEF WalkInv
<1>3. "value" \in frees /\ stray # {}
  <2>1. entry # NULL
    BY <1>f, NullAssumption DEF Bad, Usable
  <2>2. Usable(entry) /\ entry \in InUse
    BY <1>0, <1>2, <2>1, StandsInBucket
  <2>3. (frees \X {entry}) \cap freed = {}
    BY <1>2, <2>2 DEF Freeing
  <2> QED BY <1>f, <2>2, <2>3 DEF Bad
<1>4. /\ entries' = entries /\ size' = size /\ arr' = arr /\ next' = next /\ key' = key
      /\ live' = live /\ InUse' = InUse
  BY <1>0 DEF mvars, avars, nvars, InUse
<1>5. (\A e, n : Slot(e, n)' = Slot(e, n)) /\ \A j : Slotted(j)' = Slotted(j)
  BY <1>4 DEF Slot, Slotted
<1>t. TypeOK'
  BY <1>0, <1>2 DEF Freeing, TypeOK, mvars, avars, nvars, gvars, lvars
<1>6. i > 0 /\ Remaining(i - 1) /\ Listed(entry, Slotted(i - 1), next, key)
  BY <1>0, <1>2 DEF Freeing
<1>7. Remaining(i - 1)'
  <2>1. \A e \in InUse' : Slot(e, size)' \in (i' - 1)..(size' - 1)
    BY <1>0, <1>4, <1>5, <1>6 DEF Remaining
  <2>2. \A j \in i'..(size' - 1) : Listed(arr[entries][j], Slotted(j), next, key)'
    BY <1>0, <1>4, <1>5, <1>6 DEF Remaining
  <2> QED BY <2>1, <2>2 DEF Remaining
<1>8. Listed(entry, Slotted(i - 1), next, key)'
  BY <1>0, <1>4, <1>5, <1>6
<1>9. Freeing'
  BY <1>0, <1>2, <1>3, <1>4, <1>6, <1>7, <1>8, <1>t DEF Freeing
<1> QED BY <1>0, <1>1, <1>9 DEF WalkInv

(* The array.                                                              *)
LEMMA DestroyTableKeeps ==
  ASSUME NEW w, Writer = {w}, WalkInv(w), ~crashed, DestroyTable
  PROVE  WalkInv(w)'
<1>0. /\ doing = "bucket" /\ i = size /\ live' = live \ {entries} /\ doing' = "gone"
      /\ entries' = entries /\ size' = size /\ key' = key /\ mem' = mem
      /\ crashed' = crashed /\ i' = i
      /\ frees' = frees /\ stray' = stray /\ doomed' = doomed /\ freed' = freed
  BY DEF DestroyTable, mvars, nvars, dvars
<1>1. Destroying /\ Destroying' /\ ~Walking'
  BY <1>0 DEF Destroying, Walking
<1>2. Freeing /\ Remaining(i)
  BY <1>0, <1>1 DEF WalkInv, Freeing
<1>3. InUse = {}
  <2>1. size \in Nat /\ \A e \in InUse : Slot(e, size) \in size..(size - 1)
    BY <1>0, <1>2 DEF Remaining, Freeing, TypeOK
  <2>2. size..(size - 1) = {}
    BY <2>1
  <2> QED BY <2>1, <2>2
<1>4. InUse' = {} /\ live' = {}
  BY <1>0, <1>2, <1>3 DEF InUse, Freeing
<1>t. TypeOK'
  BY <1>2 DEF DestroyTable, Freeing, TypeOK, mvars, nvars, gvars, lvars
<1>5. Freeing'
  BY <1>0, <1>2, <1>3, <1>4, <1>t DEF Freeing, Numbered, Distinct
<1> QED BY <1>0, <1>1, <1>5 DEF WalkInv

(* Nothing happens.                                                        *)
LEMMA WalkStutters ==
  ASSUME NEW w, Writer = {w}, WalkInv(w), UNCHANGED wlvars
  PROVE  WalkInv(w)'
<1>1. UNCHANGED vars /\ doing' = doing /\ i' = i /\ entry' = entry /\ met' = met /\ listed' = listed
      /\ frees' = frees /\ stray' = stray /\ doomed' = doomed /\ freed' = freed
  BY DEF wlvars, wvars, dvars
<1>2. Destroying' = Destroying /\ Walking' = Walking
  BY <1>1 DEF Destroying, Walking
<1>3. ~Destroying => TableInv(w)'
  BY <1>1, TableRests DEF WalkInv
<1>4. /\ TypeOK => TypeOK'
      /\ Stored' = Stored /\ InUse' = InUse /\ Quiescent' = Quiescent
      /\ (\A e, n : Slot(e, n)' = Slot(e, n)) /\ (\A j : Slotted(j)' = Slotted(j))
      /\ entries' = entries /\ size' = size /\ arr' = arr /\ next' = next /\ key' = key
      /\ live' = live /\ crashed' = crashed
  BY <1>1, TableStays
<1>5. Listing => Listing'
  <2>1. Done' = Done
    BY <1>1, <1>4 DEF Done
  <2> QED BY <1>1, <1>4, <2>1 DEF Listing
<1>6. Freeing => Freeing'
  <2>1. \A s : Remaining(s) => /\ \A e \in InUse' : Slot(e, size)' \in s..(size' - 1)
                               /\ \A j \in i'..(size' - 1) : Listed(arr'[entries'][j], Slotted(j)', next', key')
    BY <1>1, <1>4 DEF Remaining
  <2>2. (Remaining(i) => Remaining(i)') /\ (Remaining(i - 1) => Remaining(i - 1)')
    BY <1>1, <1>4, <2>1 DEF Remaining
  <2>3. Slotted(i - 1)' = Slotted(i - 1)
    BY <1>1, <1>4 DEF Slotted
  <2> QED BY <1>1, <1>4, <2>2, <2>3 DEF Freeing
<1> QED BY <1>1, <1>2, <1>3, <1>4, <1>5, <1>6 DEF WalkInv

(* Every step of the table, of a list or of the destruction.               *)
THEOREM WalkInvariance ==
  ASSUME NEW w, Writer = {w}
  PROVE  WSpec => []WalkInv(w)
<1>1. WInit => WalkInv(w)
  BY WalkInit
<1>2. WalkInv(w) /\ [WNext]_wlvars => WalkInv(w)'
  <2>1. ASSUME WalkInv(w), WNext PROVE WalkInv(w)'
    BY <2>1, OthersKeep, BeginKeeps, ScanKeeps, PeekKeeps, TakeKeeps, PrintKeeps, HasNextKeeps,
       FollowKeeps, WalkFaultKeeps, BeginDestroyKeeps, BucketKeeps, EndOfBucketKeeps, EntryKeeps,
       DestroyFaultKeeps, DestroyTableKeeps
       DEF WNext, ListStep, Destroy
  <2> QED BY <2>1, WalkStutters
<1> QED BY <1>1, <1>2, PTL DEF WSpec
-----------------------------------------------------------------------------
(* Until main destroys it, HashMap's properties of the table hold beside   *)
(* lists: a list changes nothing.  Every entry is in its bucket, once.     *)
THEOREM WalkInPlace ==
  ASSUME NEW w, Writer = {w}, IsFiniteSet(Entry)
  PROVE  WSpec => []InPlaceTillDestroyed
<1>1. WalkInv(w) => InPlaceTillDestroyed
  BY PlacedAtRest DEF WalkInv, InPlaceTillDestroyed
<1> QED BY <1>1, WalkInvariance, PTL

(* The count is exact and one array is allocated.                          *)
THEOREM WalkCount ==
  ASSUME NEW w, Writer = {w}
  PROVE  WSpec => []CountTillDestroyed
<1>1. WalkInv(w) => CountTillDestroyed
  BY AtRest DEF WalkInv, CountTillDestroyed, CountExact
<1> QED BY <1>1, WalkInvariance, PTL

(* Types, to the end of the destruction.                                   *)
THEOREM WalkTypes ==
  ASSUME NEW w, Writer = {w}
  PROVE  WSpec => []TypeOK
<1>1. WalkInv(w) => TypeOK
  BY DEF WalkInv, TableInv, IInv, Freeing
<1> QED BY <1>1, WalkInvariance, PTL

(* The iterator of list_func, which other threads overtake between its     *)
(* test of a pointer and its use, never stands on a freed entry; and on    *)
(* something that is no entry only if a put was in progress meanwhile.     *)
THEOREM WalkStandsOnEntries ==
  ASSUME NEW w, Writer = {w}
  PROVE  WSpec => []ListStandsOnEntries
<1>1. ASSUME WalkInv(w), doing \in {"print", "next", "follow"}
      PROVE  (entry \in Entry => Usable(entry)) /\ (entry \notin Entry => met)
  <2>1. ~Destroying /\ Walking
    BY <1>1 DEF Destroying, Walking
  <2>2. entry \in Entry => Usable(entry)
    BY <1>1, <2>1 DEF WalkInv, Stored, InUse, Usable
  <2>3. ~met => entry \in Entry
    BY <1>1, <2>1 DEF WalkInv, Listing, Slotted, InUse
  <2> QED BY <2>2, <2>3
<1>2. WalkInv(w) => ListStandsOnEntries
  BY <1>1 DEF ListStandsOnEntries
<1> QED BY <1>2, WalkInvariance, PTL

(* A list that met no put prints every stored key once and none twice:     *)
(* what the user of the console is promised.                               *)
THEOREM WalkListExact ==
  ASSUME NEW w, Writer = {w}
  PROVE  WSpec => QuietListExact
<1>1. ASSUME WalkInv(w), WNext, doing = "scan", doing' = "idle", ~met
      PROVE  /\ {listed[n] : n \in DOMAIN listed} = {key[e] : e \in InUse}
             /\ Len(listed) = Cardinality(InUse)
  <2>1. ~Destroying /\ Walking
    BY <1>1 DEF Destroying, Walking
  <2>2. TableInv(w) /\ Quiescent /\ Listing
    BY <1>1, <2>1 DEF WalkInv
  <2>3. ~(i < size)
    BY <1>1 DEF WNext, Others, Begin, ListStep, ScanSlots, Peek, Take, PrintEntry, HasNext, Follow,
         WalkFault, Destroy, BeginDestroy, DestroyBucket, EndOfBucket, DestroyEntry, DestroyFault,
         DestroyTable, wvars
  <2>4. size \in Nat /\ \A e \in InUse : Slot(e, size) \in 0..(size - 1)
    BY <2>2, Buckets
  <2>5. \A e \in InUse : Slot(e, size) < i
    BY <2>2, <2>3, <2>4 DEF Listing
  <2>6. Done = InUse
    BY <2>5 DEF Done
  <2> QED BY <2>2, <2>6 DEF Listing
<1>2. WalkInv(w) /\ [WNext]_wlvars =>
        [(doing = "scan" /\ doing' = "idle" /\ ~met) =>
           /\ {listed[n] : n \in DOMAIN listed} = {key[e] : e \in InUse}
           /\ Len(listed) = Cardinality(InUse)]_wlvars
  BY <1>1
<1> QED BY <1>2, WalkInvariance, PTL DEF WSpec, QuietListExact

(* destroy_hash_map frees every entry once, with its key and its value if  *)
(* and only if it was told to, reads none it has freed, and leaves neither *)
(* an entry nor an array allocated; it can bring the process down only by  *)
(* freeing a value that is no block, as main makes it do with              *)
(* token_to_ip.                                                            *)
THEOREM WalkFreesAll ==
  ASSUME NEW w, Writer = {w}
  PROVE  WSpec => []DestroyFreesAll
<1>1. WalkInv(w) => DestroyFreesAll
  BY DEF WalkInv, Freeing, DestroyFreesAll, Destroying
<1> QED BY <1>1, WalkInvariance, PTL
==============================================================================
