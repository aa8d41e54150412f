---------------------------- MODULE HashMapProofs ----------------------------
(***************************************************************************)
(* Type correctness of HashMap and the order of its chains, for any number *)
(* of threads that put, get and rehash at once, any keys, values and hash; *)
(* then, when one thread puts and any number of others get, that the table *)
(* holds what was put: every entry once and in its bucket, the count       *)
(* exact, no freed entry within reach, no rehash inside a rehash.          *)
(***************************************************************************)
EXTENDS HashMap, TLAPS, FiniteSetTheorems, WellFoundedInduction

(* A pointer to an entry is one malloc has returned.                       *)
Known(p) == p \in Entry => mem[p] # "fresh"

Allocated ==
  /\ \A e \in Entry : mem[e] # "fresh" => key[e] \in Key
  /\ \A e \in Entry : Known(next[e])
  /\ \A a \in Array : \A i \in DOMAIN arr[a] : Known(arr[a][i])
  /\ \A t \in Thread : Known(prev[t]) /\ Known(cur[t])
  /\ \A t \in Thread : \A n \in 1..Len(stack[t]) :
       Known(stack[t][n].entry) /\ Known(stack[t][n].todo)

Rehashing(f) == f.old \in Array /\ f.n > 0

(* What the program counter of a thread says of its locals; in particular  *)
(* where the entry it inserts belongs between previous and current.        *)
Placed(t) ==
  /\ pc[t] \in {"link", "count", "check", "save", "grow", "resize", "alloc", "zero", "scan"}
       => Putting(t)
  /\ pc[t] = "index" /\ ~Putting(t) => want[t] \in Key
  /\ pc[t] = "head" => base[t] \in Array
  /\ pc[t] \in {"save", "grow", "resize", "alloc"} => ask[t] > 0
  /\ pc[t] = "grow" => saved[t] \in Array
  /\ pc[t] \in {"resize", "alloc", "zero", "scan"} => Rehashing(stack[t][1])
  /\ \A n \in 2..Len(stack[t]) : Rehashing(stack[t][n])
  /\ pc[t] = "walk" /\ Putting(t) /\ prev[t] # NULL => key[prev[t]] < key[Ins(t)]
  /\ pc[t] = "link" => cur[t] \in Entry /\ key[Ins(t)] < key[cur[t]]

IInv == TypeOK /\ Allocated /\ (\A t \in Thread : Placed(t)) /\ ChainsAscend
-----------------------------------------------------------------------------
(* Sequences used as stacks.                                               *)

(* Pushing an element on a stack.                                          *)
LEMMA PushSeq ==
  ASSUME NEW S, NEW s \in Seq(S), NEW f \in S
  PROVE  /\ <<f>> \o s \in Seq(S)
         /\ Len(<<f>> \o s) = Len(s) + 1
         /\ (<<f>> \o s)[1] = f
         /\ <<f>> \o s # << >>
         /\ \A n \in 2..Len(s) + 1 : n - 1 \in 1..Len(s) /\ (<<f>> \o s)[n] = s[n-1]
OBVIOUS

(* Popping one.                                                            *)
LEMMA TailSeq ==
  ASSUME NEW S, NEW s \in Seq(S), s # << >>
  PROVE  /\ Tail(s) \in Seq(S)
         /\ Len(s) \in Nat /\ Len(s) >= 1
         /\ Len(Tail(s)) = Len(s) - 1
         /\ Head(s) = s[1] /\ s[1] \in S
         /\ \A n \in 1..Len(s) - 1 : n + 1 \in 2..Len(s) /\ Tail(s)[n] = s[n+1]
OBVIOUS

(* Replacing the top of a stack.                                           *)
LEMMA TopSeq ==
  ASSUME NEW S, NEW s \in Seq(S), s # << >>, NEW f \in S
  PROVE  LET r == <<f>> \o Tail(s) IN
         /\ r \in Seq(S) /\ r # << >>
         /\ Len(r) = Len(s)
         /\ r[1] = f
         /\ \A n \in 2..Len(s) : r[n] = s[n]
<1>1. Tail(s) \in Seq(S) /\ Len(Tail(s)) = Len(s) - 1 /\ Len(s) \in Nat
  BY TailSeq
<1>2. \A n \in 2..Len(s) : n - 1 \in 1..Len(s) - 1 /\ Tail(s)[n-1] = s[n]
  BY TailSeq
<1> QED BY <1>1, <1>2, PushSeq

(* Pushing two at once is pushing one after the other.                     *)
LEMMA PushTwo ==
  ASSUME NEW S, NEW s \in Seq(S), NEW f \in S, NEW g \in S
  PROVE  <<g, f>> \o s = <<g>> \o (<<f>> \o s)
OBVIOUS

(* An index into a bucket array.                                           *)
LEMMA ModNat == ASSUME NEW a \in Nat, NEW b \in Nat \ {0} PROVE a % b \in Nat
OBVIOUS
-----------------------------------------------------------------------------
(* What every step leaves as it is.                                        *)

(* The keys of entries already allocated do not change.                    *)
KeysKept == \A e \in Entry : mem[e] # "fresh" => mem'[e] # "fresh" /\ key'[e] = key[e]

(* The activation on top of a thread's stack.                              *)
LEMMA TopFrame ==
  ASSUME IInv, NEW t \in Thread, Putting(t)
  PROVE  /\ stack[t] \in Seq(FrameDom) /\ stack[t] # << >>
         /\ Head(stack[t]) = stack[t][1] /\ stack[t][1] \in FrameDom
         /\ Len(stack[t]) \in Nat /\ Len(stack[t]) >= 1
         /\ Ins(t) = stack[t][1].entry
         /\ Ins(t) \in Entry /\ mem[Ins(t)] # "fresh" /\ key[Ins(t)] \in Key
         /\ Known(stack[t][1].todo)
<1>1. stack[t] \in Seq(FrameDom) /\ stack[t] # << >>
  BY DEF IInv, TypeOK, Putting
<1>2. /\ Head(stack[t]) = stack[t][1] /\ stack[t][1] \in FrameDom
      /\ Len(stack[t]) \in Nat /\ Len(stack[t]) >= 1
  BY <1>1, TailSeq
<1>3. Ins(t) = stack[t][1].entry /\ Ins(t) \in Entry
  BY <1>2 DEF Ins, FrameDom
<1>4. 1 \in 1..Len(stack[t])
  BY <1>2
<1> QED BY <1>1, <1>2, <1>3, <1>4 DEF IInv, Allocated, Known
(* A thread the step does not touch stays where it is placed.              *)
LEMMA OtherThread ==
  ASSUME IInv, KeysKept, NEW x \in Thread,
         pc'[x] = pc[x], stack'[x] = stack[x], want'[x] = want[x],
         ask'[x] = ask[x], saved'[x] = saved[x],
         base'[x] = base[x], prev'[x] = prev[x], cur'[x] = cur[x]
  PROVE  Placed(x)'
<1>1. CASE Putting(x)
  <2>1. Ins(x) \in Entry /\ key'[Ins(x)] = key[Ins(x)]
    BY <1>1, TopFrame DEF KeysKept
  <2>2. prev[x] # NULL => key'[prev[x]] = key[prev[x]]
    BY DEF IInv, TypeOK, EntryOrNull, Allocated, Known, KeysKept
  <2>3. cur[x] \in Entry => key'[cur[x]] = key[cur[x]]
    BY DEF IInv, Allocated, Known, KeysKept
  <2> QED BY <1>1, <2>1, <2>2, <2>3 DEF IInv, Placed, Putting, Ins, Rehashing
<1>2. CASE ~Putting(x)
  BY <1>2 DEF IInv, Placed, Putting, Ins, Rehashing
<1> QED BY <1>1, <1>2

-----------------------------------------------------------------------------
(* Init and one lemma per action.                                          *)

(* An empty table has the invariant.                                       *)
LEMMA InitInv == Init => IInv
<1> SUFFICES ASSUME Init PROVE IInv
  OBVIOUS
<1>1. PICK a0 \in Array : /\ entries = a0 /\ live = {a0}
          /\ arr = [a \in Array |-> IF a = a0 THEN [i \in 0..(InitialSize-1) |-> NULL]
                                             ELSE [i \in {} |-> NULL]]
  BY HeapAssumption DEF Init
<1>2. TypeOK
  <2>1. DOMAIN arr = Array /\ \A a \in Array : \A i \in DOMAIN arr[a] : arr[a][i] \in PtrDom
    BY <1>1 DEF PtrDom
  <2>2. stack \in [Thread -> Seq(FrameDom)]
    BY DEF Init
  <2>3. size \in Nat \ {0} /\ entries \in Array /\ live \subseteq Array
    BY <1>1, SizeAssumption DEF Init
  <2> QED BY <2>1, <2>2, <2>3 DEF Init, TypeOK, EntryOrNull, PtrDom
<1>3. Allocated
  BY <1>1, NullAssumption DEF Init, Allocated, Known
<1>4. \A t \in Thread : Placed(t)
  BY DEF Init, Placed, Putting
<1>5. ChainsAscend
  BY DEF Init, ChainsAscend
<1> QED BY <1>2, <1>3, <1>4, <1>5 DEF IInv

(* hash_map_put creates an entry: nothing refers to it yet.                *)
LEMMA PutInv ==
  ASSUME IInv, NEW w \in Writer, NEW k \in Key, NEW v \in Value, Put(w, k, v)
  PROVE  IInv'
<1>t. w \in Thread
  BY ThreadAssumption
<1>e. PICK e \in Entry :
        /\ mem[e] = "fresh"
        /\ key' = [key EXCEPT ![e] = k] /\ value' = [value EXCEPT ![e] = v]
        /\ next' = [next EXCEPT ![e] = NULL] /\ mem' = [mem EXCEPT ![e] = "used"]
        /\ stack' = [stack EXCEPT ![w] = <<Frame(e)>>]
  BY DEF Put, NewNext
<1>f. Frame(e) \in FrameDom /\ Frame(e).entry = e /\ Frame(e).todo = NULL
  BY DEF Activation, Frame, FrameDom, PtrDom
<1>s. stack'[w] = <<Frame(e)>> /\ stack'[w][1] = Frame(e) /\ Len(stack'[w]) = 1
      /\ stack'[w] # << >>
  BY <1>t, <1>e DEF IInv, TypeOK
<1>1. TypeOK'
  <2>1. stack' \in [Thread -> Seq(FrameDom)]
    BY <1>t, <1>e, <1>f DEF IInv, TypeOK
  <2>2. /\ key' \in [Entry -> Key \cup {NULL}] /\ value' \in [Entry -> Value \cup {NULL}]
        /\ next' \in [Entry -> EntryOrNull] /\ mem' \in [Entry -> {"fresh", "used", "freed"}]
    BY <1>e DEF IInv, TypeOK, EntryOrNull
  <2> QED BY <1>t, <2>1, <2>2 DEF IInv, TypeOK, Put, Goto, mvars, avars, gvars, lvars
<1>2. Allocated'
  <2>1. \A x \in Thread : \A n \in 1..Len(stack'[x]) :
          (Known(stack[x][n].entry) /\ Known(stack[x][n].todo))'
    BY <1>t, <1>e, <1>f, <1>s, NullAssumption DEF IInv, TypeOK, Allocated, Known
  <2> QED BY <1>t, <1>e, <2>1, NullAssumption DEF IInv, TypeOK, Allocated, Known, Put,
             avars, lvars
<1>3. KeysKept
  BY <1>e DEF KeysKept, IInv, TypeOK
<1>4. ASSUME NEW x \in Thread, x # w PROVE Placed(x)'
  BY <1>t, <1>3, <1>4, OtherThread DEF IInv, TypeOK, Put, Frame, Goto, NewNext, mvars,
       avars, gvars, lvars
<1>5. Placed(w)'
  BY <1>t, <1>s DEF IInv, TypeOK, Placed, Putting, Put, Goto
<1>6. ChainsAscend'
  BY <1>e, NullAssumption DEF IInv, TypeOK, EntryOrNull, Allocated, Known, ChainsAscend
<1> QED BY <1>1, <1>2, <1>4, <1>5, <1>6 DEF IInv

(* hash_map_get starts.                                                    *)
LEMMA GetInv ==
  ASSUME IInv, NEW t \in Thread, NEW k \in Key, Get(t, k)
  PROVE  IInv'
<1>t. t \in Thread
  BY ThreadAssumption
<1>1. TypeOK'
  BY <1>t DEF IInv, TypeOK, EntryOrNull, PtrDom, Get, Goto, mvars, avars, nvars, lvars
<1>2. Allocated'
  BY <1>t DEF IInv, TypeOK, EntryOrNull, PtrDom, Allocated, Known, Get, Goto, mvars, avars,
       nvars, lvars
<1>3. KeysKept
  BY DEF KeysKept, Get, Goto, mvars, avars, nvars, lvars
<1>4. ASSUME NEW x \in Thread, x # t PROVE Placed(x)'
  BY <1>t, <1>3, <1>4, OtherThread DEF IInv, TypeOK, Get, Goto, mvars, avars, nvars, lvars
<1>5. Placed(t)'
  BY <1>t DEF IInv, TypeOK, Placed, Get, Goto, mvars, avars, nvars, lvars
<1>6. ChainsAscend'
  BY DEF IInv, ChainsAscend, Get, Goto, mvars, avars, nvars, lvars
<1> QED BY <1>1, <1>2, <1>4, <1>5, <1>6 DEF IInv

(* calculate_hash.                                                         *)
LEMMA IndexInv ==
  ASSUME IInv, NEW t \in Thread, Index(t)
  PROVE  IInv'
<1>t. t \in Thread
  BY ThreadAssumption
<1>k. Target(t) \in Key
  <2>1. CASE Putting(t)
    BY <1>t, <2>1, TopFrame DEF Target
  <2>2. CASE ~Putting(t)
    BY <1>t, <2>2 DEF IInv, Placed, Target, Index
  <2> QED BY <2>1, <2>2
<1>h. Hash[Target(t)] % size \in Nat
  BY <1>k, KeyAssumption, ModNat DEF IInv, TypeOK
<1>1. TypeOK'
  BY <1>t, <1>h DEF IInv, TypeOK, Index, Goto, mvars, avars, nvars, gvars
<1>2. Allocated'
  BY <1>t DEF IInv, TypeOK, EntryOrNull, PtrDom, Allocated, Known, Index, Goto, Ins,
       Putting, Target, mvars, avars, nvars, gvars
<1>3. KeysKept
  BY DEF KeysKept, Index, Goto, Ins, Putting, Target, mvars, avars, nvars, gvars
<1>4. ASSUME NEW x \in Thread, x # t PROVE Placed(x)'
  BY <1>t, <1>3, <1>4, OtherThread DEF IInv, TypeOK, Index, Goto, Ins, Putting, Target,
       mvars, avars, nvars, gvars
<1>5. Placed(t)'
  BY <1>t DEF IInv, TypeOK, Placed, Putting, Ins, Index, Goto
<1>6. ChainsAscend'
  BY DEF IInv, ChainsAscend, Index, Goto, Ins, Putting, Target, mvars, avars, nvars, gvars
<1> QED BY <1>1, <1>2, <1>4, <1>5, <1>6 DEF IInv

(* The load of m->entries.                                                 *)
LEMMA BaseInv ==
  ASSUME IInv, NEW t \in Thread, Base(t)
  PROVE  IInv'
<1>t. t \in Thread
  BY ThreadAssumption
<1>1. TypeOK'
  BY <1>t DEF IInv, TypeOK, EntryOrNull, PtrDom, Base, Goto, mvars, avars, nvars, gvars
<1>2. Allocated'
  BY <1>t DEF IInv, TypeOK, EntryOrNull, PtrDom, Allocated, Known, Base, Goto, mvars, avars,
       nvars, gvars
<1>3. KeysKept
  BY DEF KeysKept, Base, Goto, mvars, avars, nvars, gvars
<1>4. ASSUME NEW x \in Thread, x # t PROVE Placed(x)'
  BY <1>t, <1>3, <1>4, OtherThread DEF IInv, TypeOK, Base, Goto, mvars, avars, nvars, gvars
<1>5. Placed(t)'
  BY <1>t DEF IInv, TypeOK, Placed, Putting, Ins, Base, Goto
<1>6. ChainsAscend'
  BY DEF IInv, ChainsAscend, Base, Goto, mvars, avars, nvars, gvars
<1> QED BY <1>1, <1>2, <1>4, <1>5, <1>6 DEF IInv

(* The load of the bucket's head, whatever it gives.                       *)
LEMMA HeadOfInv ==
  ASSUME IInv, NEW t \in Thread, HeadOf(t)
  PROVE  IInv'
<1>t. t \in Thread
  BY ThreadAssumption
<1>a. base[t] \in Array
  BY <1>t DEF IInv, Placed, HeadOf
<1>h. PICK p \in Load(base[t], idx[t]) : cur' = [cur EXCEPT ![t] = p]
  BY DEF HeadOf
<1>p. p \in PtrDom /\ Known(p)
  BY <1>a, NullAssumption DEF IInv, TypeOK, PtrDom, Allocated, Known, Load
<1>1. TypeOK'
  BY <1>t, <1>h, <1>p DEF IInv, TypeOK, EntryOrNull, HeadOf, Goto, mvars, avars, nvars, gvars
<1>2. Allocated'
  BY <1>t, <1>h, <1>p, NullAssumption DEF IInv, TypeOK, Allocated, Known, HeadOf, avars, nvars
<1>3. KeysKept
  BY DEF KeysKept, HeadOf, Goto, Load, mvars, avars, nvars, gvars
<1>4. ASSUME NEW x \in Thread, x # t PROVE Placed(x)'
  BY <1>t, <1>3, <1>4, OtherThread DEF IInv, TypeOK, HeadOf, Goto, Load, mvars, avars,
       nvars, gvars
<1>5. Placed(t)'
  BY <1>t DEF IInv, TypeOK, Placed, Putting, Ins, HeadOf, Goto
<1>6. ChainsAscend'
  BY DEF IInv, ChainsAscend, HeadOf, Goto, Load, mvars, avars, nvars, gvars
<1> QED BY <1>1, <1>2, <1>4, <1>5, <1>6 DEF IInv

(* The walk goes on: a put passes smaller keys only.                       *)
LEMMA AdvanceInv ==
  ASSUME IInv, NEW t \in Thread, Advance(t)
  PROVE  IInv'
<1>t. t \in Thread
  BY ThreadAssumption
<1>1. TypeOK'
  BY <1>t DEF IInv, TypeOK, EntryOrNull, PtrDom, Advance, Following, Ins, Passes, Putting,
       Target, Usable, mvars, avars, nvars, gvars
<1>2. Allocated'
  BY <1>t DEF IInv, TypeOK, EntryOrNull, PtrDom, Allocated, Known, Advance, Following, Ins,
       Passes, Putting, Target, Usable, mvars, avars, nvars, gvars
<1>3. KeysKept
  BY DEF KeysKept, Advance, Following, Ins, Passes, Putting, Target, Usable, mvars, avars,
       nvars, gvars
<1>4. ASSUME NEW x \in Thread, x # t PROVE Placed(x)'
  BY <1>t, <1>3, <1>4, OtherThread DEF IInv, TypeOK, Advance, Following, Ins, Passes,
       Putting, Target, Usable, mvars, avars, nvars, gvars
<1>5. Placed(t)'
  <2>1. cur[t] \in Entry /\ pc[t] = "walk" /\ pc' = pc /\ stack' = stack /\ want' = want
        /\ key' = key /\ prev'[t] = cur[t]
    BY <1>t DEF IInv, TypeOK, Advance, Usable, nvars, gvars
  <2>2. Putting(t) => key[cur[t]] < key[Ins(t)]
    BY DEF Advance, Passes, Target
  <2> QED BY <2>1, <2>2, <1>t DEF IInv, Placed, Putting, Ins
<1>6. ChainsAscend'
  BY DEF IInv, ChainsAscend, Advance, Following, Ins, Passes, Putting, Target, Usable,
       mvars, avars, nvars, gvars
<1> QED BY <1>1, <1>2, <1>4, <1>5, <1>6 DEF IInv

(* hash_map_get returns.                                                   *)
LEMMA AnswerInv ==
  ASSUME IInv, NEW t \in Thread, Answer(t)
  PROVE  IInv'
<1>t. t \in Thread
  BY ThreadAssumption
<1>1. TypeOK'
  BY <1>t DEF IInv, TypeOK, EntryOrNull, PtrDom, Answer, Forget, Goto, Putting, Usable,
       mvars, avars, nvars
<1>2. Allocated'
  BY <1>t, NullAssumption DEF IInv, TypeOK, Allocated, Known, Answer, Forget, avars, nvars
<1>3. KeysKept
  BY DEF KeysKept, Answer, Forget, Goto, Putting, Usable, mvars, avars, nvars
<1>4. ASSUME NEW x \in Thread, x # t PROVE Placed(x)'
  BY <1>t, <1>3, <1>4, OtherThread DEF IInv, TypeOK, Answer, Forget, Goto, Putting, Usable,
       mvars, avars, nvars
<1>5. Placed(t)'
  BY <1>t DEF IInv, TypeOK, Placed, Putting, Answer, Goto
<1>6. ChainsAscend'
  BY DEF IInv, ChainsAscend, Answer, Forget, Goto, Putting, Usable, mvars, avars, nvars
<1> QED BY <1>1, <1>2, <1>4, <1>5, <1>6 DEF IInv

(* An undefined access stops the process.                                  *)
LEMMA FaultInv ==
  ASSUME IInv, NEW t \in Thread, Fault(t)
  PROVE  IInv'
<1>1. TypeOK' /\ Allocated' /\ KeysKept /\ ChainsAscend'
  BY DEF IInv, TypeOK, Allocated, Known, KeysKept, ChainsAscend, Fault, mvars, avars,
         nvars, gvars, lvars
<1>2. \A x \in Thread : Placed(x)'
  BY <1>1, OtherThread DEF Fault, gvars, lvars
<1> QED BY <1>1, <1>2 DEF IInv

(* The entry becomes reachable between a smaller key and a larger one.     *)
LEMMA PublishInv ==
  ASSUME IInv, NEW w \in Writer, Publish(w)
  PROVE  IInv'
<1>t. w \in Thread
  BY ThreadAssumption
<1>p. Putting(w)
  BY DEF Publish
<1>i. Ins(w) \in Entry /\ mem[Ins(w)] # "fresh" /\ key[Ins(w)] \in Key
  BY <1>t, <1>p, TopFrame
<1>k. cur[w] \in Entry => mem[cur[w]] # "fresh" /\ key[cur[w]] \in Key
  BY <1>t DEF IInv, Allocated, Known
<1>u. /\ stack' = stack /\ key' = key /\ mem' = mem /\ prev' = prev /\ cur' = cur
      /\ want' = want /\ base' = base
  BY DEF Publish, gvars, lvars
<1>c. \/ /\ arr' = [arr EXCEPT ![entries] =
                      [i \in DOMAIN @ |-> IF i = idx[w] THEN Ins(w) ELSE @[i]]]
         /\ next' = next
      \/ /\ prev[w] # NULL /\ Usable(prev[w])
         /\ next' = [next EXCEPT ![prev[w]] = Ins(w)]
         /\ arr' = arr
  BY DEF Publish
<1>b. /\ DOMAIN arr' = Array
      /\ \A a \in Array : \A i \in DOMAIN arr'[a] :
           /\ i \in DOMAIN arr[a]
           /\ arr'[a][i] = arr[a][i] \/ arr'[a][i] = Ins(w)
  <2>1. CASE arr' = arr
    BY <2>1 DEF IInv, TypeOK
  <2>2. CASE arr' = [arr EXCEPT ![entries] =
                       [i \in DOMAIN @ |-> IF i = idx[w] THEN Ins(w) ELSE @[i]]]
    <3>1. DOMAIN arr' = Array /\ entries \in Array
      BY <2>2 DEF IInv, TypeOK
    <3>2. arr'[entries] = [i \in DOMAIN arr[entries] |->
                             IF i = idx[w] THEN Ins(w) ELSE arr[entries][i]]
      BY <2>2, <3>1 DEF IInv, TypeOK
    <3>3. \A a \in Array : a # entries => arr'[a] = arr[a]
      BY <2>2 DEF IInv, TypeOK
    <3> QED BY <3>1, <3>2, <3>3
  <2> QED BY <1>c, <2>1, <2>2
<1>n. /\ next' \in [Entry -> EntryOrNull]
      /\ \A e \in Entry : next'[e] = next[e] \/ next'[e] = Ins(w)
      /\ \A e \in Entry : next'[e] # next[e] => e = prev[w] /\ prev[w] # NULL
  BY <1>c, <1>i DEF IInv, TypeOK, EntryOrNull, Usable
<1>1. TypeOK'
  <2>1. \A a \in Array : \A i \in DOMAIN arr'[a] : arr'[a][i] \in PtrDom
    BY <1>b, <1>i DEF IInv, TypeOK, PtrDom
  <2> QED BY <1>t, <1>b, <1>n, <2>1 DEF IInv, TypeOK, Publish, Goto, mvars, gvars, lvars
<1>2. Allocated'
  <2>1. (\A e \in Entry : Known(next[e]))'
    BY <1>n, <1>i, <1>u DEF IInv, Allocated, Known
  <2>2. (\A a \in Array : \A i \in DOMAIN arr[a] : Known(arr[a][i]))'
    BY <1>b, <1>i, <1>u DEF IInv, Allocated, Known
  <2> QED BY <1>u, <2>1, <2>2 DEF IInv, Allocated, Known
<1>3. KeysKept
  BY <1>u DEF KeysKept
<1>4. ASSUME NEW x \in Thread, x # w PROVE Placed(x)'
  BY <1>t, <1>3, <1>4, OtherThread DEF IInv, TypeOK, Publish, Goto, Ins, Putting, Target,
       Usable, mvars, gvars, lvars
<1>5. Placed(w)'
  <2>1. pc'[w] = "count" \/ (pc'[w] = "link" /\ Usable(cur[w]) /\ key[cur[w]] > Target(w))
    BY <1>t DEF IInv, TypeOK, Publish, Goto
  <2>2. pc'[w] = "link" => cur[w] \in Entry /\ key[Ins(w)] < key[cur[w]]
    BY <2>1, <1>p, <1>i, <1>k, KeyAssumption DEF Target, Usable
  <2> QED BY <1>t, <1>p, <1>u, <2>1, <2>2 DEF IInv, Placed, Putting, Ins
<1>6. ChainsAscend'
  <2>1. prev[w] # NULL => key[prev[w]] < key[Ins(w)]
    BY <1>t, <1>p DEF IInv, Placed, Publish
  <2> QED BY <1>n, <1>u, <2>1 DEF IInv, ChainsAscend
<1> QED BY <1>1, <1>2, <1>4, <1>5, <1>6 DEF IInv

(* The entry's own next is stored.                                         *)
LEMMA LinkInv ==
  ASSUME IInv, NEW w \in Writer, Link(w)
  PROVE  IInv'
<1>t. w \in Thread
  BY ThreadAssumption
<1>p. Putting(w)
  BY <1>t DEF IInv, Placed, Link
<1>i. Ins(w) \in Entry /\ mem[Ins(w)] # "fresh" /\ key[Ins(w)] \in Key
  BY <1>t, <1>p, TopFrame
<1>c. cur[w] \in Entry /\ key[Ins(w)] < key[cur[w]]
  BY <1>t DEF IInv, Placed, Link
<1>u. stack' = stack /\ next' = [next EXCEPT ![Ins(w)] = cur[w]]
  BY DEF Link
<1>1. TypeOK'
  BY <1>t, <1>i, <1>c DEF IInv, TypeOK, EntryOrNull, Link, Goto, mvars, avars, gvars, lvars
<1>2. Allocated'
  BY <1>t, <1>i, <1>c DEF IInv, TypeOK, Allocated, Known, Link, avars, lvars
<1>3. KeysKept
  BY DEF KeysKept, Link, Goto, Ins, mvars, avars, gvars, lvars
<1>4. ASSUME NEW x \in Thread, x # w PROVE Placed(x)'
  BY <1>t, <1>3, <1>4, OtherThread DEF IInv, TypeOK, Link, Goto, Ins, mvars, avars, gvars, lvars
<1>5. Placed(w)'
  BY <1>t, <1>p DEF IInv, TypeOK, Placed, Putting, Link, Goto
<1>6. ChainsAscend'
  BY <1>i, <1>c DEF IInv, TypeOK, ChainsAscend, Link
<1> QED BY <1>1, <1>2, <1>4, <1>5, <1>6 DEF IInv

(* The entry is counted and the call returns.                              *)
LEMMA CountInv ==
  ASSUME IInv, NEW w \in Writer, Count(w)
  PROVE  IInv'
<1>t. w \in Thread
  BY ThreadAssumption
<1>p. Putting(w)
  BY <1>t DEF IInv, Placed, Count
<1>r. /\ stack' = [stack EXCEPT ![w] = Tail(stack[w])]
      /\ pc' = [pc EXCEPT ![w] = IF Len(stack[w]) = 1 THEN "idle" ELSE "scan"]
  BY DEF Count, Return, Goto
<1>s. /\ stack' \in [Thread -> Seq(FrameDom)]
      /\ Len(stack'[w]) = Len(stack[w]) - 1 /\ Len(stack[w]) \in Nat /\ Len(stack[w]) >= 1
      /\ \A n \in 1..Len(stack'[w]) : n + 1 \in 2..Len(stack[w]) /\ stack'[w][n] = stack[w][n+1]
  <2>1. stack[w] \in Seq(FrameDom) /\ stack[w] # << >>
    BY <1>t, <1>p, TopFrame
  <2> QED BY <1>t, <1>r, <2>1, TailSeq DEF IInv, TypeOK
<1>1. TypeOK'
  BY <1>t, <1>s DEF IInv, TypeOK, EntryOrNull, PtrDom, Count, Forget, Goto, Return, avars,
       nvars, gvars
<1>2. Allocated'
  <2>1. \A x \in Thread : \A n \in 1..Len(stack'[x]) :
          Known(stack'[x][n].entry) /\ Known(stack'[x][n].todo)
    <3>1. \A n \in 1..Len(stack'[w]) : Known(stack'[w][n].entry) /\ Known(stack'[w][n].todo)
      <4>1. \A n \in 2..Len(stack[w]) : n \in 1..Len(stack[w])
        BY <1>s
      <4> QED BY <1>t, <1>s, <4>1 DEF IInv, Allocated
    <3>2. \A x \in Thread : x # w => stack'[x] = stack[x]
      BY <1>r DEF IInv, TypeOK
    <3> QED BY <3>1, <3>2 DEF IInv, Allocated
  <2> QED BY <1>t, <2>1, NullAssumption DEF IInv, TypeOK, Allocated, Known, Count, Return,
             Forget, avars, nvars
<1>3. KeysKept
  BY DEF KeysKept, Count, Forget, Goto, Return, avars, nvars, gvars
<1>4. ASSUME NEW x \in Thread, x # w PROVE Placed(x)'
  BY <1>t, <1>3, <1>4, OtherThread DEF IInv, TypeOK, Count, Forget, Goto, Return, avars,
       nvars, gvars
<1>5. Placed(w)'
  <2>1. \A n \in 1..Len(stack'[w]) : Rehashing(stack'[w][n])
    BY <1>t, <1>s DEF IInv, Placed
  <2>2. CASE Len(stack[w]) = 1
    <3>1. pc'[w] = "idle" /\ Len(stack'[w]) = 0
      BY <1>t, <1>r, <1>s, <2>2 DEF IInv, TypeOK
    <3> QED BY <2>1, <3>1 DEF Placed, Rehashing
  <2>3. CASE Len(stack[w]) # 1
    <3>1. pc'[w] = "scan" /\ Len(stack'[w]) >= 1 /\ Len(stack'[w]) \in Nat
      BY <1>t, <1>r, <1>s, <2>3 DEF IInv, TypeOK
    <3>2. /\ Putting(w)'
          /\ Rehashing(stack'[w][1])
          /\ \A n \in 2..Len(stack'[w]) : Rehashing(stack'[w][n])
      BY <3>1, <2>1 DEF Putting
    <3> QED BY <3>1, <3>2 DEF Placed, Rehashing
  <2> QED BY <2>2, <2>3
<1>6. ChainsAscend'
  BY DEF IInv, ChainsAscend, Count, Forget, Goto, Return, avars, nvars, gvars
<1> QED BY <1>1, <1>2, <1>4, <1>5, <1>6 DEF IInv

(* The value is replaced and the new entry freed.                          *)
LEMMA ReplaceInv ==
  ASSUME IInv, NEW w \in Writer, Replace(w)
  PROVE  IInv'
<1>t. w \in Thread
  BY ThreadAssumption
<1>p. Putting(w)
  BY DEF Replace
<1>i. Ins(w) \in Entry /\ mem[Ins(w)] # "fresh" /\ key[Ins(w)] \in Key
  BY <1>t, <1>p, TopFrame
<1>r. /\ stack' = [stack EXCEPT ![w] = Tail(stack[w])]
      /\ pc' = [pc EXCEPT ![w] = IF Len(stack[w]) = 1 THEN "idle" ELSE "scan"]
  BY DEF Replace, Return, Goto
<1>s. /\ stack' \in [Thread -> Seq(FrameDom)]
      /\ Len(stack'[w]) = Len(stack[w]) - 1 /\ Len(stack[w]) \in Nat /\ Len(stack[w]) >= 1
      /\ \A n \in 1..Len(stack'[w]) : n + 1 \in 2..Len(stack[w]) /\ stack'[w][n] = stack[w][n+1]
  <2>1. stack[w] \in Seq(FrameDom) /\ stack[w] # << >>
    BY <1>t, <1>p, TopFrame
  <2> QED BY <1>t, <1>r, <2>1, TailSeq DEF IInv, TypeOK
<1>1. TypeOK'
  BY <1>t, <1>s, <1>i DEF IInv, TypeOK, EntryOrNull, PtrDom, Replace, Forget, Goto, Ins,
       NewValue, Putting, Return, Target, Usable, mvars, avars, gvars
<1>2. Allocated'
  <2>1. \A x \in Thread : \A n \in 1..Len(stack'[x]) :
          Known(stack'[x][n].entry) /\ Known(stack'[x][n].todo)
    <3>1. \A n \in 1..Len(stack'[w]) : Known(stack'[w][n].entry) /\ Known(stack'[w][n].todo)
      <4>1. \A n \in 2..Len(stack[w]) : n \in 1..Len(stack[w])
        BY <1>s
      <4> QED BY <1>t, <1>s, <4>1 DEF IInv, Allocated
    <3>2. \A x \in Thread : x # w => stack'[x] = stack[x]
      BY <1>r DEF IInv, TypeOK
    <3> QED BY <3>1, <3>2 DEF IInv, Allocated
  <2>2. \A e \in Entry : mem[e] # "fresh" <=> mem'[e] # "fresh"
    BY <1>i DEF IInv, TypeOK, Replace
  <2> QED BY <1>t, <2>1, <2>2, NullAssumption DEF IInv, TypeOK, Allocated, Known, Replace,
             Return, Forget, avars
<1>3. KeysKept
  BY <1>i DEF KeysKept, IInv, TypeOK, Replace
<1>4. ASSUME NEW x \in Thread, x # w PROVE Placed(x)'
  BY <1>t, <1>3, <1>4, OtherThread DEF IInv, TypeOK, Replace, Forget, Goto, Ins, NewValue,
       Putting, Return, Target, Usable, mvars, avars, gvars
<1>5. Placed(w)'
  <2>1. \A n \in 1..Len(stack'[w]) : Rehashing(stack'[w][n])
    BY <1>t, <1>s DEF IInv, Placed
  <2>2. CASE Len(stack[w]) = 1
    <3>1. pc'[w] = "idle" /\ Len(stack'[w]) = 0
      BY <1>t, <1>r, <1>s, <2>2 DEF IInv, TypeOK
    <3> QED BY <2>1, <3>1 DEF Placed, Rehashing
  <2>3. CASE Len(stack[w]) # 1
    <3>1. pc'[w] = "scan" /\ Len(stack'[w]) >= 1 /\ Len(stack'[w]) \in Nat
      BY <1>t, <1>r, <1>s, <2>3 DEF IInv, TypeOK
    <3>2. /\ Putting(w)'
          /\ Rehashing(stack'[w][1])
          /\ \A n \in 2..Len(stack'[w]) : Rehashing(stack'[w][n])
      BY <3>1, <2>1 DEF Putting
    <3> QED BY <3>1, <3>2 DEF Placed, Rehashing
  <2> QED BY <2>2, <2>3
<1>6. ChainsAscend'
  BY DEF IInv, ChainsAscend, Replace, Forget, Goto, Ins, NewValue, Putting, Return, Target,
       Usable, mvars, avars, gvars
<1> QED BY <1>1, <1>2, <1>4, <1>5, <1>6 DEF IInv

(* hash_map_rehash decides whether the table grows.                        *)
LEMMA CheckInv ==
  ASSUME IInv, NEW w \in Writer, Check(w)
  PROVE  IInv'
<1>t. w \in Thread
  BY ThreadAssumption
<1>p. Putting(w)
  BY <1>t DEF IInv, Placed, Check
<1>a. /\ Full => 2 * size \in Nat /\ 2 * size > 0
      /\ ask' \in [Thread -> Nat] /\ (Full => ask'[w] = 2 * size)
      /\ \A x \in Thread : x # w => ask'[x] = ask[x]
  BY <1>t DEF IInv, TypeOK, Check
<1>1. TypeOK'
  BY <1>t, <1>a DEF IInv, TypeOK, EntryOrNull, PtrDom, Check, Goto, mvars, avars, nvars, lvars
<1>2. Allocated'
  BY <1>t DEF IInv, TypeOK, EntryOrNull, PtrDom, Allocated, Known, Check, Goto, mvars,
       avars, nvars, lvars
<1>3. KeysKept
  BY DEF KeysKept, Check, Goto, mvars, avars, nvars, lvars
<1>4. ASSUME NEW x \in Thread, x # w PROVE Placed(x)'
  BY <1>t, <1>a, <1>3, <1>4, OtherThread DEF IInv, TypeOK, Check, Goto, mvars, avars, nvars,
       lvars
<1>5. Placed(w)'
  BY <1>t, <1>a, <1>p DEF IInv, TypeOK, Placed, Putting, Check, Goto
<1>6. ChainsAscend'
  BY DEF IInv, ChainsAscend, Check, Goto, mvars, avars, nvars, lvars
<1> QED BY <1>1, <1>2, <1>4, <1>5, <1>6 DEF IInv

(* It saves the old array...                                               *)
LEMMA SaveInv ==
  ASSUME IInv, NEW w \in Writer, Save(w)
  PROVE  IInv'
<1>t. w \in Thread
  BY ThreadAssumption
<1>p. Putting(w)
  BY <1>t DEF IInv, Placed, Save
<1>a. /\ saved' \in [Thread -> Array \cup {NULL}] /\ saved'[w] \in Array
      /\ \A x \in Thread : x # w => saved'[x] = saved[x]
  BY <1>t DEF IInv, TypeOK, Save
<1>1. TypeOK'
  BY <1>t, <1>a DEF IInv, TypeOK, EntryOrNull, PtrDom, Save, Goto, mvars, avars, nvars, lvars
<1>2. Allocated'
  BY <1>t DEF IInv, TypeOK, EntryOrNull, PtrDom, Allocated, Known, Save, Goto, mvars,
       avars, nvars, lvars
<1>3. KeysKept
  BY DEF KeysKept, Save, Goto, mvars, avars, nvars, lvars
<1>4. ASSUME NEW x \in Thread, x # w PROVE Placed(x)'
  BY <1>t, <1>a, <1>3, <1>4, OtherThread DEF IInv, TypeOK, Save, Goto, mvars, avars, nvars,
       lvars
<1>5. Placed(w)'
  BY <1>t, <1>a, <1>p DEF IInv, TypeOK, Placed, Putting, Save, Goto
<1>6. ChainsAscend'
  BY DEF IInv, ChainsAscend, Save, Goto, mvars, avars, nvars, lvars
<1> QED BY <1>1, <1>2, <1>4, <1>5, <1>6 DEF IInv

(* ... and its length, and the count starts again.                         *)
LEMMA GrowInv ==
  ASSUME IInv, NEW w \in Writer, Grow(w)
  PROVE  IInv'
<1>t. w \in Thread
  BY ThreadAssumption
<1>p. Putting(w)
  BY <1>t DEF IInv, Placed, Grow
<1>m. stack[w] \in Seq(FrameDom) /\ stack[w] # << >> /\ Head(stack[w]) = stack[w][1]
      /\ stack[w][1] \in FrameDom /\ Len(stack[w]) \in Nat /\ Len(stack[w]) >= 1
      /\ Known(stack[w][1].entry) /\ Known(stack[w][1].todo)
  BY <1>t, <1>p, TopFrame DEF Known
<1> DEFINE f == Activation(stack[w][1].entry, saved[w], size, 0, NULL)
<1>f. /\ f \in FrameDom /\ f.entry = stack[w][1].entry /\ f.todo = NULL
      /\ f.old \in Array /\ f.n > 0
      /\ stack' = [stack EXCEPT ![w] = <<f>> \o Tail(stack[w])]
  BY <1>t, <1>m DEF Activation, PtrDom, FrameDom, IInv, TypeOK, Placed, Ins, Grow, SetTop
<1> HIDE DEF f
<1>s. /\ stack' \in [Thread -> Seq(FrameDom)] /\ stack'[w] # << >>
      /\ Len(stack'[w]) = Len(stack[w]) /\ stack'[w][1] = f
      /\ \A n \in 2..Len(stack[w]) : stack'[w][n] = stack[w][n]
      /\ \A x \in Thread : x # w => stack'[x] = stack[x]
  BY <1>t, <1>m, <1>f, TopSeq DEF IInv, TypeOK
<1>a. /\ saved' \in [Thread -> Array \cup {NULL}]
      /\ \A x \in Thread : x # w => saved'[x] = saved[x]
  BY <1>t DEF IInv, TypeOK, Grow
<1>1. TypeOK'
  BY <1>t, <1>s, <1>a DEF IInv, TypeOK, Grow, NewCount, Goto, avars, nvars, lvars
<1>2. Allocated'
  <2>1. \A x \in Thread : \A n \in 1..Len(stack'[x]) :
          Known(stack'[x][n].entry) /\ Known(stack'[x][n].todo)
    <3>1. \A n \in 1..Len(stack'[w]) : n = 1 \/ n \in 2..Len(stack[w])
      BY <1>s, <1>m
    <3>2. \A n \in 2..Len(stack[w]) : n \in 1..Len(stack[w])
      BY <1>m
    <3>3. Known(f.entry) /\ Known(f.todo)
      BY <1>m, <1>f, NullAssumption DEF Known
    <3>4. \A n \in 1..Len(stack'[w]) : Known(stack'[w][n].entry) /\ Known(stack'[w][n].todo)
      BY <1>t, <1>s, <3>1, <3>2, <3>3 DEF IInv, Allocated
    <3> QED BY <1>s, <3>4 DEF IInv, Allocated
  <2> QED BY <2>1 DEF IInv, Allocated, Known, Grow, avars, nvars, lvars
<1>3. KeysKept
  BY DEF KeysKept, Grow, Goto, Ins, NewCount, SetTop, avars, nvars, lvars
<1>4. ASSUME NEW x \in Thread, x # w PROVE Placed(x)'
  BY <1>t, <1>a, <1>3, <1>4, OtherThread DEF IInv, TypeOK, Grow, Goto, Ins, NewCount, SetTop,
       avars, nvars, lvars
<1>5. Placed(w)'
  BY <1>t, <1>s, <1>f DEF IInv, TypeOK, Placed, Putting, Rehashing, Grow, Goto
<1>6. ChainsAscend'
  BY DEF IInv, ChainsAscend, Grow, Goto, Ins, NewCount, SetTop, avars, nvars, lvars
<1> QED BY <1>1, <1>2, <1>4, <1>5, <1>6 DEF IInv

(* It stores the new size.                                                 *)
LEMMA ResizeInv ==
  ASSUME IInv, NEW w \in Writer, Resize(w)
  PROVE  IInv'
<1>t. w \in Thread
  BY ThreadAssumption
<1>p. Putting(w)
  BY <1>t DEF IInv, Placed, Resize
<1>n. ask[w] \in Nat \ {0}
  BY <1>t DEF IInv, TypeOK, Placed, Resize
<1>1. TypeOK'
  BY <1>t, <1>n DEF IInv, TypeOK, Resize, Goto, avars, nvars, gvars, lvars
<1>2. Allocated'
  BY <1>t DEF IInv, TypeOK, EntryOrNull, PtrDom, Allocated, Known, Resize, Goto, avars,
       nvars, gvars, lvars
<1>3. KeysKept
  BY DEF KeysKept, Resize, Goto, avars, nvars, gvars, lvars
<1>4. ASSUME NEW x \in Thread, x # w PROVE Placed(x)'
  BY <1>t, <1>3, <1>4, OtherThread DEF IInv, TypeOK, Resize, Goto, avars, nvars, gvars, lvars
<1>5. Placed(w)'
  BY <1>t, <1>p DEF IInv, TypeOK, Placed, Putting, Rehashing, Resize, Goto, gvars
<1>6. ChainsAscend'
  BY DEF IInv, ChainsAscend, Resize, Goto, avars, nvars, gvars, lvars
<1> QED BY <1>1, <1>2, <1>4, <1>5, <1>6 DEF IInv

(* It takes a new array.                                                   *)
LEMMA AllocInv ==
  ASSUME IInv, NEW w \in Writer, Alloc(w)
  PROVE  IInv'
<1>t. w \in Thread
  BY ThreadAssumption
<1>p. Putting(w)
  BY <1>t DEF IInv, Placed, Alloc
<1>a. PICK a \in Array :
        /\ arr' = [arr EXCEPT ![a] = [i \in 0..(ask[w] - 1) |-> Junk]]
        /\ live' = live \cup {a} /\ entries' = a
  BY DEF Alloc, Unallocated
<1>k. /\ ask' \in [Thread -> Nat]
      /\ \A x \in Thread : x # w => ask'[x] = ask[x]
  BY <1>t DEF IInv, TypeOK, Alloc
<1>1. TypeOK'
  BY <1>t, <1>a, <1>k DEF IInv, TypeOK, PtrDom, Alloc, Goto, nvars, lvars
<1>2. Allocated'
  BY <1>a, NullAssumption DEF IInv, TypeOK, Allocated, Known, Alloc, nvars, lvars
<1>3. KeysKept
  BY DEF KeysKept, Alloc, Goto, Unallocated, nvars, lvars
<1>4. ASSUME NEW x \in Thread, x # w PROVE Placed(x)'
  BY <1>t, <1>k, <1>3, <1>4, OtherThread DEF IInv, TypeOK, Alloc, Goto, Unallocated, nvars,
       lvars
<1>5. Placed(w)'
  BY <1>t, <1>p DEF IInv, TypeOK, Placed, Putting, Rehashing, Alloc, Goto
<1>6. ChainsAscend'
  BY DEF IInv, ChainsAscend, Alloc, Goto, Unallocated, nvars, lvars
<1> QED BY <1>1, <1>2, <1>4, <1>5, <1>6 DEF IInv

(* It clears the new array.                                                *)
LEMMA ZeroInv ==
  ASSUME IInv, NEW w \in Writer, Zero(w)
  PROVE  IInv'
<1>t. w \in Thread
  BY ThreadAssumption
<1>p. Putting(w)
  BY <1>t DEF IInv, Placed, Zero
<1>1. TypeOK'
  BY <1>t DEF IInv, TypeOK, EntryOrNull, PtrDom, Zero, Goto, mvars, nvars, gvars, lvars
<1>2. Allocated'
  BY NullAssumption DEF IInv, TypeOK, Allocated, Known, Zero, nvars, lvars
<1>3. KeysKept
  BY DEF KeysKept, Zero, Goto, mvars, nvars, gvars, lvars
<1>4. ASSUME NEW x \in Thread, x # w PROVE Placed(x)'
  BY <1>t, <1>3, <1>4, OtherThread DEF IInv, TypeOK, Zero, Goto, mvars, nvars, gvars, lvars
<1>5. Placed(w)'
  BY <1>t, <1>p DEF IInv, TypeOK, Placed, Putting, Rehashing, Zero, Goto
<1>6. ChainsAscend'
  BY DEF IInv, ChainsAscend, Zero, Goto, mvars, nvars, gvars, lvars
<1> QED BY <1>1, <1>2, <1>4, <1>5, <1>6 DEF IInv

(* It takes the next bucket of the old array.                              *)
LEMMA ScanInv ==
  ASSUME IInv, NEW w \in Writer, Scan(w)
  PROVE  IInv'
<1>t. w \in Thread
  BY ThreadAssumption
<1>p. Putting(w)
  BY <1>t DEF IInv, Placed, Scan
<1>m. stack[w] \in Seq(FrameDom) /\ stack[w] # << >> /\ Head(stack[w]) = stack[w][1]
      /\ stack[w][1] \in FrameDom /\ Len(stack[w]) \in Nat /\ Len(stack[w]) >= 1
      /\ Known(stack[w][1].entry) /\ Known(stack[w][1].todo)
  BY <1>t, <1>p, TopFrame DEF Known
<1>o. stack[w][1].old \in Array /\ stack[w][1].n > 0
  BY <1>t DEF IInv, Placed, Rehashing, Scan
<1>l. PICK p \in Load(stack[w][1].old, stack[w][1].i) :
        stack' = SetTop(w, Activation(stack[w][1].entry, stack[w][1].old, stack[w][1].n,
                                   stack[w][1].i + 1, p))
  BY <1>m DEF Scan
<1>d. p \in PtrDom /\ Known(p)
  BY <1>o, NullAssumption DEF IInv, TypeOK, PtrDom, Allocated, Known, Load
<1> DEFINE f == Activation(stack[w][1].entry, stack[w][1].old, stack[w][1].n,
                           stack[w][1].i + 1, p)
<1>f. /\ f \in FrameDom /\ f.entry = stack[w][1].entry /\ f.todo = p
      /\ f.old \in Array /\ f.n > 0
      /\ stack' = [stack EXCEPT ![w] = <<f>> \o Tail(stack[w])]
  BY <1>m, <1>o, <1>l, <1>d DEF Activation, FrameDom, SetTop
<1> HIDE DEF f
<1>s. /\ stack' \in [Thread -> Seq(FrameDom)] /\ stack'[w] # << >>
      /\ Len(stack'[w]) = Len(stack[w]) /\ stack'[w][1] = f
      /\ \A n \in 2..Len(stack[w]) : stack'[w][n] = stack[w][n]
      /\ \A x \in Thread : x # w => stack'[x] = stack[x]
  BY <1>t, <1>m, <1>f, TopSeq DEF IInv, TypeOK
<1>1. TypeOK'
  BY <1>t, <1>s DEF IInv, TypeOK, Scan, mvars, avars, nvars, gvars, lvars
<1>2. Allocated'
  <2>1. \A x \in Thread : \A n \in 1..Len(stack'[x]) :
          Known(stack'[x][n].entry) /\ Known(stack'[x][n].todo)
    <3>1. \A n \in 1..Len(stack'[w]) : n = 1 \/ n \in 2..Len(stack[w])
      BY <1>s, <1>m
    <3>2. \A n \in 2..Len(stack[w]) : n \in 1..Len(stack[w])
      BY <1>m
    <3>3. Known(f.entry) /\ Known(f.todo)
      BY <1>m, <1>f, <1>d
    <3>4. \A n \in 1..Len(stack'[w]) : Known(stack'[w][n].entry) /\ Known(stack'[w][n].todo)
      BY <1>t, <1>s, <3>1, <3>2, <3>3 DEF IInv, Allocated
    <3> QED BY <1>s, <3>4 DEF IInv, Allocated
  <2> QED BY <2>1 DEF IInv, Allocated, Known, Scan, avars, nvars, lvars
<1>3. KeysKept
  BY DEF KeysKept, Scan, Load, SetTop, mvars, avars, nvars, gvars, lvars
<1>4. ASSUME NEW x \in Thread, x # w PROVE Placed(x)'
  BY <1>t, <1>3, <1>4, OtherThread DEF IInv, TypeOK, Scan, Load, SetTop, mvars, avars,
       nvars, gvars, lvars
<1>5. Placed(w)'
  BY <1>t, <1>s, <1>f DEF IInv, TypeOK, Placed, Putting, Rehashing, Scan
<1>6. ChainsAscend'
  BY DEF IInv, ChainsAscend, Scan, Load, SetTop, mvars, avars, nvars, gvars, lvars
<1> QED BY <1>1, <1>2, <1>4, <1>5, <1>6 DEF IInv

(* It takes an entry out of the old chain and puts it again.               *)
LEMMA MoveInv ==
  ASSUME IInv, NEW w \in Writer, Move(w)
  PROVE  IInv'
<1>t. w \in Thread
  BY ThreadAssumption
<1>p. Putting(w)
  BY <1>t DEF IInv, Placed, Move
<1>m. stack[w] \in Seq(FrameDom) /\ stack[w] # << >> /\ Head(stack[w]) = stack[w][1]
      /\ stack[w][1] \in FrameDom /\ Len(stack[w]) \in Nat /\ Len(stack[w]) >= 1
      /\ Known(stack[w][1].entry) /\ Known(stack[w][1].todo)
  BY <1>t, <1>p, TopFrame DEF Known
<1>o. stack[w][1].old \in Array /\ stack[w][1].n > 0
  BY <1>t DEF IInv, Placed, Rehashing, Move
<1>e. stack[w][1].todo \in Entry /\ mem[stack[w][1].todo] = "used"
  BY <1>m DEF Move, Usable
<1> DEFINE e == stack[w][1].todo
           f == Activation(stack[w][1].entry, stack[w][1].old, stack[w][1].n,
                           stack[w][1].i, next[e])
           r == <<f>> \o Tail(stack[w])
<1>f. /\ Frame(e) \in FrameDom /\ Frame(e).entry = e /\ Frame(e).todo = NULL
      /\ f \in FrameDom /\ f.entry = stack[w][1].entry /\ f.todo = next[e]
      /\ f.old \in Array /\ f.n > 0
  BY <1>m, <1>o, <1>e DEF Activation, FrameDom, Frame, PtrDom, IInv, TypeOK, EntryOrNull
<1>g. /\ next' = [next EXCEPT ![e] = NULL]
      /\ stack' = [stack EXCEPT ![w] = <<Frame(e), f>> \o Tail(stack[w])]
  BY <1>m DEF Move, Detached, Temp
<1> HIDE DEF f
<1>h. <<Frame(e), f>> \o Tail(stack[w]) = <<Frame(e)>> \o r
  <2>1. Tail(stack[w]) \in Seq(FrameDom)
    BY <1>m, TailSeq
  <2> QED BY <1>f, <2>1, PushTwo
<1> HIDE DEF e
<1>r. /\ r \in Seq(FrameDom) /\ Len(r) = Len(stack[w]) /\ r[1] = f
      /\ \A n \in 2..Len(stack[w]) : r[n] = stack[w][n]
  BY <1>m, <1>f, TopSeq
<1> HIDE DEF r
<1>s. /\ stack' \in [Thread -> Seq(FrameDom)] /\ stack'[w] # << >>
      /\ Len(stack'[w]) = Len(stack[w]) + 1 /\ stack'[w][1] = Frame(e) /\ stack'[w][2] = f
      /\ \A n \in 3..Len(stack'[w]) : n - 1 \in 2..Len(stack[w]) /\ stack'[w][n] = stack[w][n-1]
      /\ \A x \in Thread : x # w => stack'[x] = stack[x]
  <2>1. /\ <<Frame(e)>> \o r \in Seq(FrameDom) /\ Len(<<Frame(e)>> \o r) = Len(r) + 1
        /\ (<<Frame(e)>> \o r)[1] = Frame(e) /\ <<Frame(e)>> \o r # << >>
        /\ \A n \in 2..Len(r) + 1 : (<<Frame(e)>> \o r)[n] = r[n-1]
    BY <1>f, <1>r, PushSeq
  <2> QED BY <1>t, <1>m, <1>g, <1>h, <1>r, <2>1 DEF IInv, TypeOK
<1>n. next' \in [Entry -> EntryOrNull] /\ \A d \in Entry : next'[d] = next[d] \/ next'[d] = NULL
  BY <1>g DEF IInv, TypeOK, EntryOrNull
<1>1. TypeOK'
  BY <1>t, <1>s, <1>n DEF IInv, TypeOK, Move, Goto, mvars, avars, gvars, lvars
<1>2. Allocated'
  <2>1. \A x \in Thread : \A n \in 1..Len(stack'[x]) :
          Known(stack'[x][n].entry) /\ Known(stack'[x][n].todo)
    <3>1. Known(e) /\ Known(next[e]) /\ Known(NULL)
      BY <1>e, NullAssumption DEF IInv, Allocated, Known, e
    <3>2. \A n \in 1..Len(stack'[w]) : n = 1 \/ n = 2 \/ n \in 3..Len(stack'[w])
      BY <1>s, <1>m
    <3>3. \A n \in 2..Len(stack[w]) : n \in 1..Len(stack[w])
      BY <1>m
    <3>4. Known(f.entry) /\ Known(f.todo) /\ Known(Frame(e).entry) /\ Known(Frame(e).todo)
      BY <1>m, <1>f, <3>1
    <3>5. \A n \in 1..Len(stack'[w]) : Known(stack'[w][n].entry) /\ Known(stack'[w][n].todo)
      BY <1>t, <1>s, <3>2, <3>3, <3>4 DEF IInv, Allocated
    <3> QED BY <1>s, <3>5 DEF IInv, Allocated
  <2> QED BY <2>1, <1>n, NullAssumption DEF IInv, Allocated, Known, Move, avars, lvars
<1>3. KeysKept
  BY DEF KeysKept, Move, Detached, Frame, Goto, Temp, Usable, mvars, avars, gvars, lvars
<1>4. ASSUME NEW x \in Thread, x # w PROVE Placed(x)'
  BY <1>t, <1>3, <1>4, OtherThread DEF IInv, TypeOK, Move, Detached, Frame, Goto, Temp,
       Usable, mvars, avars, gvars, lvars
<1>5. Placed(w)'
  <2>1. \A n \in 2..Len(stack'[w]) : n = 2 \/ n \in 3..Len(stack'[w])
    BY <1>s, <1>m
  <2>2. \A n \in 2..Len(stack'[w]) : Rehashing(stack'[w][n])
    BY <1>t, <1>s, <1>f, <2>1 DEF IInv, Placed, Rehashing
  <2>3. pc'[w] = "check"
    BY <1>t DEF IInv, TypeOK, Move, Goto
  <2> QED BY <1>s, <2>2, <2>3 DEF Placed, Putting, Rehashing
<1>6. ChainsAscend'
  BY <1>n, <1>g DEF IInv, TypeOK, ChainsAscend, Move
<1> QED BY <1>1, <1>2, <1>4, <1>5, <1>6 DEF IInv

(* It frees the old array.                                                 *)
LEMMA FreeOldInv ==
  ASSUME IInv, NEW w \in Writer, FreeOld(w)
  PROVE  IInv'
<1>t. w \in Thread
  BY ThreadAssumption
<1>p. Putting(w)
  BY <1>t DEF IInv, Placed, FreeOld
<1>1. TypeOK'
  BY <1>t DEF IInv, TypeOK, EntryOrNull, PtrDom, FreeOld, Goto, Released, mvars, nvars,
       gvars, lvars
<1>2. Allocated'
  BY <1>t DEF IInv, TypeOK, EntryOrNull, PtrDom, Allocated, Known, FreeOld, Goto, Released,
       mvars, nvars, gvars, lvars
<1>3. KeysKept
  BY DEF KeysKept, FreeOld, Goto, Released, mvars, nvars, gvars, lvars
<1>4. ASSUME NEW x \in Thread, x # w PROVE Placed(x)'
  BY <1>t, <1>3, <1>4, OtherThread DEF IInv, TypeOK, FreeOld, Goto, Released, mvars, nvars,
       gvars, lvars
<1>5. Placed(w)'
  BY <1>t, <1>p DEF IInv, TypeOK, Placed, Putting, Rehashing, FreeOld, Goto
<1>6. ChainsAscend'
  BY DEF IInv, ChainsAscend, FreeOld, Goto, Released, mvars, nvars, gvars, lvars
<1> QED BY <1>1, <1>2, <1>4, <1>5, <1>6 DEF IInv

-----------------------------------------------------------------------------
(* So every step keeps the invariant,                                      *)
LEMMA StepInv == ASSUME IInv, Next PROVE IInv'
<1>1. ASSUME NEW t \in Thread, Step(t) PROVE IInv'
  <2>1. CASE Index(t) \/ Base(t) \/ HeadOf(t) \/ Advance(t) \/ Answer(t) \/ Fault(t)
    BY <2>1, IndexInv, BaseInv, HeadOfInv, AdvanceInv, AnswerInv, FaultInv
  <2>2. CASE t \in Writer /\ PutStep(t)
    BY <2>2, PublishInv, LinkInv, CountInv, ReplaceInv, CheckInv, SaveInv, GrowInv, ResizeInv,
       AllocInv, ZeroInv, ScanInv, MoveInv, FreeOldInv DEF PutStep
  <2> QED BY <1>1, <2>1, <2>2 DEF Step
<1> QED BY <1>1, PutInv, GetInv DEF Next

(* and so does a step that changes nothing.                                *)
LEMMA StutterInv == ASSUME IInv, UNCHANGED vars PROVE IInv'
<1>1. TypeOK' /\ Allocated' /\ KeysKept /\ ChainsAscend'
  BY DEF IInv, TypeOK, Allocated, Known, KeysKept, ChainsAscend, vars, mvars, avars,
         nvars, gvars, lvars
<1>2. \A x \in Thread : Placed(x)'
  BY <1>1, OtherThread DEF vars, gvars, lvars
<1> QED BY <1>1, <1>2 DEF IInv

(* The inductive invariant holds in every reachable state.                 *)
THEOREM Invariance == Spec => []IInv
<1>1. IInv /\ [Next]_vars => IInv'
  BY StepInv, StutterInv
<1> QED BY InitInv, <1>1, PTL DEF Spec

(* Every variable of the table and of its callers keeps its type, for any  *)
(* number of threads that put and rehash without a lock.                   *)
THEOREM TypeCorrect == Spec => []TypeOK
<1>1. IInv => TypeOK
  BY DEF IInv
<1> QED BY Invariance, <1>1, PTL

(* However many threads insert and rehash at once, the keys of every chain *)
(* strictly ascend: hash_map_get cannot go round in a circle.              *)
THEOREM Ascending == Spec => []ChainsAscend
<1>1. IInv => ChainsAscend
  BY DEF IInv
<1> QED BY Invariance, <1>1, PTL
-----------------------------------------------------------------------------
(* p is the one of S with the smallest key, or NULL.                       *)
First(p, S, ky) == IF S = {} THEN p = NULL ELSE p \in S /\ \A d \in S : ky[p] <= ky[d]

(* From p the links nx lead through S in the order of its keys.            *)
Listed(p, S, nx, ky) ==
  /\ First(p, S, ky)
  /\ \A e \in S : First(nx[e], {d \in S : ky[e] < ky[d]}, ky)

Distinct(S, ky) == \A d, e \in S : ky[d] = ky[e] => d = e
Numbered(S, ky) == NULL \notin S /\ \A e \in S : ky[e] \in Nat

(* A list of nothing.                                                      *)
LEMMA ListedEmpty ==
  ASSUME NEW nx, NEW ky, NEW p
  PROVE  Listed(p, {}, nx, ky) <=> p = NULL
BY DEF Listed, First

(* The links of other entries do not matter.                               *)
LEMMA ListedSame ==
  ASSUME NEW p, NEW S, NEW nx, NEW ky, NEW nx2, NEW ky2, Listed(p, S, nx, ky),
         \A e \in S : nx2[e] = nx[e] /\ ky2[e] = ky[e]
  PROVE  Listed(p, S, nx2, ky2)
<1>1. \A q, T : T \subseteq S /\ First(q, T, ky) => First(q, T, ky2)
  BY DEF First
<1>2. \A e \in S : {d \in S : ky2[e] < ky2[d]} = {d \in S : ky[e] < ky[d]}
  OBVIOUS
<1>3. First(p, S, ky2)
  BY <1>1 DEF Listed
<1>4. ASSUME NEW e \in S PROVE First(nx2[e], {d \in S : ky2[e] < ky2[d]}, ky2)
  <2> DEFINE T == {d \in S : ky[e] < ky[d]}
  <2>1. First(nx[e], T, ky) /\ T \subseteq S
    BY DEF Listed
  <2> HIDE DEF T
  <2>2. First(nx[e], T, ky2)
    BY <1>1, <2>1
  <2> QED BY <1>2, <2>2 DEF T
<1> QED BY <1>3, <1>4 DEF Listed

(* What a list can lead to.                                                *)
LEMMA ListedIn ==
  ASSUME NEW p, NEW S, NEW nx, NEW ky, Listed(p, S, nx, ky)
  PROVE  /\ p \in S \cup {NULL} /\ (p = NULL /\ NULL \notin S => S = {})
         /\ \A e \in S : nx[e] \in S \cup {NULL}
BY DEF Listed, First

(* The rest of a list.                                                     *)
LEMMA ListedRest ==
  ASSUME NEW p, NEW S, NEW nx, NEW ky, Listed(p, S, nx, ky),
         Distinct(S, ky), Numbered(S, ky), p # NULL
  PROVE  /\ p \in S /\ S \ {p} = {d \in S : ky[p] < ky[d]}
         /\ Listed(nx[p], S \ {p}, nx, ky)
<1>1. p \in S /\ \A d \in S : ky[p] <= ky[d]
  BY DEF Listed, First
<1>2. S \ {p} = {d \in S : ky[p] < ky[d]}
  BY <1>1 DEF Distinct, Numbered
<1>3. First(nx[p], S \ {p}, ky)
  BY <1>1, <1>2 DEF Listed
<1>4. ASSUME NEW e \in S \ {p} PROVE First(nx[e], {d \in S \ {p} : ky[e] < ky[d]}, ky)
  <2>1. {d \in S \ {p} : ky[e] < ky[d]} = {d \in S : ky[e] < ky[d]}
    BY <1>1, <1>4 DEF Numbered
  <2> QED BY <1>4, <2>1 DEF Listed
<1> QED BY <1>1, <1>2, <1>3, <1>4 DEF Listed

(* Where x belongs: behind q, before c.  And the links that put it there.  *)
Between(x, q, c, p, S, nx, ky) ==
  /\ \/ q = NULL /\ c = p
     \/ q \in S /\ ky[q] < ky[x] /\ c = nx[q]
  /\ c = NULL \/ ky[x] < ky[c]
Spliced(nx2, x, q, c, S, nx) ==
  nx2[x] = c /\ (q \in S => nx2[q] = x) /\ \A e \in S : e # q => nx2[e] = nx[e]

(* An entry put where it belongs.                                          *)
LEMMA ListedInsert ==
  ASSUME NEW p, NEW S, NEW nx, NEW ky, Listed(p, S, nx, ky), Distinct(S, ky),
         NEW x, x \notin S, Numbered(S \cup {x}, ky),
         NEW q, NEW c, Between(x, q, c, p, S, nx, ky),
         NEW nx2, Spliced(nx2, x, q, c, S, nx)
  PROVE  /\ Listed(IF q = NULL THEN x ELSE p, S \cup {x}, nx2, ky)
         /\ Distinct(S \cup {x}, ky)
<1> DEFINE U == S \cup {x}
<1>1. NULL \notin U /\ \A e \in U : ky[e] \in Nat
  BY DEF Numbered
<1>2. First(p, S, ky) /\ \A e \in S : First(nx[e], {d \in S : ky[e] < ky[d]}, ky)
  BY DEF Listed
<1>a. /\ \/ q = NULL /\ c = p
         \/ q \in S /\ ky[q] < ky[x] /\ c = nx[q]
      /\ c = NULL \/ ky[x] < ky[c]
      /\ nx2[x] = c /\ (q \in S => nx2[q] = x) /\ \A e \in S : e # q => nx2[e] = nx[e]
  BY DEF Between, Spliced
<1>3. CASE q = NULL
  <2>1. c = p /\ \A d \in S : ky[x] < ky[d]
    BY <1>a, <1>1, <1>2, <1>3 DEF First
  <2>2. First(x, U, ky)
    BY <1>1, <2>1 DEF First
  <2>3. First(nx2[x], {d \in U : ky[x] < ky[d]}, ky)
    <3>1. {d \in U : ky[x] < ky[d]} = S
      BY <1>1, <2>1
    <3> QED BY <1>a, <1>2, <2>1, <3>1
  <2>4. ASSUME NEW e \in S PROVE First(nx2[e], {d \in U : ky[e] < ky[d]}, ky)
    <3>1. {d \in U : ky[e] < ky[d]} = {d \in S : ky[e] < ky[d]}
      BY <1>1, <2>1, <2>4
    <3> QED BY <1>a, <1>1, <1>2, <1>3, <2>4, <3>1
  <2>5. \A e \in U : First(nx2[e], {d \in U : ky[e] < ky[d]}, ky)
    BY <2>3, <2>4
  <2>6. Distinct(U, ky)
    BY <1>1, <2>1 DEF Distinct
  <2> QED BY <1>3, <2>2, <2>5, <2>6 DEF Listed
<1>4. CASE q # NULL
  <2>1. q \in S /\ ky[q] < ky[x] /\ c = nx[q]
    BY <1>a, <1>4
  <2>2. First(c, {d \in S : ky[q] < ky[d]}, ky)
    BY <1>2, <2>1
  <2>3. \A d \in S : ky[q] < ky[d] => c \in S /\ ky[x] < ky[c] /\ ky[c] <= ky[d] /\ ky[x] < ky[d]
    BY <1>a, <1>1, <2>1, <2>2 DEF First
  <2>4. First(p, U, ky) /\ p # NULL
    BY <1>1, <1>2, <2>1 DEF First
  <2>5. First(c, {d \in U : ky[x] < ky[d]}, ky)
    <3> DEFINE T == {d \in U : ky[x] < ky[d]}
    <3>1. \A d \in T : d \in S /\ ky[q] < ky[d]
      BY <1>1, <2>1
    <3>2. CASE T = {}
      <4>1. c = NULL
        <5>1. c # NULL => c \in S /\ ky[x] < ky[c]
             BY <1>a, <2>2 DEF First
        <5> QED BY <3>2, <5>1
      <4> QED BY <3>2, <4>1 DEF First
    <3>3. CASE T # {}
      <4>1. c \in T /\ \A d \in T : ky[c] <= ky[d]
        BY <2>3, <3>1, <3>3
      <4> QED BY <3>3, <4>1 DEF First
    <3> QED BY <3>2, <3>3
  <2>6. First(x, {d \in U : ky[q] < ky[d]}, ky)
    BY <1>1, <2>1, <2>3 DEF First
  <2>7. ASSUME NEW e \in S, e # q PROVE First(nx2[e], {d \in U : ky[e] < ky[d]}, ky)
    <3> DEFINE T == {d \in S : ky[e] < ky[d]}
    <3>1. First(nx[e], T, ky) /\ nx2[e] = nx[e]
      BY <1>a, <1>2, <2>7
    <3>2. ky[e] # ky[q]
      BY <2>1, <2>7 DEF Distinct
    <3>3. CASE ky[q] < ky[e]
      <4>1. {d \in U : ky[e] < ky[d]} = T
        BY <1>1, <2>3, <2>7, <3>3
      <4> QED BY <3>1, <4>1
    <3>4. CASE ky[e] < ky[q]
      <4>1. q \in T /\ ky[e] < ky[x]
        BY <1>1, <2>1, <2>7, <3>4
      <4>2. nx[e] \in T /\ (\A d \in T : ky[nx[e]] <= ky[d]) /\ ky[nx[e]] < ky[x]
        BY <1>1, <2>1, <3>1, <4>1 DEF First
      <4>3. {d \in U : ky[e] < ky[d]} = T \cup {x}
        BY <4>1
      <4> HIDE DEF T
      <4>4. ky[nx[e]] <= ky[x]
        BY <1>1, <4>2 DEF T
      <4>5. First(nx[e], T \cup {x}, ky)
        BY <4>2, <4>4 DEF First
      <4> QED BY <3>1, <4>3, <4>5
    <3> QED BY <1>1, <2>1, <2>7, <3>2, <3>3, <3>4
  <2>8. ASSUME NEW e \in U PROVE First(nx2[e], {d \in U : ky[e] < ky[d]}, ky)
    <3>1. CASE e = x
      BY <1>a, <2>5, <3>1
    <3>2. CASE e = q
      BY <1>a, <2>1, <2>6, <3>2
    <3>3. CASE e \in S /\ e # q
      BY <2>7, <3>3
    <3> QED BY <3>1, <3>2, <3>3
  <2>9. Distinct(U, ky)
    BY <1>1, <2>1, <2>3 DEF Distinct
  <2> QED BY <1>4, <2>4, <2>8, <2>9 DEF Listed
<1> QED BY <1>3, <1>4
-----------------------------------------------------------------------------
(* One writer.  What its rehash has not yet taken from the old array: what *)
(* the slots from f.i on hold, and the rest of the one it is at.           *)
Bottom(w)    == stack[w][Len(stack[w])]
Refilling(w) == Len(stack[w]) = 2 \/ pc[w] \in {"resize", "alloc", "zero", "scan"}

Slot(e, n) == Hash[key[e]] % n
Behind(e, f) ==
  \/ f.i <= Slot(e, f.n)
  \/ f.i = Slot(e, f.n) + 1 /\ f.todo \in Entry /\ key[f.todo] <= key[e]
Left(w) == {e \in Stored : Refilling(w) /\ Behind(e, Bottom(w))}

(* What hangs in the current array: all but that and the entry being moved. *)
Hanging      == {"link", "count"}
Moving(w)    == IF Len(stack[w]) = 2 /\ pc[w] \notin Hanging THEN {Ins(w)} ELSE {}
Hung(w)      == (Stored \ Left(w)) \ Moving(w)
Uncounted(w) == IF pc[w] \in Hanging THEN {Ins(w)} ELSE {}
Bucket(w, j)    == {e \in Hung(w) : Slot(e, size) = j}
OldBucket(w, j) == {e \in Left(w) : Slot(e, Bottom(w).n) = j}

(* The links, the one the writer is about to store included.               *)
Links(w) == [e \in Entry |-> IF pc[w] = "link" /\ e = Ins(w) THEN cur[w] ELSE next[e]]

(* Inductive, with one writer.  No pointer leads to an entry not stored.   *)
Reach(w) ==
  /\ \A a \in Array : \A i \in DOMAIN arr[a] : arr[a][i] \in Entry => arr[a][i] \in Stored
  /\ \A e \in InUse : next[e] \in Stored \cup {NULL}
  /\ \A t \in Thread : cur[t] \in Entry => cur[t] \in Stored
  /\ prev[w] \in Stored \cup {NULL}
  /\ Putting(w) => Outer(w) \in InUse
  /\ Len(stack[w]) = 2 => Ins(w) \in Stored

(* The activations, one or two.                                            *)
Phase(w) ==
  /\ Len(stack[w]) <= 2
  /\ ~Putting(w) => pc[w] \in {"idle", "index", "base", "head", "walk"}
  /\ Len(stack[w]) = 1 => pc[w] # "idle"
  /\ Len(stack[w]) = 2 =>
       /\ pc[w] \in {"check", "index", "base", "head", "walk", "link", "count"}
       /\ Head(stack[w]) = Frame(Ins(w)) /\ ~Behind(Ins(w), Bottom(w))
  /\ Pending(w) => next[Outer(w)] = NULL
  /\ Len(stack[w]) = 2 /\ pc[w] # "count" => next[Ins(w)] = NULL

(* The arrays, one or, during a rehash, two.                               *)
Memory(w) ==
  LET f == Bottom(w) IN
  /\ ~Refilling(w) => live = {entries} /\ DOMAIN arr[entries] = 0..(size - 1)
  /\ Refilling(w) =>
       /\ f.n > 0 /\ f.i \in 0..f.n /\ live = {f.old, entries}
       /\ DOMAIN arr[f.old] = 0..(f.n - 1)
       /\ f.i = 0 => f.todo = NULL
       /\ pc[w] \in {"resize", "alloc", "zero"} => f.i = 0
       /\ size = IF pc[w] = "resize" THEN f.n ELSE 2 * f.n
       /\ IF pc[w] \in {"resize", "alloc"} THEN entries = f.old
          ELSE entries # f.old /\ DOMAIN arr[entries] = 0..(size - 1)

(* The lists in them.                                                      *)
Shape(w) ==
  LET f == Bottom(w) IN
  /\ Distinct(Stored, key)
  /\ pc[w] \notin {"resize", "alloc", "zero"} =>
       \A j \in 0..(size - 1) : Listed(arr[entries][j], Bucket(w, j), Links(w), key)
  /\ Refilling(w) =>
       /\ \A j \in f.i..(f.n - 1) : Listed(arr[f.old][j], OldBucket(w, j), next, key)
       /\ f.i # 0 => Listed(f.todo, OldBucket(w, f.i - 1), next, key)

(* Where the writer stands in its bucket.                                  *)
Place(w) ==
  Putting(w) =>
    /\ pc[w] \in {"base", "head", "walk"} => idx[w] = Slot(Ins(w), size)
    /\ pc[w] \in {"head", "walk"} => base[w] = entries
    /\ pc[w] = "walk" =>
         \/ prev[w] = NULL /\ cur[w] = arr[entries][idx[w]]
         \/ prev[w] \in Bucket(w, idx[w]) /\ key[prev[w]] < key[Ins(w)] /\ cur[w] = next[prev[w]]

(* The count, and the room a put finds.                                    *)
Counting(w) ==
  /\ IsFiniteSet(InUse)
  /\ nentries = Cardinality(Hung(w) \ Uncounted(w))
  /\ Refilling(w) => Cardinality(Stored) <= Bottom(w).n \div 2
  /\ ~Refilling(w) => Cardinality(Stored) <= size \div 2
  /\ ~Refilling(w) /\ Putting(w) /\ pc[w] \in {"index", "base", "head", "walk"}
       => Cardinality(Stored) + 1 <= size \div 2

TInv(w) == Reach(w) /\ Phase(w) /\ Memory(w) /\ Shape(w) /\ Place(w) /\ Counting(w)

(* What the rehash that begins was told, and has saved, is still so.       *)
Asked(w) ==
  /\ pc[w] \in {"save", "grow"} => ask[w] = 2 * size
  /\ pc[w] = "grow" => saved[w] = entries
  /\ pc[w] \in {"resize", "alloc"} => ask[w] = 2 * Head(stack[w]).n
-----------------------------------------------------------------------------
(* What is stored, for the one writer.                                     *)
LEMMA StoredIs ==
  ASSUME NEW w, Writer = {w}
  PROVE  /\ Stored = IF Pending(w) THEN InUse \ {Outer(w)} ELSE InUse
         /\ Stored' = IF Pending(w)' THEN InUse' \ {Outer(w)'} ELSE InUse'
BY DEF Stored

(* An entry in use has a key, and so a slot.                               *)
LEMMA KeysOf ==
  ASSUME IInv
  PROVE  /\ \A e \in InUse : /\ e \in Entry /\ mem[e] = "used" /\ key[e] \in Key
                             /\ key[e] \in Nat /\ Hash[key[e]] \in Nat
         /\ Stored \subseteq InUse /\ NULL \notin InUse /\ Numbered(Stored, key)
<1>1. \A e \in InUse : e \in Entry /\ mem[e] = "used" /\ key[e] \in Key
  BY DEF InUse, IInv, Allocated
<1>2. \A k \in Key : k \in Nat /\ Hash[k] \in Nat
  BY KeyAssumption
<1>3. Stored \subseteq InUse /\ NULL \notin InUse
  BY NullAssumption DEF Stored, InUse
<1> QED BY <1>1, <1>2, <1>3 DEF Numbered

(* The remainder is a slot.                                                *)
LEMMA SlotIs ==
  ASSUME NEW e, key[e] \in Key, NEW n \in Nat \ {0}
  PROVE  Slot(e, n) \in 0..(n - 1)
<1>1. \A a \in Nat, b \in Nat \ {0} : a % b \in 0..(b - 1)
  OBVIOUS
<1>2. Hash[key[e]] \in Nat
  BY KeyAssumption
<1> QED BY <1>1, <1>2 DEF Slot

(* The stack of the writer.                                                *)
LEMMA Depth ==
  ASSUME NEW w, Writer = {w}, IInv, TInv(w)
  PROVE  /\ stack[w] \in Seq(FrameDom) /\ Len(stack[w]) \in {0, 1, 2}
         /\ Putting(w) <=> Len(stack[w]) # 0
<1>1. stack[w] \in Seq(FrameDom)
  BY ThreadAssumption DEF IInv, TypeOK
<1>2. Len(stack[w]) <= 2
  BY DEF TInv, Phase
<1>3. \A s \in Seq(FrameDom) : Len(s) \in Nat /\ (s # << >> <=> Len(s) # 0)
  OBVIOUS
<1>4. \A n \in Nat : n <= 2 => n \in {0, 1, 2}
  OBVIOUS
<1> QED BY <1>1, <1>2, <1>3, <1>4 DEF Putting
-----------------------------------------------------------------------------
(* Steps that change nothing in the table.                                 *)
Finding == {"idle", "index", "base", "head", "walk"}

(* The program counter of the writer goes on from one load to the next, or *)
(* another thread's does.                                                  *)
Loading(w) ==
  /\ UNCHANGED <<mvars, avars, nvars, stack>>
  /\ \/ pc'[w] = pc[w] /\ cur'[w] = cur[w]
     \/ /\ pc[w] \in Finding /\ pc'[w] \in Finding
        /\ Putting(w) => pc[w] # "idle" /\ pc'[w] # "idle"

(* The sets stay the same.                                                 *)
LEMMA LoadingSets ==
  ASSUME NEW w, Writer = {w}, Loading(w)
  PROVE  /\ Stored' = Stored /\ Left(w)' = Left(w) /\ Hung(w)' = Hung(w)
         /\ Links(w)' = Links(w) /\ Uncounted(w)' = Uncounted(w)
         /\ Putting(w)' = Putting(w) /\ Pending(w)' = Pending(w) /\ Refilling(w)' = Refilling(w)
         /\ Ins(w)' = Ins(w) /\ Outer(w)' = Outer(w) /\ Bottom(w)' = Bottom(w)
         /\ InUse' = InUse
         /\ \A e, n : Slot(e, n)' = Slot(e, n)
         /\ \A e, f : Behind(e, f)' = Behind(e, f)
<1>1. /\ nentries' = nentries /\ size' = size /\ entries' = entries /\ arr' = arr /\ live' = live
      /\ key' = key /\ value' = value /\ next' = next /\ mem' = mem /\ stack' = stack
  BY DEF Loading, mvars, avars, nvars
<1>2. \/ pc'[w] = pc[w] /\ cur'[w] = cur[w]
      \/ /\ pc[w] \in Finding /\ pc'[w] \in Finding
         /\ Putting(w) => pc[w] # "idle" /\ pc'[w] # "idle"
  BY DEF Loading
<1>3. Putting(w)' = Putting(w) /\ Ins(w)' = Ins(w) /\ Outer(w)' = Outer(w) /\ Bottom(w)' = Bottom(w)
      /\ InUse' = InUse
  BY <1>1 DEF Putting, Ins, Outer, Bottom, InUse
<1>4. Pending(w)' = Pending(w) /\ Refilling(w)' = Refilling(w) /\ Uncounted(w)' = Uncounted(w)
      /\ Moving(w)' = Moving(w)
  BY <1>1, <1>2, <1>3 DEF Pending, Refilling, Uncounted, Moving, Hanging, Finding
<1>5. Stored' = Stored
  BY <1>3, <1>4, StoredIs
<1>6. (\A e, n : Slot(e, n)' = Slot(e, n)) /\ \A e, f : Behind(e, f)' = Behind(e, f)
  BY <1>1 DEF Slot, Behind
<1>7. Left(w)' = Left(w)
  BY <1>3, <1>4, <1>5, <1>6 DEF Left
<1>8. Hung(w)' = Hung(w)
  BY <1>4, <1>5, <1>7 DEF Hung
<1>9. Links(w)' = Links(w)
  BY <1>1, <1>2, <1>3 DEF Links, Finding
<1> QED BY <1>3, <1>4, <1>5, <1>6, <1>7, <1>8, <1>9

(* And so does what is said of them.                                       *)
LEMMA LoadingInv ==
  ASSUME NEW w, Writer = {w}, IInv, TInv(w), Loading(w),
         \A t \in Thread : cur'[t] \in Entry => cur'[t] \in Stored,
         prev'[w] \in Stored \cup {NULL}, Place(w)'
  PROVE  TInv(w)'
<1>1. /\ nentries' = nentries /\ size' = size /\ entries' = entries /\ arr' = arr /\ live' = live
      /\ key' = key /\ value' = value /\ next' = next /\ mem' = mem /\ stack' = stack
  BY DEF Loading, mvars, avars, nvars
<1>2. \/ pc'[w] = pc[w]
      \/ /\ pc[w] \in Finding /\ pc'[w] \in Finding
         /\ Putting(w) => pc[w] # "idle" /\ pc'[w] # "idle"
  BY DEF Loading
<1>3. /\ Stored' = Stored /\ Left(w)' = Left(w) /\ Hung(w)' = Hung(w)
      /\ Links(w)' = Links(w) /\ Uncounted(w)' = Uncounted(w)
      /\ Putting(w)' = Putting(w) /\ Pending(w)' = Pending(w) /\ Refilling(w)' = Refilling(w)
      /\ Ins(w)' = Ins(w) /\ Outer(w)' = Outer(w) /\ Bottom(w)' = Bottom(w)
      /\ InUse' = InUse
      /\ \A e, n : Slot(e, n)' = Slot(e, n)
      /\ \A e, f : Behind(e, f)' = Behind(e, f)
  BY LoadingSets
<1>4. (\A j : Bucket(w, j)' = Bucket(w, j)) /\ \A j : OldBucket(w, j)' = OldBucket(w, j)
  BY <1>1, <1>3 DEF Bucket, OldBucket
<1>5. Reach(w)'
  BY <1>1, <1>3 DEF TInv, Reach
<1>6. Phase(w)'
  <2>1. Putting(w) <=> stack[w] # << >>
    BY DEF Putting
  <2>2. stack[w] \in Seq(FrameDom)
    BY ThreadAssumption DEF IInv, TypeOK
  <2>3. Len(stack[w]) \in {1, 2} => Putting(w)
    BY <2>1
  <2> QED BY <1>1, <1>2, <1>3, <2>3 DEF TInv, Phase, Finding, Frame, Activation
<1>7. Memory(w)'
  BY <1>1, <1>2, <1>3 DEF TInv, Memory, Finding
<1>8. Shape(w)'
  BY <1>1, <1>2, <1>3, <1>4 DEF TInv, Shape, Finding
<1>9. Counting(w)'
  BY <1>1, <1>2, <1>3 DEF TInv, Counting, Finding
<1> QED BY <1>5, <1>6, <1>7, <1>8, <1>9 DEF TInv

(* Another thread's step, or a fault.                                      *)
LEMMA ElsewhereInv ==
  ASSUME NEW w, Writer = {w}, IInv, TInv(w), UNCHANGED <<mvars, avars, nvars, stack>>,
         \A t \in Thread : cur'[t] \in Entry => cur'[t] \in Stored,
         pc'[w] = pc[w], idx'[w] = idx[w], base'[w] = base[w], prev'[w] = prev[w], cur'[w] = cur[w]
  PROVE  TInv(w)'
<1>1. Loading(w)
  BY DEF Loading
<1>2. Bucket(w, idx[w])' = Bucket(w, idx[w])
  BY <1>1, LoadingSets DEF Bucket, mvars
<1>3. Place(w)'
  BY <1>1, <1>2, LoadingSets DEF TInv, Place, mvars, avars, nvars
<1> QED BY <1>1, <1>3, LoadingInv DEF TInv, Reach

(* The steps that load, whoever takes them.                                *)
LEMMA GetTable ==
  ASSUME NEW w, Writer = {w}, IInv, TInv(w), NEW t \in Thread, NEW k \in Key, Get(t, k)
  PROVE  TInv(w)'
<1>0. w \in Thread
  BY ThreadAssumption
<1>1. UNCHANGED <<mvars, avars, nvars, stack, lvars>> /\ pc' = [pc EXCEPT ![t] = "index"] /\ pc[t] = "idle"
  BY DEF Get, Goto
<1>2. CASE t # w
  BY <1>0, <1>1, <1>2, ElsewhereInv DEF TInv, Reach, lvars, IInv, TypeOK
<1>3. CASE t = w
  <2>1. ~Putting(w)
    BY <1>1, <1>3, Depth DEF TInv, Phase
  <2>2. Loading(w)
    BY <1>0, <1>1, <1>3, <2>1 DEF Loading, Finding, IInv, TypeOK
  <2>3. Place(w)'
    BY <2>1, <2>2, LoadingSets DEF Place
  <2> QED BY <1>1, <2>2, <2>3, LoadingInv DEF TInv, Reach, lvars
<1> QED BY <1>2, <1>3

(* calculate_hash: the slot of the key under the current size.             *)
LEMMA IndexTable ==
  ASSUME NEW w, Writer = {w}, IInv, TInv(w), NEW t \in Thread, Index(t)
  PROVE  TInv(w)'
<1>0. w \in Thread
  BY ThreadAssumption
<1>1. /\ UNCHANGED <<mvars, avars, nvars, stack, base, prev, cur>>
      /\ pc' = [pc EXCEPT ![t] = "base"] /\ pc[t] = "index"
      /\ idx' = [idx EXCEPT ![t] = Hash[Target(t)] % size]
  BY DEF Index, Goto
<1>2. CASE t # w
  BY <1>0, <1>1, <1>2, ElsewhereInv DEF TInv, Reach, IInv, TypeOK
<1>3. CASE t = w
  <2>1. pc'[w] = "base" /\ idx'[w] = Hash[Target(w)] % size
    BY <1>0, <1>1, <1>3 DEF IInv, TypeOK
  <2>2. Loading(w)
    BY <1>1, <1>3, <2>1 DEF Loading, Finding
  <2>3. Place(w)'
    <3>1. Putting(w) => idx'[w] = Slot(Ins(w), size)
      BY <2>1 DEF Target, Slot
    <3>2. size' = size
      BY <1>1 DEF mvars
    <3> QED BY <2>1, <2>2, <3>1, <3>2, LoadingSets DEF Place
  <2> QED BY <1>1, <2>2, <2>3, LoadingInv DEF TInv, Reach
<1> QED BY <1>2, <1>3

(* The load of m->entries.                                                 *)
LEMMA BaseTable ==
  ASSUME NEW w, Writer = {w}, IInv, TInv(w), NEW t \in Thread, Base(t)
  PROVE  TInv(w)'
<1>0. w \in Thread
  BY ThreadAssumption
<1>1. /\ UNCHANGED <<mvars, avars, nvars, stack, idx, prev, cur>>
      /\ pc' = [pc EXCEPT ![t] = "head"] /\ pc[t] = "base"
      /\ base' = [base EXCEPT ![t] = entries]
  BY DEF Base, Goto
<1>2. CASE t # w
  BY <1>0, <1>1, <1>2, ElsewhereInv DEF TInv, Reach, IInv, TypeOK
<1>3. CASE t = w
  <2>1. pc'[w] = "head" /\ base'[w] = entries
    BY <1>0, <1>1, <1>3 DEF IInv, TypeOK
  <2>2. Loading(w)
    BY <1>1, <1>3, <2>1 DEF Loading, Finding
  <2>3. Place(w)'
    <3>1. Putting(w) => idx[w] = Slot(Ins(w), size)
      BY <1>1, <1>3 DEF TInv, Place
    <3>2. size' = size /\ entries' = entries /\ idx' = idx
      BY <1>1 DEF mvars
    <3> QED BY <2>1, <2>2, <3>1, <3>2, LoadingSets DEF Place
  <2> QED BY <1>1, <2>2, <2>3, LoadingInv DEF TInv, Reach
<1> QED BY <1>2, <1>3

(* What a slot holds is stored.                                            *)
LEMMA LoadStored ==
  ASSUME NEW w, Writer = {w}, TInv(w), NEW a \in Array, NEW i, NEW p \in Load(a, i), p \in Entry
  PROVE  p \in Stored
BY NullAssumption DEF TInv, Reach, Load

(* The load of the bucket's head.                                          *)
LEMMA HeadOfTable ==
  ASSUME NEW w, Writer = {w}, IInv, TInv(w), NEW t \in Thread, HeadOf(t)
  PROVE  TInv(w)'
<1>0. w \in Thread
  BY ThreadAssumption
<1>1. PICK p \in Load(base[t], idx[t]) :
        /\ UNCHANGED <<mvars, avars, nvars, stack, idx, base>>
        /\ pc' = [pc EXCEPT ![t] = "walk"] /\ pc[t] = "head"
        /\ cur' = [cur EXCEPT ![t] = p] /\ prev' = [prev EXCEPT ![t] = NULL]
  BY DEF HeadOf, Goto
<1>2. base[t] \in Array
  BY <1>1 DEF IInv, Placed
<1>3. \A x \in Thread : cur'[x] \in Entry => cur'[x] \in Stored
  BY <1>1, <1>2, LoadStored DEF TInv, Reach, IInv, TypeOK
<1>4. CASE t # w
  BY <1>0, <1>1, <1>3, <1>4, ElsewhereInv DEF IInv, TypeOK
<1>5. CASE t = w
  <2>1. pc'[w] = "walk" /\ cur'[w] = p /\ prev'[w] = NULL
    BY <1>0, <1>1, <1>5 DEF IInv, TypeOK
  <2>2. Loading(w)
    BY <1>1, <1>5, <2>1 DEF Loading, Finding
  <2>3. Place(w)'
    <3>1. CASE Putting(w)
      <4>1. idx[w] = Slot(Ins(w), size) /\ base[w] = entries
        BY <1>1, <1>5, <3>1 DEF TInv, Place
      <4>2. Ins(w) \in Entry /\ mem[Ins(w)] # "fresh" /\ key[Ins(w)] \in Key
        BY <1>0, <3>1, TopFrame
      <4>3. idx[w] \in 0..(size - 1)
        BY <4>1, <4>2, SlotIs DEF IInv, TypeOK
      <4>4. entries \in live /\ DOMAIN arr[entries] = 0..(size - 1)
            /\ Listed(arr[entries][idx[w]], Bucket(w, idx[w]), Links(w), key)
        <5>1. pc[w] = "head" /\ (Refilling(w) => Len(stack[w]) = 2)
          BY <1>1, <1>5 DEF Refilling
        <5> QED BY <4>3, <5>1 DEF TInv, Memory, Shape
      <4>5. arr[entries][idx[w]] # Junk
        <5>1. arr[entries][idx[w]] \in Stored \cup {NULL}
          BY <4>4, ListedIn DEF Bucket, Hung
        <5> QED BY <5>1, NullAssumption DEF Stored, InUse
      <4>6. p = arr[entries][idx[w]]
        BY <1>1, <1>5, <4>1, <4>3, <4>4, <4>5 DEF Load
      <4>7. entries' = entries /\ arr' = arr /\ size' = size /\ idx' = idx /\ base' = base
        BY <1>1 DEF mvars, avars
      <4> QED BY <2>1, <2>2, <4>1, <4>6, <4>7, LoadingSets DEF Place
    <3>2. CASE ~Putting(w)
      BY <2>2, <3>2, LoadingSets DEF Place
    <3> QED BY <3>1, <3>2
  <2> QED BY <1>3, <2>1, <2>2, <2>3, LoadingInv
<1> QED BY <1>4, <1>5

(* The bucket a put walks through.                                         *)
LEMMA WalkAt ==
  ASSUME NEW w, Writer = {w}, IInv, TInv(w), pc[w] = "walk", Putting(w)
  PROVE  /\ idx[w] = Slot(Ins(w), size) /\ idx[w] \in 0..(size - 1)
         /\ DOMAIN arr[entries] = 0..(size - 1)
         /\ Listed(arr[entries][idx[w]], Bucket(w, idx[w]), next, key)
         /\ cur[w] \in Bucket(w, idx[w]) \cup {NULL}
         /\ \/ prev[w] = NULL /\ cur[w] = arr[entries][idx[w]]
            \/ prev[w] \in Bucket(w, idx[w]) /\ key[prev[w]] < key[Ins(w)] /\ cur[w] = next[prev[w]]
         /\ Bucket(w, idx[w]) \subseteq Stored
<1>0. w \in Thread
  BY ThreadAssumption
<1>1. /\ idx[w] = Slot(Ins(w), size)
      /\ \/ prev[w] = NULL /\ cur[w] = arr[entries][idx[w]]
         \/ prev[w] \in Bucket(w, idx[w]) /\ key[prev[w]] < key[Ins(w)] /\ cur[w] = next[prev[w]]
  BY DEF TInv, Place
<1>2. Ins(w) \in Entry /\ key[Ins(w)] \in Key
  BY <1>0, TopFrame
<1>3. idx[w] \in 0..(size - 1)
  BY <1>1, <1>2, SlotIs DEF IInv, TypeOK
<1>4. Refilling(w) => Len(stack[w]) = 2
  BY DEF Refilling
<1>5. DOMAIN arr[entries] = 0..(size - 1) /\ Listed(arr[entries][idx[w]], Bucket(w, idx[w]), Links(w), key)
  BY <1>3, <1>4 DEF TInv, Memory, Shape
<1>6. Bucket(w, idx[w]) \subseteq Stored /\ Stored \subseteq Entry
  BY DEF Bucket, Hung, Stored, InUse
<1>7. \A e \in Bucket(w, idx[w]) : Links(w)[e] = next[e]
  BY <1>6 DEF Links
<1>8. Listed(arr[entries][idx[w]], Bucket(w, idx[w]), next, key)
  BY <1>5, <1>7, ListedSame
<1>9. cur[w] \in Bucket(w, idx[w]) \cup {NULL}
  BY <1>1, <1>8, ListedIn
<1> QED BY <1>1, <1>3, <1>5, <1>6, <1>8, <1>9

(* One entry further down the chain.                                       *)
LEMMA AdvanceTable ==
  ASSUME NEW w, Writer = {w}, IInv, TInv(w), NEW t \in Thread, Advance(t)
  PROVE  TInv(w)'
<1>0. w \in Thread
  BY ThreadAssumption
<1>1. /\ UNCHANGED <<mvars, avars, nvars, stack, idx, base, pc>>
      /\ pc[t] = "walk" /\ Usable(cur[t]) /\ Passes(t)
      /\ cur' = [cur EXCEPT ![t] = next[cur[t]]] /\ prev' = [prev EXCEPT ![t] = cur[t]]
  BY DEF Advance, Following
<1>2. cur[t] \in InUse /\ cur[t] \in Stored
  BY <1>1 DEF Usable, InUse, TInv, Reach
<1>3. \A x \in Thread : cur'[x] \in Entry => cur'[x] \in Stored
  BY <1>1, <1>2, NullAssumption DEF TInv, Reach, IInv, TypeOK
<1>4. CASE t # w
  BY <1>0, <1>1, <1>3, <1>4, ElsewhereInv DEF IInv, TypeOK
<1>5. CASE t = w
  <2>1. cur'[w] = next[cur[w]] /\ prev'[w] = cur[w]
    BY <1>0, <1>1, <1>5 DEF IInv, TypeOK
  <2>2. Loading(w)
    <3>1. Putting(w) => pc[w] # "idle"
      BY <1>1, <1>5
    <3> QED BY <1>1, <1>5, <3>1 DEF Loading, Finding
  <2>3. Place(w)'
    <3>1. CASE Putting(w)
      <4>1. idx[w] = Slot(Ins(w), size) /\ cur[w] \in Bucket(w, idx[w]) \cup {NULL}
        BY <1>1, <1>5, <3>1, WalkAt
      <4>2. cur[w] \in Bucket(w, idx[w]) /\ key[cur[w]] < key[Ins(w)]
        BY <1>1, <1>2, <1>5, <3>1, <4>1, KeysOf DEF Passes, Target
      <4>3. /\ entries' = entries /\ arr' = arr /\ size' = size /\ idx' = idx /\ pc' = pc
            /\ next' = next /\ key' = key /\ base' = base /\ base[w] = entries
        BY <1>1, <1>5, <3>1 DEF mvars, avars, nvars, TInv, Place
      <4>4. Bucket(w, idx[w])' = Bucket(w, idx[w])
        BY <2>2, <4>3, LoadingSets DEF Bucket
      <4> QED BY <1>1, <1>5, <2>1, <2>2, <4>1, <4>2, <4>3, <4>4, LoadingSets DEF Place
    <3>2. CASE ~Putting(w)
      BY <2>2, <3>2, LoadingSets DEF Place
    <3> QED BY <3>1, <3>2
  <2> QED BY <1>2, <1>3, <1>5, <2>1, <2>2, <2>3, LoadingInv
<1> QED BY <1>4, <1>5

(* A get returns.                                                          *)
LEMMA AnswerTable ==
  ASSUME NEW w, Writer = {w}, IInv, TInv(w), NEW t \in Thread, Answer(t)
  PROVE  TInv(w)'
<1>0. w \in Thread
  BY ThreadAssumption
<1>1. /\ UNCHANGED <<mvars, avars, nvars, stack>> /\ ~Putting(t)
      /\ pc[t] = "walk" /\ pc' = [pc EXCEPT ![t] = "idle"]
      /\ idx' = [idx EXCEPT ![t] = 0] /\ base' = [base EXCEPT ![t] = NULL]
      /\ prev' = [prev EXCEPT ![t] = NULL] /\ cur' = [cur EXCEPT ![t] = NULL]
  BY DEF Answer, Forget, Goto
<1>2. \A x \in Thread : cur'[x] \in Entry => cur'[x] \in Stored
  BY <1>1, NullAssumption DEF TInv, Reach, IInv, TypeOK
<1>3. CASE t # w
  BY <1>0, <1>1, <1>2, <1>3, ElsewhereInv DEF IInv, TypeOK
<1>4. CASE t = w
  <2>1. pc'[w] = "idle" /\ prev'[w] = NULL
    BY <1>0, <1>1, <1>4 DEF IInv, TypeOK
  <2>2. Loading(w)
    BY <1>1, <1>4, <2>1 DEF Loading, Finding
  <2>3. Place(w)'
    BY <1>1, <1>4, <2>2, LoadingSets DEF Place
  <2> QED BY <1>2, <2>1, <2>2, <2>3, LoadingInv
<1> QED BY <1>3, <1>4

(* A fault changes no memory.                                              *)
LEMMA FaultTable ==
  ASSUME NEW w, Writer = {w}, IInv, TInv(w), NEW t \in Thread, Fault(t)
  PROVE  TInv(w)'
<1>1. UNCHANGED <<mvars, avars, nvars, stack, lvars, pc>>
  BY DEF Fault
<1> QED BY <1>1, ElsewhereInv DEF lvars, TInv, Reach

(* Neither does a step that changes nothing.                               *)
LEMMA StutterTable ==
  ASSUME NEW w, Writer = {w}, IInv, TInv(w), UNCHANGED vars
  PROVE  TInv(w)'
<1>1. UNCHANGED <<mvars, avars, nvars, stack, lvars, pc>>
  BY DEF vars
<1> QED BY <1>1, ElsewhereInv DEF lvars, TInv, Reach
-----------------------------------------------------------------------------
(* What the writer's steps need: the put makes an entry nobody sees.       *)
LEMMA PutTable ==
  ASSUME NEW w, Writer = {w}, IInv, TInv(w), NEW k \in Key, NEW v \in Value, Put(w, k, v)
  PROVE  TInv(w)' /\ Stored \subseteq Stored'
<1>0. w \in Thread
  BY ThreadAssumption
<1>1. PICK e \in Entry :
        /\ mem[e] = "fresh" /\ pc[w] = "idle" /\ pc' = [pc EXCEPT ![w] = "check"]
        /\ key' = [key EXCEPT ![e] = k] /\ value' = [value EXCEPT ![e] = v]
        /\ next' = [next EXCEPT ![e] = NULL] /\ mem' = [mem EXCEPT ![e] = "used"]
        /\ stack' = [stack EXCEPT ![w] = <<Frame(e)>>]
        /\ UNCHANGED <<mvars, avars, lvars>>
  BY DEF Put, NewNext, Goto
<1>2. /\ stack'[w] = <<Frame(e)>> /\ pc'[w] = "check" /\ nentries' = nentries /\ size' = size
      /\ entries' = entries /\ arr' = arr /\ live' = live /\ cur' = cur /\ prev' = prev
      /\ next'[e] = NULL /\ mem'[e] = "used"
      /\ \A d \in Entry : d # e => key'[d] = key[d] /\ next'[d] = next[d] /\ mem'[d] = mem[d]
  BY <1>0, <1>1 DEF IInv, TypeOK, mvars, avars, lvars
<1>3. /\ Len(stack'[w]) = 1 /\ Putting(w)' /\ Outer(w)' = e /\ Ins(w)' = e
      /\ Bottom(w)' = Frame(e)
  BY <1>2 DEF Putting, Outer, Ins, Bottom, Frame, Activation
<1>4. ~Putting(w) /\ ~Pending(w) /\ ~Refilling(w) /\ Len(stack[w]) = 0
  BY <1>1, Depth DEF TInv, Phase, Refilling, Pending
<1>5. Pending(w)' /\ ~Refilling(w)'
  BY <1>2, <1>3 DEF Pending, Refilling
<1>6. e \notin InUse /\ InUse' = InUse \cup {e}
  BY <1>1, <1>2 DEF InUse
<1>7. Stored = InUse /\ Stored' = Stored
  <2>1. Stored = InUse
    BY <1>4, StoredIs
  <2>2. Stored' = InUse' \ {Outer(w)'}
    BY <1>5, StoredIs
  <2>3. Stored' = InUse' \ {e}
    BY <1>3, <2>2
  <2> QED BY <1>6, <2>1, <2>3
<1>8. e \notin Stored /\ \A d \in Stored : d \in Entry /\ key'[d] = key[d] /\ next'[d] = next[d]
  BY <1>2, <1>6, <1>7 DEF InUse
<1>9. Left(w) = {} /\ Left(w)' = {} /\ Moving(w) = {} /\ Moving(w)' = {}
  BY <1>3, <1>4, <1>5 DEF Left, Moving
<1>10. Hung(w) = Stored /\ Hung(w)' = Stored
  BY <1>7, <1>9 DEF Hung
<1>11. Uncounted(w) = {} /\ Uncounted(w)' = {}
  BY <1>1, <1>2 DEF Uncounted, Hanging
<1>12. \A d \in Stored : Links(w)[d] = next[d] /\ Links(w)'[d] = next[d]
  BY <1>1, <1>2, <1>8 DEF Links
<1>13. \A j : Bucket(w, j)' = Bucket(w, j)
  BY <1>2, <1>8, <1>10 DEF Bucket, Slot
<1>14. Reach(w)'
  <2>1. Outer(w)' \in InUse' /\ Len(stack'[w]) # 2
    BY <1>3, <1>6
  <2>2. \A d \in InUse' : next'[d] \in Stored' \cup {NULL}
    BY <1>2, <1>6, <1>7, <1>8 DEF TInv, Reach
  <2>3. \A a \in Array : \A i \in DOMAIN arr'[a] : arr'[a][i] \in Entry => arr'[a][i] \in Stored'
    BY <1>2, <1>7 DEF TInv, Reach
  <2> QED BY <1>2, <1>7, <2>1, <2>2, <2>3 DEF TInv, Reach
<1>15. Phase(w)'
  BY <1>2, <1>3, Depth DEF Phase
<1>16. Memory(w)'
  BY <1>2, <1>4, <1>5 DEF TInv, Memory
<1>17. Shape(w)'
  <2>1. Distinct(Stored', key')
    BY <1>7, <1>8 DEF TInv, Shape, Distinct
  <2>2. ASSUME NEW j \in 0..(size - 1) PROVE Listed(arr[entries][j], Bucket(w, j), Links(w)', key')
    <3>1. Listed(arr[entries][j], Bucket(w, j), Links(w), key)
      BY <1>1 DEF TInv, Shape
    <3>2. Bucket(w, j) \subseteq Stored
      BY <1>10 DEF Bucket
    <3> QED BY <1>8, <1>12, <3>1, <3>2, ListedSame
  <2> QED BY <1>2, <1>5, <1>13, <2>1, <2>2 DEF Shape
<1>18. Place(w)'
  BY <1>2 DEF Place
<1>19. Counting(w)'
  <2>1. IsFiniteSet(InUse')
    BY <1>6, FS_AddElement DEF TInv, Counting
  <2> QED BY <1>2, <1>4, <1>5, <1>7, <1>10, <1>11, <2>1 DEF TInv, Counting
<1> QED BY <1>7, <1>14, <1>15, <1>16, <1>17, <1>18, <1>19 DEF TInv

(* Storing the link that is owed.                                          *)
LEMMA LinkTable ==
  ASSUME NEW w, Writer = {w}, IInv, TInv(w), Link(w)
  PROVE  TInv(w)' /\ Stored \subseteq Stored'
<1>0. w \in Thread
  BY ThreadAssumption
<1>1. /\ pc[w] = "link" /\ pc' = [pc EXCEPT ![w] = "count"]
      /\ next' = [next EXCEPT ![Ins(w)] = cur[w]]
      /\ UNCHANGED <<mvars, avars, key, value, mem, stack, lvars>>
  BY DEF Link, Goto
<1>2. /\ pc'[w] = "count" /\ nentries' = nentries /\ size' = size /\ stack' = stack
      /\ entries' = entries /\ arr' = arr /\ live' = live /\ cur' = cur /\ prev' = prev
      /\ key' = key /\ mem' = mem
  BY <1>0, <1>1 DEF IInv, TypeOK, mvars, avars, lvars
<1>3. Putting(w) /\ Ins(w) \in Entry /\ Len(stack[w]) \in {1, 2} /\ cur[w] \in Stored
  <2>1. Putting(w) /\ cur[w] \in Entry
    BY <1>0, <1>1 DEF IInv, Placed
  <2> QED BY <1>0, <2>1, Depth, TopFrame DEF TInv, Reach
<1>4. /\ next'[Ins(w)] = cur[w] /\ \A d \in Entry : d # Ins(w) => next'[d] = next[d]
  BY <1>1, <1>3 DEF IInv, TypeOK
<1>5. /\ Putting(w)' = Putting(w) /\ Ins(w)' = Ins(w) /\ Outer(w)' = Outer(w)
      /\ Bottom(w)' = Bottom(w) /\ InUse' = InUse
  BY <1>2 DEF Putting, Ins, Outer, Bottom, InUse
<1>6. Pending(w)' = Pending(w) /\ Refilling(w)' = Refilling(w) /\ Uncounted(w)' = Uncounted(w)
      /\ Moving(w) = {} /\ Moving(w)' = {}
  BY <1>1, <1>2, <1>5 DEF Pending, Refilling, Uncounted, Moving, Hanging
<1>7. Stored' = Stored
  BY <1>5, <1>6, StoredIs
<1>8. (\A e, n : Slot(e, n)' = Slot(e, n)) /\ \A e, f : Behind(e, f)' = Behind(e, f)
  BY <1>2 DEF Slot, Behind
<1>9. Left(w)' = Left(w)
  BY <1>5, <1>6, <1>7, <1>8 DEF Left
<1>10. Hung(w)' = Hung(w)
  BY <1>6, <1>7, <1>9 DEF Hung
<1>11. Links(w)' = Links(w)
  BY <1>1, <1>2, <1>4, <1>5 DEF Links
<1>12. (\A j : Bucket(w, j)' = Bucket(w, j)) /\ \A j : OldBucket(w, j)' = OldBucket(w, j)
  BY <1>2, <1>5, <1>8, <1>9, <1>10 DEF Bucket, OldBucket
<1>13. Ins(w) \notin Left(w)
  <2>1. CASE Len(stack[w]) = 2
    BY <2>1 DEF TInv, Phase, Left
  <2>2. CASE Len(stack[w]) = 1
    BY <1>1, <2>2 DEF Left, Refilling
  <2> QED BY <1>3, <2>1, <2>2
<1>14. Reach(w)'
  <2>1. \A d \in InUse' : next'[d] \in Stored' \cup {NULL}
    <3>1. \A d \in InUse : d \in Entry /\ next[d] \in Stored \cup {NULL}
      BY DEF InUse, TInv, Reach
    <3> QED BY <1>3, <1>4, <1>5, <1>7, <3>1
  <2> QED BY <1>2, <1>5, <1>7, <2>1 DEF TInv, Reach
<1>15. Phase(w)'
  <2>1. Pending(w)' => Outer(w) # Ins(w) /\ Outer(w) \in Entry
    <3>1. Pending(w)' => Outer(w) \notin Stored /\ Outer(w) \in Entry
      BY <1>6, StoredIs DEF TInv, Reach, InUse, Pending
    <3>2. Pending(w)' => Len(stack[w]) = 2
      BY <1>1, <1>2, <1>3 DEF Pending
    <3> QED BY <3>1, <3>2 DEF TInv, Reach
  <2>2. Pending(w)' => next'[Outer(w)] = NULL
    BY <1>4, <1>6, <2>1 DEF TInv, Phase
  <2> QED BY <1>1, <1>2, <1>3, <1>5, <1>8, <2>2 DEF TInv, Phase, Frame, Activation
<1>16. Memory(w)'
  BY <1>1, <1>2, <1>5, <1>6 DEF TInv, Memory
<1>17. Shape(w)'
  <2> DEFINE f == Bottom(w)
  <2>1. ASSUME NEW p, NEW j, Listed(p, OldBucket(w, j), next, key)
        PROVE  Listed(p, OldBucket(w, j), next', key)
    <3>1. \A d \in OldBucket(w, j) : next'[d] = next[d]
      BY <1>4, <1>13 DEF OldBucket, Left, Stored, InUse
    <3> QED BY <2>1, <3>1, ListedSame
  <2>2. Refilling(w) => /\ \A j \in f.i..(f.n - 1) : Listed(arr[f.old][j], OldBucket(w, j), next', key)
                        /\ f.i # 0 => Listed(f.todo, OldBucket(w, f.i - 1), next', key)
    BY <2>1 DEF TInv, Shape
  <2> QED BY <1>1, <1>2, <1>5, <1>6, <1>7, <1>11, <1>12, <2>2 DEF TInv, Shape
<1>18. Place(w)'
  BY <1>2 DEF Place
<1>19. Counting(w)'
  BY <1>1, <1>2, <1>5, <1>6, <1>7, <1>10 DEF TInv, Counting
<1> QED BY <1>7, <1>14, <1>15, <1>16, <1>17, <1>18, <1>19 DEF TInv
-----------------------------------------------------------------------------
(* The activation that refills the table.                                  *)
LEMMA BottomFrame ==
  ASSUME NEW w, Writer = {w}, IInv, TInv(w)
  PROVE  /\ Putting(w) => Bottom(w) \in FrameDom
         /\ Refilling(w) => /\ Putting(w) /\ Rehashing(Bottom(w))
                            /\ Bottom(w).old \in Array /\ Bottom(w).n \in Nat /\ Bottom(w).i \in Nat
<1>0. w \in Thread
  BY ThreadAssumption
<1>1. stack[w] \in Seq(FrameDom) /\ Len(stack[w]) \in {0, 1, 2} /\ (Putting(w) <=> Len(stack[w]) # 0)
  BY Depth
<1>2. Putting(w) => Bottom(w) \in FrameDom
  BY <1>1 DEF Bottom
<1>3. Refilling(w) => Putting(w)
  BY <1>0, <1>1 DEF Refilling, IInv, Placed
<1>4. Refilling(w) => Rehashing(Bottom(w))
  <2>1. CASE Len(stack[w]) = 2
    BY <1>0, <2>1 DEF Bottom, IInv, Placed
  <2>2. CASE Len(stack[w]) = 1
    BY <1>0, <2>2 DEF Bottom, IInv, Placed, Refilling
  <2> QED BY <1>1, <1>3, <2>1, <2>2
<1> QED BY <1>2, <1>3, <1>4 DEF Rehashing, FrameDom

(* The entry inserted joins the sets: it hangs in the table from here on.  *)
LEMMA PublishSets ==
  ASSUME NEW w, Writer = {w}, IInv, TInv(w), Publish(w)
  PROVE  /\ Len(stack[w]) \in {1, 2} /\ Putting(w) /\ Ins(w) \in InUse
         /\ InUse' = InUse /\ Stored' = Stored \cup {Ins(w)}
         /\ (Len(stack[w]) = 1 => Ins(w) \notin Stored /\ Hung(w) = Stored)
         /\ (Len(stack[w]) = 2 => Ins(w) \in Stored)
         /\ Left(w)' = Left(w) /\ Ins(w) \notin Hung(w) /\ Ins(w) \notin Left(w)
         /\ Hung(w)' = Hung(w) \cup {Ins(w)}
         /\ Uncounted(w) = {} /\ Uncounted(w)' = {Ins(w)}
         /\ (Refilling(w) <=> Len(stack[w]) = 2) /\ (Refilling(w)' <=> Refilling(w))
         /\ Ins(w)' = Ins(w) /\ Bottom(w)' = Bottom(w) /\ Outer(w)' = Outer(w)
         /\ (\A e, n : Slot(e, n)' = Slot(e, n))
         /\ next[Ins(w)] = NULL
<1>0. w \in Thread
  BY ThreadAssumption
<1>1. /\ pc[w] = "walk" /\ Putting(w) /\ pc' = [pc EXCEPT ![w] = IF cur[w] = NULL THEN "count" ELSE "link"]
      /\ UNCHANGED <<mvars, live, key, value, mem, stack, lvars>>
  BY DEF Publish, Goto
<1>2. /\ pc'[w] \in {"link", "count"} /\ stack' = stack /\ size' = size /\ key' = key /\ mem' = mem
  BY <1>0, <1>1 DEF IInv, TypeOK, mvars
<1>3. Len(stack[w]) \in {1, 2}
  BY <1>1, Depth
<1>4. /\ Putting(w)' = Putting(w) /\ Ins(w)' = Ins(w) /\ Outer(w)' = Outer(w)
      /\ Bottom(w)' = Bottom(w) /\ InUse' = InUse
  BY <1>2 DEF Putting, Ins, Outer, Bottom, InUse
<1>5. Pending(w) /\ (Pending(w)' <=> Len(stack[w]) = 2)
  BY <1>1, <1>2, <1>3, <1>4 DEF Pending
<1>6. (Refilling(w) <=> Len(stack[w]) = 2) /\ (Refilling(w)' <=> Len(stack[w]) = 2)
  BY <1>1, <1>2 DEF Refilling
<1>7. Outer(w) \in InUse /\ Stored = InUse \ {Outer(w)}
  BY <1>1, <1>5, StoredIs DEF TInv, Reach
<1>8. Len(stack[w]) = 1 => Outer(w) = Ins(w)
  BY <1>0, <1>1, TopFrame DEF Outer
<1>9. Len(stack[w]) = 2 => Ins(w) \in Stored /\ ~Behind(Ins(w), Bottom(w)) /\ next[Ins(w)] = NULL
  BY <1>1 DEF TInv, Reach, Phase
<1>10. Ins(w) \in InUse
  BY <1>3, <1>7, <1>8, <1>9 DEF Stored
<1>11. Stored' = Stored \cup {Ins(w)}
  <2>1. CASE Len(stack[w]) = 1
    <3>1. Stored' = InUse'
      BY <1>5, <2>1, StoredIs
    <3> QED BY <1>4, <1>7, <1>8, <1>10, <2>1, <3>1
  <2>2. CASE Len(stack[w]) = 2
    <3>1. Stored' = InUse' \ {Outer(w)'}
      BY <1>5, <2>2, StoredIs
    <3>2. Stored' = InUse \ {Outer(w)}
      BY <1>4, <3>1
    <3> QED BY <1>7, <1>9, <2>2, <3>2
  <2> QED BY <1>3, <2>1, <2>2
<1>12. (\A e, n : Slot(e, n)' = Slot(e, n)) /\ \A e, f : Behind(e, f)' = Behind(e, f)
  BY <1>2 DEF Slot, Behind
<1>13. Left(w)' = Left(w) /\ Ins(w) \notin Left(w)
  BY <1>4, <1>6, <1>9, <1>11, <1>12 DEF Left
<1>14. Moving(w) = (IF Len(stack[w]) = 2 THEN {Ins(w)} ELSE {}) /\ Moving(w)' = {}
  BY <1>1, <1>2 DEF Moving, Hanging
<1>15. Len(stack[w]) = 1 => Ins(w) \notin Stored /\ Hung(w) = Stored
  <2>1. Len(stack[w]) = 1 => Left(w) = {} /\ Moving(w) = {}
    BY <1>6, <1>14 DEF Left
  <2> QED BY <1>5, <1>7, <1>8, <2>1 DEF Hung
<1>16. Ins(w) \notin Hung(w) /\ Hung(w)' = Hung(w) \cup {Ins(w)}
  BY <1>3, <1>9, <1>11, <1>13, <1>14, <1>15 DEF Hung
<1>17. Uncounted(w) = {} /\ Uncounted(w)' = {Ins(w)}
  BY <1>1, <1>2, <1>4 DEF Uncounted, Hanging
<1>18. next[Ins(w)] = NULL
  BY <1>3, <1>5, <1>8, <1>9 DEF TInv, Phase
<1> QED BY <1>1, <1>3, <1>4, <1>6, <1>9, <1>10, <1>11, <1>12, <1>13, <1>15, <1>16, <1>17, <1>18

(* The list of its bucket holds it, and no key twice.                      *)
LEMMA PublishBucket ==
  ASSUME NEW w, Writer = {w}, IInv, TInv(w), Publish(w)
  PROVE  LET q == prev[w]  l == idx[w] IN
         /\ l = Slot(Ins(w), size) /\ l \in 0..(size - 1)
         /\ q \in Hung(w) \cup {NULL} /\ q # Ins(w)
         /\ Listed(IF q = NULL THEN Ins(w) ELSE arr[entries][l], Bucket(w, l) \cup {Ins(w)},
                   Links(w)', key)
         /\ Distinct(Bucket(w, l) \cup {Ins(w)}, key)
         /\ \A e \in Entry : e \notin {q, Ins(w)} => Links(w)'[e] = next[e] /\ next'[e] = next[e]
         /\ q = NULL => next' = next
<1> DEFINE q == prev[w]
           l == idx[w]
           B == Bucket(w, l)
           x == Ins(w)
           nx == Links(w)'
           p == arr[entries][l]
           c == cur[w]
<1>0. w \in Thread
  BY ThreadAssumption
<1>1. /\ pc[w] = "walk" /\ Putting(w) /\ pc' = [pc EXCEPT ![w] = IF cur[w] = NULL THEN "count" ELSE "link"]
      /\ cur[w] = NULL \/ (Usable(cur[w]) /\ key[cur[w]] > Target(w))
      /\ next' = IF q = NULL THEN next ELSE [next EXCEPT ![q] = x]
      /\ UNCHANGED <<key, lvars, stack>>
  BY DEF Publish, Goto
<1>2. pc'[w] = IF cur[w] = NULL THEN "count" ELSE "link"
  BY <1>0, <1>1 DEF IInv, TypeOK
<1>3. /\ l = Slot(x, size) /\ l \in 0..(size - 1) /\ Listed(arr[entries][l], B, next, key)
      /\ \/ q = NULL /\ cur[w] = arr[entries][l]
         \/ q \in B /\ key[q] < key[x] /\ cur[w] = next[q]
      /\ B \subseteq Stored
  BY <1>1, WalkAt
<1>4. /\ x \in InUse /\ x \notin Hung(w) /\ next[x] = NULL /\ Ins(w)' = x
  BY PublishSets
<1>5. B \subseteq Hung(w)
  BY DEF Bucket
<1>6. /\ q \in Hung(w) \cup {NULL} /\ q # x /\ x \notin B
  BY <1>3, <1>4, <1>5, KeysOf
<1>7. \A e \in Entry : next'[e] = IF q # NULL /\ e = q THEN x ELSE next[e]
  BY <1>1, <1>3 DEF IInv, TypeOK
<1>8. \A e \in Entry : Links(w)'[e] = IF pc'[w] = "link" /\ e = x THEN cur[w] ELSE next'[e]
  BY <1>1, <1>4 DEF Links, lvars
<1>9. x \in Entry /\ B \subseteq Entry /\ NULL \notin Entry
  BY <1>3, <1>4, NullAssumption DEF InUse, Stored
<1>10. Links(w)'[x] = cur[w]
  BY <1>2, <1>4, <1>6, <1>7, <1>8, <1>9
<1>11. \A e \in Entry : e \notin {q, x} => Links(w)'[e] = next[e] /\ next'[e] = next[e]
  BY <1>7, <1>8
<1>12. q \in B => Links(w)'[q] = x
  BY <1>6, <1>7, <1>8, <1>9
<1>13. cur[w] = NULL \/ key[x] < key[cur[w]]
  <2>1. Target(w) = key[x]
    BY <1>1 DEF Target
  <2>2. CASE cur[w] # NULL
    <3>1. cur[w] \in InUse /\ key[cur[w]] > key[x]
      BY <1>1, <2>1, <2>2 DEF Usable, InUse
    <3>2. key[cur[w]] \in Nat /\ key[x] \in Nat
      BY <1>4, <3>1, KeysOf
    <3> QED BY <3>1, <3>2
  <2> QED BY <2>2
<1>14. Distinct(B, key)
  BY <1>3 DEF TInv, Shape, Distinct
<1>15. Numbered(B \cup {x}, key)
  <2>1. B \cup {x} \subseteq InUse
    BY <1>3, <1>4, KeysOf
  <2> QED BY <2>1, KeysOf DEF Numbered
<1>16. \A e \in B : e # q => Links(w)'[e] = next[e]
  BY <1>6, <1>9, <1>11
<1>17. Between(x, q, c, p, B, next, key) /\ Spliced(nx, x, q, c, B, next)
  BY <1>3, <1>6, <1>10, <1>12, <1>13, <1>16 DEF Between, Spliced
<1>p. Listed(p, B, next, key) /\ x \notin B
  BY <1>3, <1>6
<1> HIDE DEF q, l, B, x, nx, p, c
<1>18. /\ Listed(IF q = NULL THEN x ELSE p, B \cup {x}, nx, key)
       /\ Distinct(B \cup {x}, key)
  BY <1>14, <1>15, <1>17, <1>p, ListedInsert
<1> QED BY <1>1, <1>3, <1>6, <1>11, <1>18 DEF q, l, B, x, nx, p, c

(* The store that makes the entry reachable keeps the lists in order.      *)
LEMMA PublishTable ==
  ASSUME NEW w, Writer = {w}, IInv, TInv(w), Publish(w)
  PROVE  TInv(w)' /\ Stored \subseteq Stored'
<1> DEFINE q == prev[w]
           l == idx[w]
           x == Ins(w)
<1>0. w \in Thread
  BY ThreadAssumption
<1>1. /\ pc[w] = "walk" /\ Putting(w) /\ pc' = [pc EXCEPT ![w] = IF cur[w] = NULL THEN "count" ELSE "link"]
      /\ IF q = NULL THEN arr' = [arr EXCEPT ![entries] = [i \in DOMAIN @ |-> IF i = l THEN x ELSE @[i]]]
                     ELSE arr' = arr
      /\ IF q = NULL THEN next' = next ELSE next' = [next EXCEPT ![q] = x]
      /\ UNCHANGED <<mvars, live, key, value, mem, stack, lvars>>
  BY DEF Publish, Goto
<1>2. /\ pc'[w] \in {"link", "count"} /\ stack' = stack /\ size' = size /\ key' = key /\ mem' = mem
      /\ entries' = entries /\ nentries' = nentries /\ live' = live
      /\ cur' = cur /\ prev' = prev
  BY <1>0, <1>1 DEF IInv, TypeOK, mvars, lvars
<1>3. /\ Len(stack[w]) \in {1, 2} /\ Putting(w) /\ x \in InUse
      /\ InUse' = InUse /\ Stored' = Stored \cup {x}
      /\ (Len(stack[w]) = 1 => x \notin Stored /\ Hung(w) = Stored)
      /\ (Len(stack[w]) = 2 => x \in Stored)
      /\ Left(w)' = Left(w) /\ x \notin Hung(w) /\ x \notin Left(w)
      /\ Hung(w)' = Hung(w) \cup {x}
      /\ Uncounted(w) = {} /\ Uncounted(w)' = {x}
      /\ (Refilling(w) <=> Len(stack[w]) = 2) /\ (Refilling(w)' <=> Refilling(w))
      /\ Ins(w)' = x /\ Bottom(w)' = Bottom(w) /\ Outer(w)' = Outer(w)
      /\ (\A e, n : Slot(e, n)' = Slot(e, n))
      /\ next[x] = NULL
  BY PublishSets
<1>4. /\ l = Slot(x, size) /\ l \in 0..(size - 1)
      /\ q \in Hung(w) \cup {NULL} /\ q # x
      /\ Listed(IF q = NULL THEN x ELSE arr[entries][l], Bucket(w, l) \cup {x}, Links(w)', key)
      /\ Distinct(Bucket(w, l) \cup {x}, key)
      /\ \A e \in Entry : e \notin {q, x} => Links(w)'[e] = next[e] /\ next'[e] = next[e]
      /\ q = NULL => next' = next
  BY PublishBucket
<1>5. \A e \in Stored : e \in Entry /\ e \in InUse
  BY DEF Stored, InUse
<1>6. x \in Entry /\ NULL \notin Entry /\ Hung(w) \subseteq Stored
  BY <1>3, NullAssumption DEF InUse, Hung
<1>7. /\ entries \in Array /\ DOMAIN arr[entries] = 0..(size - 1)
      /\ \A a \in Array : a # entries => arr'[a] = arr[a]
      /\ DOMAIN arr'[entries] = 0..(size - 1)
      /\ \A j \in 0..(size - 1) : arr'[entries][j] = IF j = l /\ q = NULL THEN x ELSE arr[entries][j]
  <2>1. DOMAIN arr = Array /\ entries \in Array
    BY DEF IInv, TypeOK
  <2>2. DOMAIN arr[entries] = 0..(size - 1)
    BY <1>1, WalkAt
  <2>3. CASE q = NULL
    BY <1>1, <2>1, <2>2, <2>3
  <2>4. CASE q # NULL
    BY <1>1, <2>1, <2>2, <2>4
  <2> QED BY <2>1, <2>2, <2>3, <2>4
<1>8. \A j : Bucket(w, j)' = IF j = l THEN Bucket(w, j) \cup {x} ELSE Bucket(w, j)
  BY <1>2, <1>3, <1>4 DEF Bucket
<1>9. \A j : OldBucket(w, j)' = OldBucket(w, j)
  BY <1>3 DEF OldBucket
<1>10. \A e \in Entry : next'[e] \in {next[e], x}
  BY <1>1 DEF IInv, TypeOK
<1>a. Refilling(w) => LET o == Bottom(w).old IN o \in Array /\ o # entries /\ arr'[o] = arr[o]
  <2>1. Refilling(w) => Bottom(w).old # entries
    BY <1>1 DEF TInv, Memory
  <2> QED BY <1>7, <2>1, BottomFrame
<1> HIDE DEF x, q, l
<1>11. Reach(w)'
  <2>1. \A a \in Array : \A i \in DOMAIN arr'[a] : arr'[a][i] \in Entry => arr'[a][i] \in Stored'
    <3>1. ASSUME NEW a \in Array, NEW i \in DOMAIN arr'[a]
          PROVE  i \in DOMAIN arr[a] /\ arr'[a][i] \in {arr[a][i], x}
      BY <1>7
    <3>2. \A a \in Array : \A i \in DOMAIN arr[a] : arr[a][i] \in Entry => arr[a][i] \in Stored
      BY DEF TInv, Reach
    <3> QED BY <1>3, <3>1, <3>2
  <2>2. \A e \in InUse' : next'[e] \in Stored' \cup {NULL}
    <3>1. \A e \in InUse : e \in Entry /\ next[e] \in Stored \cup {NULL}
      BY DEF InUse, TInv, Reach
    <3> QED BY <1>3, <1>10, <3>1
  <2>3. \A t \in Thread : cur'[t] \in Entry => cur'[t] \in Stored'
    BY <1>2, <1>3 DEF TInv, Reach
  <2>4. prev'[w] \in Stored' \cup {NULL} /\ (Putting(w)' => Outer(w)' \in InUse')
    BY <1>2, <1>3 DEF TInv, Reach
  <2>5. Len(stack'[w]) = 2 => Ins(w)' \in Stored'
    BY <1>3
  <2> QED BY <2>1, <2>2, <2>3, <2>4, <2>5 DEF Reach
<1>12. Phase(w)'
  <2>1. Len(stack[w]) = 2 => Outer(w) \in Entry /\ Outer(w) \notin Stored /\ next[Outer(w)] = NULL
    <3>1. Len(stack[w]) = 2 => Pending(w) /\ Outer(w) \in InUse
      BY <1>3 DEF Pending, TInv, Reach
    <3> QED BY <3>1, StoredIs DEF TInv, Phase, InUse
  <2>2. Len(stack[w]) = 2 => next'[Outer(w)] = NULL
    BY <1>1, <1>3, <1>4, <1>6, <2>1 DEF q, x
  <2>3. next'[x] = NULL
    BY <1>1, <1>3, <1>4, <1>6 DEF q, x, IInv, TypeOK
  <2>4. Pending(w)' => Len(stack[w]) = 2
    BY <1>2, <1>3 DEF Pending
  <2>5. Len(stack[w]) = 2 => ~Behind(x, Bottom(w)) /\ Head(stack[w]) = Frame(x)
    BY DEF TInv, Phase, x
  <2>6. Len(stack'[w]) = 2 => Head(stack'[w]) = Frame(Ins(w)')
    BY <1>2, <1>3, <2>5
  <2>7. Len(stack'[w]) = 2 => ~Behind(Ins(w), Bottom(w))'
    <3>1. Behind(Ins(w), Bottom(w))' <=> Behind(Ins(w)', Bottom(w)')
      BY <1>2, <1>3 DEF Behind, Slot
    <3> QED BY <1>2, <1>3, <2>5, <3>1
  <2>8. Pending(w)' => next'[Outer(w)'] = NULL
    BY <1>3, <2>2, <2>4
  <2>9. next'[Ins(w)'] = NULL /\ Putting(w)'
    BY <1>2, <1>3, <2>3 DEF Putting
  <2>10. Len(stack'[w]) <= 2
    <3>1. \A n \in {1, 2} : n <= 2
      OBVIOUS
    <3> QED BY <1>2, <1>3, <3>1, Zenon
  <2> QED BY <1>2, <2>6, <2>7, <2>8, <2>9, <2>10 DEF Phase
<1>13. Memory(w)'
  BY <1>1, <1>2, <1>3, <1>7, <1>a DEF TInv, Memory
<1>14. Distinct(Stored', key)
  <2>1. CASE Len(stack[w]) = 2
    BY <1>3, <2>1 DEF TInv, Shape, Distinct
  <2>2. CASE Len(stack[w]) = 1
    <3>1. ASSUME NEW e \in Stored, key[e] = key[x] PROVE FALSE
      <4>1. e \in Bucket(w, l)
        BY <1>3, <1>4, <2>2, <3>1 DEF Bucket, Slot
      <4>2. e = x
        BY <1>4, <3>1, <4>1 DEF Distinct
      <4> QED BY <1>3, <2>2, <3>1, <4>2
    <3> QED BY <1>3, <3>1 DEF TInv, Shape, Distinct
  <2> QED BY <1>3, <2>1, <2>2
<1>15. ASSUME NEW j \in 0..(size - 1) PROVE Listed(arr'[entries][j], Bucket(w, j)', Links(w)', key)
  <2>1. CASE j = l
    <3>1. Bucket(w, j)' = Bucket(w, l) \cup {x} /\ arr'[entries][j] = IF q = NULL THEN x ELSE arr[entries][l]
      BY <1>7, <1>8, <2>1
    <3> QED BY <1>4, <3>1
  <2>2. CASE j # l
    <3>1. Bucket(w, j)' = Bucket(w, j) /\ arr'[entries][j] = arr[entries][j]
      BY <1>7, <1>8, <2>2
    <3>2. Listed(arr[entries][j], Bucket(w, j), Links(w), key)
      BY <1>1, <1>15 DEF TInv, Shape
    <3>3. \A e \in Bucket(w, j) : e \in Entry /\ e \notin {q, x}
      <4>1. x \notin Bucket(w, j) /\ Bucket(w, j) \subseteq Entry
        BY <1>3, <1>5, <1>6 DEF Bucket
      <4>2. q # NULL => q \in Bucket(w, l)
        BY <1>1, WalkAt DEF q, l
      <4>3. q \notin Bucket(w, j)
        BY <1>6, <2>2, <4>1, <4>2 DEF Bucket
      <4> QED BY <4>1, <4>3
    <3>4. \A e \in Bucket(w, j) : Links(w)[e] = next[e]
      BY <1>1, <3>3 DEF Links
    <3>5. \A e \in Bucket(w, j) : Links(w)'[e] = Links(w)[e]
      BY <1>4, <3>3, <3>4
    <3> DEFINE nx == Links(w)'
    <3>6. \A e \in Bucket(w, j) : nx[e] = Links(w)[e]
      BY <3>5
    <3> HIDE DEF nx
    <3>7. Listed(arr[entries][j], Bucket(w, j), nx, key)
      BY <3>2, <3>6, ListedSame
    <3> QED BY <3>1, <3>7 DEF nx
  <2> QED BY <2>1, <2>2
<1>16. Shape(w)'
  <2> DEFINE f == Bottom(w)
  <2>1. ASSUME NEW p, NEW j, Listed(p, OldBucket(w, j), next, key)
        PROVE  Listed(p, OldBucket(w, j), next', key)
    <3>1. OldBucket(w, j) \subseteq Stored /\ OldBucket(w, j) \cap Hung(w) = {} /\ x \notin OldBucket(w, j)
      BY <1>3 DEF OldBucket, Left, Hung
    <3>2. \A d \in OldBucket(w, j) : next'[d] = next[d]
      BY <1>4, <1>5, <1>6, <3>1
    <3> QED BY <2>1, <3>2, ListedSame
  <2>2. Refilling(w) => /\ \A j \in f.i..(f.n - 1) : Listed(arr'[f.old][j], OldBucket(w, j), next', key)
                        /\ f.i # 0 => Listed(f.todo, OldBucket(w, f.i - 1), next', key)
    BY <1>a, <2>1 DEF TInv, Shape
  <2> QED BY <1>2, <1>3, <1>9, <1>14, <1>15, <2>2 DEF Shape
<1>17. Place(w)'
  BY <1>2 DEF Place
<1>18. Counting(w)'
  <2>1. Hung(w)' \ Uncounted(w)' = Hung(w) \ Uncounted(w)
    BY <1>3
  <2>2. IsFiniteSet(Stored)
    BY FS_Subset DEF TInv, Counting, Stored
  <2>3. Len(stack[w]) = 1 => Cardinality(Stored') = Cardinality(Stored) + 1
    BY <1>3, <2>2, FS_AddElement
  <2>4. Len(stack[w]) = 2 => Stored' = Stored
    BY <1>3
  <2>5. nentries' = Cardinality(Hung(w)' \ Uncounted(w)') /\ IsFiniteSet(InUse')
    BY <1>2, <1>3, <2>1 DEF TInv, Counting
  <2>6. Refilling(w)' => Cardinality(Stored') <= Bottom(w)'.n \div 2
    BY <1>3, <2>4 DEF TInv, Counting
  <2>7. ~Refilling(w)' => Cardinality(Stored') <= size' \div 2
    BY <1>1, <1>2, <1>3, <2>3 DEF TInv, Counting
  <2> QED BY <1>2, <2>5, <2>6, <2>7 DEF Counting
<1> QED BY <1>3, <1>11, <1>12, <1>13, <1>16, <1>17, <1>18 DEF TInv

(* Back to the caller, if there is one.                                    *)
LEMMA Popped ==
  ASSUME NEW w, Writer = {w}, IInv, TInv(w), Putting(w), stack'[w] = Tail(stack[w])
  PROVE  /\ Len(stack[w]) \in {1, 2} /\ Len(stack'[w]) # 2
         /\ Len(stack[w]) = 1 => Len(stack'[w]) = 0 /\ ~Putting(w)'
         /\ Len(stack[w]) = 2 => /\ Len(stack'[w]) = 1 /\ Putting(w)'
                                 /\ Bottom(w)' = Bottom(w) /\ Outer(w)' = Outer(w)
<1>1. /\ stack[w] \in Seq(FrameDom) /\ stack[w] # << >> /\ Len(stack[w]) \in {1, 2}
  BY Depth DEF Putting
<1>b. 0 # 2 /\ 1 # 2
  OBVIOUS
<1> DEFINE s == stack[w]
<1>2. /\ Tail(s) \in Seq(FrameDom) /\ Len(Tail(s)) = Len(s) - 1
      /\ \A n \in 1..Len(s) - 1 : Tail(s)[n] = s[n+1]
  BY <1>1, TailSeq
<1>3. CASE Len(s) = 1
  <2>1. Len(Tail(s)) = 0
    BY <1>2, <1>3
  <2>2. \A r \in Seq(FrameDom) : Len(r) = 0 => r = << >>
    OBVIOUS
  <2>3. Tail(s) = << >>
    BY <1>2, <2>1, <2>2
  <2>4. Len(stack'[w]) = 0 /\ ~Putting(w)'
    BY <2>1, <2>3 DEF Putting
  <2> QED BY <1>b, <1>1, <1>3, <2>4, Zenon
<1>4. CASE Len(s) = 2
  <2>1. Len(Tail(s)) = 1 /\ Tail(s)[1] = s[2]
    BY <1>2, <1>4
  <2>2. Len(<< >>) # 1
    OBVIOUS
  <2> HIDE DEF s
  <2>3. stack'[w] # << >> /\ Len(stack'[w]) = 1
    BY <1>2, <2>1, <2>2 DEF s
  <2>4. stack'[w][Len(stack'[w])] = stack[w][Len(stack[w])]
    BY <1>4, <2>1, <2>3, Zenon DEF s
  <2>5. Bottom(w)' = Bottom(w) /\ Outer(w)' = Outer(w)
    BY <2>4 DEF Bottom, Outer
  <2>6. Putting(w)' /\ Len(stack[w]) = 2
    BY <1>4, <2>3 DEF Putting, s
  <2> QED BY <1>b, <1>1, <2>3, <2>5, <2>6, Zenon
<1> QED BY <1>1, <1>3, <1>4

(* The entry is counted, and the put, or the move, is over.                *)
LEMMA CountTable ==
  ASSUME NEW w, Writer = {w}, IInv, TInv(w), Count(w)
  PROVE  TInv(w)' /\ Stored \subseteq Stored'
<1>0. w \in Thread
  BY ThreadAssumption
<1>1. /\ pc[w] = "count" /\ nentries' = nentries + 1
      /\ stack' = [stack EXCEPT ![w] = Tail(@)]
      /\ pc' = [pc EXCEPT ![w] = IF Len(stack[w]) = 1 THEN "idle" ELSE "scan"]
      /\ prev' = [prev EXCEPT ![w] = NULL] /\ cur' = [cur EXCEPT ![w] = NULL]
      /\ UNCHANGED <<size, entries, avars, nvars>>
  BY DEF Count, Return, Forget, Goto
<1>2. /\ stack'[w] = Tail(stack[w]) /\ size' = size /\ key' = key /\ mem' = mem /\ next' = next
      /\ pc'[w] = (IF Len(stack[w]) = 1 THEN "idle" ELSE "scan")
      /\ entries' = entries /\ live' = live /\ arr' = arr
      /\ prev'[w] = NULL /\ \A t \in Thread : cur'[t] \in Entry => cur'[t] = cur[t]
  BY <1>0, <1>1, NullAssumption DEF IInv, TypeOK, avars, nvars
<1>3. Putting(w) /\ Ins(w) \in Entry
  BY <1>0, <1>1, TopFrame DEF IInv, Placed
<1>4. /\ Len(stack[w]) \in {1, 2} /\ Len(stack'[w]) # 2
      /\ Len(stack[w]) = 1 => Len(stack'[w]) = 0 /\ ~Putting(w)' /\ pc'[w] = "idle"
      /\ Len(stack[w]) = 2 => /\ Len(stack'[w]) = 1 /\ Putting(w)' /\ pc'[w] = "scan"
                              /\ Bottom(w)' = Bottom(w) /\ Outer(w)' = Outer(w)
  BY <1>2, <1>3, Popped
<1>5. InUse' = InUse /\ (\A e, n : Slot(e, n)' = Slot(e, n)) /\ \A e, f : Behind(e, f)' = Behind(e, f)
  BY <1>2 DEF InUse, Slot, Behind
<1>6. (Pending(w) <=> Len(stack[w]) = 2) /\ (Pending(w)' <=> Len(stack[w]) = 2)
  BY <1>1, <1>3, <1>4 DEF Pending
<1>7. (Refilling(w) <=> Len(stack[w]) = 2) /\ (Refilling(w)' <=> Len(stack[w]) = 2)
  <2>1. 1 # 2
    OBVIOUS
  <2>2. Refilling(w) <=> Len(stack[w]) = 2
    BY <1>1 DEF Refilling
  <2>3. CASE Len(stack[w]) = 1
    <3>1. ~Refilling(w)'
      BY <1>4, <2>3 DEF Refilling
    <3> QED BY <2>1, <2>2, <2>3, <3>1
  <2>4. CASE Len(stack[w]) = 2
    <3>1. Refilling(w)'
      BY <1>4, <2>4 DEF Refilling
    <3> QED BY <2>2, <2>4, <3>1
  <2> QED BY <1>4, <2>3, <2>4
<1>8. Stored' = Stored /\ (Len(stack[w]) = 1 => Stored = InUse)
  <2>1. CASE Len(stack[w]) = 1
    <3>1. Stored = InUse
      BY <1>6, <2>1, StoredIs
    <3>2. Stored' = InUse'
      BY <1>6, <2>1, StoredIs
    <3> QED BY <1>5, <3>1, <3>2
  <2>2. CASE Len(stack[w]) = 2
    <3>1. Stored = InUse \ {Outer(w)}
      BY <1>6, <2>2, StoredIs
    <3>2. Stored' = InUse' \ {Outer(w)'}
      BY <1>6, <2>2, StoredIs
    <3>3. InUse' \ {Outer(w)'} = InUse \ {Outer(w)}
      BY <1>4, <1>5, <2>2
    <3> QED BY <2>2, <3>1, <3>2, <3>3
  <2> QED BY <1>4, <2>1, <2>2
<1>9. Left(w)' = Left(w)
  <2>1. CASE Len(stack[w]) = 1
    BY <1>7, <2>1 DEF Left
  <2>2. CASE Len(stack[w]) = 2
    BY <1>4, <1>5, <1>7, <1>8, <2>2 DEF Left
  <2> QED BY <1>4, <2>1, <2>2
<1>10. Moving(w) = {} /\ Moving(w)' = {}
  <2>1. Moving(w)' = {}
    BY <1>4 DEF Moving
  <2> QED BY <1>1, <2>1 DEF Moving, Hanging
<1>11. Hung(w)' = Hung(w)
  BY <1>8, <1>9, <1>10 DEF Hung
<1>12. Ins(w) \in Hung(w) /\ Uncounted(w) = {Ins(w)} /\ Uncounted(w)' = {}
  <2>1. Uncounted(w) = {Ins(w)} /\ Uncounted(w)' = {}
    BY <1>1, <1>2 DEF Uncounted, Hanging
  <2>2. CASE Len(stack[w]) = 1
    <3>1. Ins(w) \in Stored
      BY <1>0, <1>3, <1>8, <2>2, TopFrame DEF TInv, Reach, Outer
    <3>2. Left(w) = {}
      BY <1>7, <2>2 DEF Left
    <3> QED BY <1>10, <2>1, <3>1, <3>2 DEF Hung
  <2>3. CASE Len(stack[w]) = 2
    BY <1>10, <2>1, <2>3 DEF Hung, Left, TInv, Reach, Phase
  <2> QED BY <1>4, <2>2, <2>3
<1>13. \A e \in Entry : Links(w)'[e] = Links(w)[e]
  BY <1>1, <1>2 DEF Links
<1>14. \A j : Bucket(w, j)' = Bucket(w, j)
  BY <1>2, <1>5, <1>11 DEF Bucket
<1>15. Len(stack[w]) = 2 => \A j : OldBucket(w, j)' = OldBucket(w, j)
  BY <1>4, <1>5, <1>9 DEF OldBucket
<1>16. Reach(w)'
  <2>1. Putting(w)' => Outer(w)' \in InUse'
    BY <1>3, <1>4, <1>5 DEF TInv, Reach
  <2>2. Len(stack'[w]) # 2
    BY <1>4
  <2> QED BY <1>2, <1>5, <1>8, <2>1, <2>2 DEF TInv, Reach
<1>17. Phase(w)'
  <2>1. Len(stack'[w]) \in {0, 1}
    BY <1>4
  <2>2. \A n \in {0, 1} : n <= 2 /\ n # 2
    OBVIOUS
  <2>3. Pending(w)' => next'[Outer(w)'] = NULL
    BY <1>2, <1>4, <1>6 DEF TInv, Phase
  <2>4. Len(stack'[w]) = 1 => pc'[w] = "scan"
    BY <1>4
  <2> QED BY <1>4, <2>1, <2>2, <2>3, <2>4 DEF Phase
<1>18. Memory(w)'
  BY <1>1, <1>2, <1>4, <1>7 DEF TInv, Memory
<1>19. Shape(w)'
  <2>1. ASSUME NEW j \in 0..(size - 1) PROVE Listed(arr[entries][j], Bucket(w, j), Links(w)', key)
    <3> DEFINE nx == Links(w)'
    <3>1. \A e \in Bucket(w, j) : nx[e] = Links(w)[e]
      BY <1>13 DEF Bucket, Hung, Stored, InUse
    <3>2. Listed(arr[entries][j], Bucket(w, j), Links(w), key)
      BY <1>1, <2>1 DEF TInv, Shape
    <3> HIDE DEF nx
    <3>3. Listed(arr[entries][j], Bucket(w, j), nx, key)
      BY <3>1, <3>2, ListedSame
    <3> QED BY <3>3 DEF nx
  <2> QED BY <1>1, <1>2, <1>4, <1>7, <1>8, <1>14, <1>15, <2>1 DEF TInv, Shape
<1>20. Place(w)'
  BY <1>2 DEF Place
<1>21. Counting(w)'
  <2>1. IsFiniteSet(Hung(w))
    BY FS_Subset DEF TInv, Counting, Hung, Stored
  <2>2. Cardinality(Hung(w) \ {Ins(w)}) = Cardinality(Hung(w)) - 1 /\ Cardinality(Hung(w)) \in Nat
    BY <1>12, <2>1, FS_RemoveElement, FS_CardinalityType
  <2>3. nentries' = Cardinality(Hung(w))
    BY <1>1, <1>12, <2>2 DEF TInv, Counting
  <2>4. Hung(w)' \ Uncounted(w)' = Hung(w)
    BY <1>11, <1>12
  <2>5. nentries' = Cardinality(Hung(w)' \ Uncounted(w)')
    BY <2>3, <2>4
  <2> QED BY <1>2, <1>4, <1>5, <1>7, <1>8, <2>5 DEF TInv, Counting
<1> QED BY <1>8, <1>16, <1>17, <1>18, <1>19, <1>20, <1>21 DEF TInv

(* The key was there: the new entry goes, the old one keeps its place.     *)
LEMMA ReplaceTable ==
  ASSUME NEW w, Writer = {w}, IInv, TInv(w), Replace(w)
  PROVE  TInv(w)' /\ Stored \subseteq Stored'
<1>0. w \in Thread
  BY ThreadAssumption
<1>1. /\ pc[w] = "walk" /\ Putting(w) /\ Usable(cur[w]) /\ key[cur[w]] = key[Ins(w)]
      /\ mem' = [mem EXCEPT ![Ins(w)] = "freed"]
      /\ stack' = [stack EXCEPT ![w] = Tail(@)]
      /\ pc' = [pc EXCEPT ![w] = IF Len(stack[w]) = 1 THEN "idle" ELSE "scan"]
      /\ prev' = [prev EXCEPT ![w] = NULL] /\ cur' = [cur EXCEPT ![w] = NULL]
      /\ UNCHANGED <<mvars, avars, key, next>>
  BY DEF Replace, Return, Forget, Goto, Target
<1>2. Ins(w) \in Entry /\ NULL \notin Entry
  BY <1>0, <1>1, TopFrame, NullAssumption
<1>3. /\ stack'[w] = Tail(stack[w]) /\ size' = size /\ key' = key /\ next' = next
      /\ pc'[w] = (IF Len(stack[w]) = 1 THEN "idle" ELSE "scan")
      /\ entries' = entries /\ live' = live /\ arr' = arr /\ nentries' = nentries
      /\ prev'[w] = NULL /\ \A t \in Thread : cur'[t] \in Entry => cur'[t] = cur[t]
      /\ \A e \in Entry : mem'[e] = IF e = Ins(w) THEN "freed" ELSE mem[e]
  BY <1>0, <1>1, <1>2 DEF IInv, TypeOK, avars, mvars
<1>4. cur[w] \in Stored /\ cur[w] \in Hung(w)
  <2>1. cur[w] \in Bucket(w, idx[w]) /\ Bucket(w, idx[w]) \subseteq Stored
    BY <1>1, <1>2, WalkAt DEF Usable
  <2> QED BY <2>1 DEF Bucket
<1>5. Len(stack[w]) # 2
  <2>1. CASE Len(stack[w]) = 2
    <3>1. Ins(w) \in Stored /\ Moving(w) = {Ins(w)}
      BY <1>1, <2>1 DEF TInv, Reach, Moving, Hanging
    <3>2. cur[w] = Ins(w)
      BY <1>1, <1>4, <3>1 DEF TInv, Shape, Distinct
    <3> QED BY <1>4, <3>1, <3>2 DEF Hung
  <2> QED BY <2>1
<1>6. /\ Len(stack[w]) = 1 /\ Len(stack'[w]) = 0 /\ ~Putting(w)' /\ pc'[w] = "idle"
      /\ Len(stack'[w]) # 2
  BY <1>1, <1>3, <1>5, Popped
<1>7. (\A e, n : Slot(e, n)' = Slot(e, n)) /\ \A e, f : Behind(e, f)' = Behind(e, f)
  BY <1>3 DEF Slot, Behind
<1>8. Pending(w) /\ ~Pending(w)' /\ ~Refilling(w) /\ ~Refilling(w)' /\ Outer(w) = Ins(w)
  <2>1. Outer(w) = Ins(w)
    BY <1>0, <1>1, <1>6, TopFrame DEF Outer
  <2>2. ~Refilling(w)'
    BY <1>6 DEF Refilling
  <2>3. ~Refilling(w)
    BY <1>1, <1>5 DEF Refilling
  <2>4. Pending(w) /\ ~Pending(w)'
    BY <1>1, <1>6 DEF Pending
  <2> QED BY <2>1, <2>2, <2>3, <2>4
<1>9. InUse' = InUse \ {Ins(w)}
  BY <1>3 DEF InUse
<1>10. Stored = InUse \ {Ins(w)} /\ Stored' = Stored
  <2>1. Stored = InUse \ {Ins(w)}
    BY <1>8, StoredIs
  <2>2. Stored' = InUse'
    BY <1>8, StoredIs
  <2> QED BY <1>9, <2>1, <2>2
<1>11. Left(w) = {} /\ Left(w)' = {} /\ Moving(w) = {} /\ Moving(w)' = {}
  BY <1>5, <1>6, <1>8 DEF Left, Moving
<1>12. Hung(w) = Stored /\ Hung(w)' = Stored
  BY <1>10, <1>11 DEF Hung
<1>13. Uncounted(w) = {} /\ Uncounted(w)' = {}
  BY <1>1, <1>6 DEF Uncounted, Hanging
<1>14. \A e \in Entry : Links(w)'[e] = Links(w)[e]
  BY <1>1, <1>3, <1>6 DEF Links
<1>15. \A j : Bucket(w, j)' = Bucket(w, j)
  BY <1>3, <1>7, <1>12 DEF Bucket
<1>16. Reach(w)'
  BY <1>3, <1>6, <1>9, <1>10 DEF TInv, Reach
<1>17. Phase(w)'
  <2>1. 0 <= 2 /\ 0 # 1
    OBVIOUS
  <2>2. Len(stack'[w]) <= 2 /\ Len(stack'[w]) # 1
    BY <1>6, <2>1, Zenon
  <2> QED BY <1>6, <1>8, <2>2 DEF Phase
<1>18. Memory(w)'
  BY <1>3, <1>8 DEF TInv, Memory
<1>19. Shape(w)'
  <2>1. ASSUME NEW j \in 0..(size - 1) PROVE Listed(arr[entries][j], Bucket(w, j), Links(w)', key)
    <3> DEFINE nx == Links(w)'
    <3>1. \A e \in Bucket(w, j) : nx[e] = Links(w)[e]
      BY <1>14 DEF Bucket, Hung, Stored, InUse
    <3>2. Listed(arr[entries][j], Bucket(w, j), Links(w), key)
      BY <1>1, <2>1 DEF TInv, Shape
    <3> HIDE DEF nx
    <3>3. Listed(arr[entries][j], Bucket(w, j), nx, key)
      BY <3>1, <3>2, ListedSame
    <3> QED BY <3>3 DEF nx
  <2> QED BY <1>3, <1>8, <1>10, <1>15, <2>1 DEF TInv, Shape
<1>20. Place(w)'
  BY <1>6 DEF Place
<1>21. Counting(w)'
  <2>1. IsFiniteSet(InUse')
    BY <1>9, FS_Subset DEF TInv, Counting
  <2> QED BY <1>3, <1>6, <1>8, <1>10, <1>12, <1>13, <2>1 DEF TInv, Counting
<1> QED BY <1>10, <1>16, <1>17, <1>18, <1>19, <1>20, <1>21 DEF TInv

(* Steps that leave the entries and the activations alone.                 *)
LEMMA StaySets ==
  ASSUME NEW w, Writer = {w}, key' = key, mem' = mem, stack' = stack,
         pc[w] \notin Hanging, pc'[w] \notin Hanging, Refilling(w)' <=> Refilling(w)
  PROVE  /\ Stored' = Stored /\ Left(w)' = Left(w) /\ Hung(w)' = Hung(w)
         /\ Uncounted(w) = {} /\ Uncounted(w)' = {} /\ Pending(w)' = Pending(w)
         /\ Putting(w)' = Putting(w) /\ InUse' = InUse
         /\ Ins(w)' = Ins(w) /\ Outer(w)' = Outer(w) /\ Bottom(w)' = Bottom(w)
         /\ \A e, n : Slot(e, n)' = Slot(e, n)
         /\ \A e, f : Behind(e, f)' = Behind(e, f)
         /\ \A j : OldBucket(w, j)' = OldBucket(w, j)
<1>1. Putting(w)' = Putting(w) /\ Ins(w)' = Ins(w) /\ Outer(w)' = Outer(w) /\ Bottom(w)' = Bottom(w)
      /\ InUse' = InUse
  BY DEF Putting, Ins, Outer, Bottom, InUse
<1>2. Pending(w)' = Pending(w) /\ Uncounted(w) = {} /\ Uncounted(w)' = {} /\ Moving(w)' = Moving(w)
  BY <1>1 DEF Pending, Uncounted, Moving, Hanging
<1>3. Stored' = Stored
  BY <1>1, <1>2, StoredIs
<1>4. (\A e, n : Slot(e, n)' = Slot(e, n)) /\ \A e, f : Behind(e, f)' = Behind(e, f)
  BY DEF Slot, Behind
<1>5. Left(w)' = Left(w)
  BY <1>1, <1>3, <1>4 DEF Left
<1>6. Hung(w)' = Hung(w)
  BY <1>2, <1>3, <1>5 DEF Hung
<1>7. \A j : OldBucket(w, j)' = OldBucket(w, j)
  BY <1>1, <1>4, <1>5 DEF OldBucket
<1> QED BY <1>1, <1>2, <1>3, <1>4, <1>5, <1>6, <1>7

(* Reach and Phase after such a step.                                      *)
LEMMA StayReach ==
  ASSUME NEW w, Writer = {w}, IInv, TInv(w), key' = key, mem' = mem, stack' = stack, next' = next,
         cur' = cur, prev' = prev,
         pc[w] \notin Hanging, pc'[w] \notin Hanging, Refilling(w)' <=> Refilling(w),
         Putting(w), pc'[w] # "idle",
         Len(stack[w]) = 2 => pc'[w] \in {"check", "index", "base", "head", "walk"},
         \A a \in Array : \A i \in DOMAIN arr'[a] :
           arr'[a][i] \in Entry => i \in DOMAIN arr[a] /\ arr'[a][i] = arr[a][i]
  PROVE  Reach(w)' /\ Phase(w)'
<1>1. /\ Stored' = Stored /\ Pending(w)' = Pending(w)
      /\ Putting(w)' = Putting(w) /\ InUse' = InUse
      /\ Ins(w)' = Ins(w) /\ Outer(w)' = Outer(w) /\ Bottom(w)' = Bottom(w)
      /\ \A e, f : Behind(e, f)' = Behind(e, f)
  BY StaySets
<1>2. Reach(w)'
  <2>1. \A a \in Array : \A i \in DOMAIN arr'[a] : arr'[a][i] \in Entry => arr'[a][i] \in Stored
    BY DEF TInv, Reach
  <2> QED BY <1>1, <2>1 DEF TInv, Reach
<1>3. Phase(w)'
  <2>1. Len(stack[w]) = 2 => ~Behind(Ins(w), Bottom(w))' /\ Head(stack[w]) = Frame(Ins(w)')
    BY <1>1 DEF TInv, Phase, Behind, Slot
  <2> QED BY <1>1, <2>1 DEF TInv, Phase, Hanging
<1> QED BY <1>2, <1>3

(* hash_map_rehash is entered: only a put called from outside can need it. *)
LEMMA CheckTable ==
  ASSUME NEW w, Writer = {w}, IInv, TInv(w), Check(w)
  PROVE  TInv(w)' /\ Stored \subseteq Stored'
<1>0. w \in Thread
  BY ThreadAssumption
<1>1. /\ pc[w] = "check" /\ pc' = [pc EXCEPT ![w] = IF nentries >= size \div 2 THEN "save" ELSE "index"]
      /\ UNCHANGED <<mvars, avars, nvars, stack, lvars>>
  BY DEF Check, Full, Goto
<1>2. /\ stack' = stack /\ size' = size /\ key' = key /\ mem' = mem /\ next' = next
      /\ pc'[w] = (IF nentries >= size \div 2 THEN "save" ELSE "index")
      /\ entries' = entries /\ live' = live /\ arr' = arr /\ nentries' = nentries
      /\ prev' = prev /\ cur' = cur
  BY <1>0, <1>1 DEF IInv, TypeOK, mvars, avars, nvars, lvars
<1>3. Putting(w) /\ Len(stack[w]) \in {1, 2}
  BY <1>0, <1>1, Depth DEF IInv, Placed
<1>4. Refilling(w)' <=> Refilling(w)
  BY <1>1, <1>2 DEF Refilling
<1>5. pc[w] \notin Hanging /\ pc'[w] \notin Hanging
  BY <1>1, <1>2 DEF Hanging
<1>6. /\ Stored' = Stored /\ Left(w)' = Left(w) /\ Hung(w)' = Hung(w)
      /\ Uncounted(w) = {} /\ Uncounted(w)' = {} /\ Putting(w)' = Putting(w)
      /\ InUse' = InUse /\ Bottom(w)' = Bottom(w)
      /\ (\A e, n : Slot(e, n)' = Slot(e, n)) /\ \A j : OldBucket(w, j)' = OldBucket(w, j)
  BY <1>2, <1>4, <1>5, StaySets
<1>7. IsFiniteSet(Stored) /\ Cardinality(Stored) \in Nat
  BY FS_Subset, FS_CardinalityType DEF TInv, Counting, Stored
<1>8. nentries = Cardinality(Hung(w)) /\ nentries \in Nat
  <2>1. Hung(w) \ {} = Hung(w)
    OBVIOUS
  <2> QED BY <1>6, <2>1 DEF TInv, Counting, IInv, TypeOK
<1>9. Len(stack[w]) = 2 => pc'[w] = "index"
  <2>1. CASE Len(stack[w]) = 2
    <3>1. Refilling(w) /\ Bottom(w).n \in Nat /\ Bottom(w).n > 0
      BY <2>1, BottomFrame DEF Refilling, Rehashing
    <3>2. size = 2 * Bottom(w).n /\ Cardinality(Stored) <= Bottom(w).n \div 2
      BY <1>1, <3>1 DEF TInv, Memory, Counting
    <3>3. Cardinality(Hung(w)) <= Cardinality(Stored)
      BY <1>7, FS_Subset DEF Hung
    <3> QED BY <1>2, <1>7, <1>8, <3>1, <3>2, <3>3
  <2> QED BY <2>1
<1>10. Reach(w)' /\ Phase(w)'
  <2>1. pc'[w] # "idle"
    BY <1>2
  <2> QED BY <1>2, <1>3, <1>4, <1>5, <1>9, <2>1, StayReach
<1>11. Memory(w)'
  BY <1>1, <1>2, <1>4, <1>6 DEF TInv, Memory
<1>12. Shape(w)'
  <2>1. (\A j : Bucket(w, j)' = Bucket(w, j)) /\ Links(w)' = Links(w)
    BY <1>1, <1>2, <1>6 DEF Bucket, Links
  <2> QED BY <1>1, <1>2, <1>4, <1>6, <2>1 DEF TInv, Shape
<1>13. Place(w)'
  BY <1>2 DEF Place
<1>14. Counting(w)'
  <2>1. ~Refilling(w) => Len(stack[w]) = 1 /\ Hung(w) = Stored
    BY <1>1, <1>3 DEF Refilling, Hung, Left, Moving
  <2>2. nentries' = Cardinality(Hung(w)' \ Uncounted(w)')
    <3>1. Hung(w)' \ Uncounted(w)' = Hung(w)
      BY <1>6
    <3> QED BY <1>2, <1>8, <3>1
  <2>3. ~Refilling(w) /\ pc'[w] = "index" => Cardinality(Stored) + 1 <= size \div 2
    <3>1. pc'[w] = "index" => ~(nentries >= size \div 2)
      BY <1>2
    <3>2. \A m \in Nat, n \in Nat : ~(m >= n \div 2) => m + 1 <= n \div 2
      OBVIOUS
    <3>3. size \in Nat
      BY DEF IInv, TypeOK
    <3> QED BY <1>8, <2>1, <3>1, <3>2, <3>3
  <2>4. pc'[w] \notin {"base", "head", "walk"}
    BY <1>2
  <2> QED BY <1>2, <1>4, <1>6, <2>2, <2>3, <2>4 DEF TInv, Counting
<1> QED BY <1>6, <1>10, <1>11, <1>12, <1>13, <1>14 DEF TInv

(* It saves the array.                                                     *)
LEMMA SaveTable ==
  ASSUME NEW w, Writer = {w}, IInv, TInv(w), Save(w)
  PROVE  TInv(w)' /\ Stored \subseteq Stored'
<1>0. w \in Thread
  BY ThreadAssumption
<1>1. /\ pc[w] = "save" /\ pc' = [pc EXCEPT ![w] = "grow"]
      /\ UNCHANGED <<mvars, avars, nvars, stack, lvars>>
  BY DEF Save, Goto
<1>2. /\ stack' = stack /\ size' = size /\ key' = key /\ mem' = mem /\ next' = next
      /\ pc'[w] = "grow"
      /\ entries' = entries /\ live' = live /\ arr' = arr /\ nentries' = nentries
      /\ prev' = prev /\ cur' = cur
  BY <1>0, <1>1 DEF IInv, TypeOK, mvars, avars, nvars, lvars
<1>3. Putting(w) /\ Len(stack[w]) = 1 /\ Len(stack[w]) # 2
  <2>1. Putting(w) /\ Len(stack[w]) = 1
    BY <1>0, <1>1, Depth DEF IInv, Placed, TInv, Phase
  <2>2. 1 # 2
    OBVIOUS
  <2> QED BY <2>1, <2>2, Zenon
<1>4. ~Refilling(w) /\ ~Refilling(w)'
  BY <1>1, <1>2, <1>3 DEF Refilling
<1>5. pc[w] \notin Hanging /\ pc'[w] \notin Hanging
  BY <1>1, <1>2 DEF Hanging
<1>6. /\ Stored' = Stored /\ Left(w)' = Left(w) /\ Hung(w)' = Hung(w)
      /\ Uncounted(w) = {} /\ Uncounted(w)' = {} /\ Putting(w)' = Putting(w)
      /\ InUse' = InUse /\ Bottom(w)' = Bottom(w)
      /\ (\A e, n : Slot(e, n)' = Slot(e, n)) /\ \A j : OldBucket(w, j)' = OldBucket(w, j)
  BY <1>2, <1>4, <1>5, StaySets
<1>7. Reach(w)' /\ Phase(w)'
  <2>1. pc'[w] # "idle"
    BY <1>2
  <2> QED BY <1>2, <1>3, <1>4, <1>5, <2>1, StayReach
<1>8. Memory(w)'
  BY <1>2, <1>4, <1>6 DEF TInv, Memory
<1>9. Shape(w)'
  <2>1. (\A j : Bucket(w, j)' = Bucket(w, j)) /\ Links(w)' = Links(w)
    BY <1>1, <1>2, <1>6 DEF Bucket, Links
  <2> QED BY <1>1, <1>2, <1>4, <1>6, <2>1 DEF TInv, Shape
<1>10. Place(w)'
  BY <1>2 DEF Place
<1>11. Counting(w)'
  BY <1>1, <1>2, <1>4, <1>6 DEF TInv, Counting
<1> QED BY <1>6, <1>7, <1>8, <1>9, <1>10, <1>11 DEF TInv

(* The rehash begins: everything stored is still to be moved.              *)
LEMMA GrowTable ==
  ASSUME NEW w, Writer = {w}, IInv, TInv(w), Asked(w), Grow(w)
  PROVE  TInv(w)' /\ Stored \subseteq Stored'
<1> DEFINE x == Ins(w)
           g == Activation(x, entries, size, 0, NULL)
<1>0. w \in Thread
  BY ThreadAssumption
<1>1. /\ pc[w] = "grow" /\ pc' = [pc EXCEPT ![w] = "resize"] /\ nentries' = 0
      /\ stack' = [stack EXCEPT ![w] = <<g>> \o Tail(@)]
      /\ UNCHANGED <<size, entries, avars, nvars, lvars>>
  BY DEF Grow, SetTop, Goto, NewCount, Asked
<1>2. /\ stack'[w] = <<g>> \o Tail(stack[w]) /\ size' = size /\ key' = key /\ mem' = mem
      /\ next' = next /\ pc'[w] = "resize"
      /\ entries' = entries /\ live' = live /\ arr' = arr /\ nentries' = 0
      /\ prev' = prev /\ cur' = cur
  BY <1>0, <1>1 DEF IInv, TypeOK, avars, nvars, lvars
<1>3. Putting(w) /\ Len(stack[w]) = 1
  BY <1>0, <1>1, Depth DEF IInv, Placed, TInv, Phase
<1>4. g \in FrameDom /\ g.entry = x /\ g.old = entries /\ g.n = size /\ g.i = 0 /\ g.todo = NULL
  BY <1>0, <1>3, TopFrame DEF IInv, TypeOK, Activation, FrameDom, PtrDom
<1> HIDE DEF g
<1>5. /\ Len(stack'[w]) = 1 /\ stack'[w] # << >> /\ stack'[w][1] = g /\ Head(stack'[w]) = g
      /\ Len(stack'[w]) # 2
  <2>1. stack[w] \in Seq(FrameDom) /\ stack[w] # << >>
    BY <1>0, <1>3, TopFrame
  <2>2. stack'[w] \in Seq(FrameDom) /\ stack'[w] # << >> /\ Len(stack'[w]) = Len(stack[w]) /\ stack'[w][1] = g
    BY <1>2, <1>4, <2>1, TopSeq
  <2>3. Head(stack'[w]) = g
    BY <2>2, TailSeq
  <2>4. 1 # 2
    OBVIOUS
  <2> QED BY <1>3, <2>2, <2>3, <2>4, Zenon
<1>6. Putting(w)' /\ Ins(w)' = x /\ Outer(w)' = x /\ Bottom(w)' = g /\ Outer(w) = x
  <2>1. Outer(w) = x
    BY <1>0, <1>3, TopFrame DEF Outer
  <2> QED BY <1>4, <1>5, <2>1 DEF Putting, Ins, Outer, Bottom
<1>7. InUse' = InUse /\ (\A e, n : Slot(e, n)' = Slot(e, n)) /\ \A e, f : Behind(e, f)' = Behind(e, f)
  BY <1>2 DEF InUse, Slot, Behind
<1>8. Pending(w) /\ Pending(w)' /\ Refilling(w)' /\ ~Refilling(w)
  <2>1. ~Refilling(w)
    BY <1>1, <1>3 DEF Refilling
  <2> QED BY <1>1, <1>2, <1>3, <1>6, <2>1 DEF Pending, Refilling
<1> HIDE DEF x
<1>9. Stored' = Stored
  <2>1. Stored = InUse \ {Outer(w)}
    BY <1>8, StoredIs
  <2>2. Stored' = InUse' \ {Outer(w)'}
    BY <1>8, StoredIs
  <2> QED BY <1>6, <1>7, <2>1, <2>2
<1>10. Left(w) = {} /\ Moving(w) = {} /\ Moving(w)' = {} /\ Hung(w) = Stored
  <2>1. Left(w) = {}
    BY <1>8 DEF Left
  <2>2. Moving(w) = {}
    BY <1>3 DEF Moving
  <2>3. Moving(w)' = {}
    BY <1>5 DEF Moving
  <2> QED BY <2>1, <2>2, <2>3 DEF Hung
<1>11. Left(w)' = Stored /\ Hung(w)' = {}
  <2>1. \A e \in Stored : Behind(e, g)
    <3>1. \A e \in Stored : Slot(e, size) \in 0..(size - 1)
      BY KeysOf, SlotIs DEF IInv, TypeOK
    <3> QED BY <1>4, <3>1 DEF Behind
  <2>2. Left(w)' = Stored
    BY <1>6, <1>7, <1>8, <1>9, <2>1 DEF Left
  <2> QED BY <1>9, <2>2 DEF Hung
<1>12. Uncounted(w)' = {}
  BY <1>2 DEF Uncounted, Hanging
<1>13. \A j : OldBucket(w, j)' = Bucket(w, j)
  BY <1>4, <1>6, <1>7, <1>10, <1>11 DEF OldBucket, Bucket
<1>14. Reach(w)'
  BY <1>2, <1>3, <1>5, <1>6, <1>7, <1>8, <1>9 DEF TInv, Reach, Pending
<1>15. Phase(w)'
  <2>1. Pending(w)' => next'[Outer(w)'] = NULL
    BY <1>2, <1>6, <1>8 DEF TInv, Phase
  <2>2. \A n : n = 1 => n <= 2
    OBVIOUS
  <2> QED BY <1>2, <1>5, <1>6, <2>1, <2>2 DEF Phase
<1>16. Memory(w)'
  BY <1>2, <1>4, <1>6, <1>8 DEF TInv, Memory, IInv, TypeOK
<1>17. Shape(w)'
  <2>1. \A j \in 0..(size - 1) : Listed(arr[entries][j], Bucket(w, j), Links(w), key)
    BY <1>1 DEF TInv, Shape
  <2>2. \A j \in 0..(size - 1) : Listed(arr[entries][j], Bucket(w, j), next, key)
    <3>1. \A e \in Stored : Links(w)[e] = next[e]
      BY <1>1 DEF Links, Stored, InUse
    <3>2. \A j : \A e \in Bucket(w, j) : Links(w)[e] = next[e]
      BY <1>10, <3>1 DEF Bucket
    <3> QED BY <2>1, <3>2, ListedSame
  <2> QED BY <1>2, <1>4, <1>6, <1>9, <1>13, <2>2 DEF TInv, Shape
<1>18. Place(w)'
  BY <1>2 DEF Place
<1>19. Counting(w)'
  <2>1. nentries' = Cardinality(Hung(w)' \ Uncounted(w)')
    <3>1. Hung(w)' \ Uncounted(w)' = {}
      BY <1>11
    <3> QED BY <1>2, <3>1, FS_EmptySet
  <2> QED BY <1>2, <1>4, <1>6, <1>7, <1>8, <1>9, <2>1 DEF TInv, Counting
<1> QED BY <1>9, <1>14, <1>15, <1>16, <1>17, <1>18, <1>19 DEF TInv

(* While the new array is prepared nothing hangs in it.                    *)
LEMMA NoneMoved ==
  ASSUME NEW w, Writer = {w}, IInv, TInv(w), pc[w] \in {"resize", "alloc", "zero"}
  PROVE  /\ Putting(w) /\ Len(stack[w]) = 1 /\ Refilling(w) /\ Bottom(w).i = 0
         /\ Head(stack[w]) = Bottom(w) /\ Left(w) = Stored /\ Hung(w) = {}
         /\ Bottom(w).old \in Array /\ Bottom(w).n \in Nat /\ Bottom(w).n > 0
<1>0. w \in Thread
  BY ThreadAssumption
<1>1. Refilling(w) /\ Bottom(w).i = 0
  BY DEF Refilling, TInv, Memory
<1>2. /\ Putting(w) /\ Rehashing(Bottom(w))
      /\ Bottom(w).old \in Array /\ Bottom(w).n \in Nat /\ Bottom(w).i \in Nat
  BY <1>1, BottomFrame
<1>3. Len(stack[w]) = 1
  BY <1>2, Depth DEF TInv, Phase
<1>4. Head(stack[w]) = Bottom(w)
  BY <1>0, <1>2, <1>3, TopFrame DEF Bottom
<1>5. \A e \in Stored : Behind(e, Bottom(w))
  <2>1. \A e \in Stored : Slot(e, Bottom(w).n) \in 0..(Bottom(w).n - 1)
    BY <1>2, KeysOf, SlotIs DEF Rehashing
  <2> QED BY <1>1, <2>1 DEF Behind
<1>6. Left(w) = Stored
  BY <1>1, <1>5 DEF Left
<1> QED BY <1>1, <1>2, <1>3, <1>4, <1>6 DEF Hung, Rehashing

(* init_hash_map stores the size...                                        *)
LEMMA ResizeTable ==
  ASSUME NEW w, Writer = {w}, IInv, TInv(w), Asked(w), Resize(w)
  PROVE  TInv(w)' /\ Stored \subseteq Stored'
<1>0. w \in Thread
  BY ThreadAssumption
<1>1. /\ pc[w] = "resize" /\ pc' = [pc EXCEPT ![w] = "alloc"] /\ size' = 2 * Head(stack[w]).n
      /\ UNCHANGED <<nentries, entries, avars, nvars, stack, lvars>>
  BY DEF Resize, Goto, Asked
<1>2. /\ stack' = stack /\ key' = key /\ mem' = mem /\ next' = next /\ pc'[w] = "alloc"
      /\ entries' = entries /\ live' = live /\ arr' = arr /\ nentries' = nentries
      /\ prev' = prev /\ cur' = cur
  BY <1>0, <1>1 DEF IInv, TypeOK, avars, nvars, lvars
<1>3. /\ Putting(w) /\ Len(stack[w]) = 1 /\ Refilling(w) /\ Bottom(w).i = 0
      /\ Head(stack[w]) = Bottom(w) /\ Left(w) = Stored /\ Hung(w) = {}
      /\ Bottom(w).n \in Nat
  BY <1>1, NoneMoved
<1>4. Refilling(w)' /\ pc[w] \notin Hanging /\ pc'[w] \notin Hanging
  BY <1>1, <1>2 DEF Refilling, Hanging
<1>5. /\ Stored' = Stored /\ Left(w)' = Left(w) /\ Hung(w)' = Hung(w)
      /\ Uncounted(w) = {} /\ Uncounted(w)' = {} /\ Putting(w)' = Putting(w)
      /\ InUse' = InUse /\ Bottom(w)' = Bottom(w)
      /\ (\A e, n : Slot(e, n)' = Slot(e, n)) /\ \A j : OldBucket(w, j)' = OldBucket(w, j)
  BY <1>2, <1>3, <1>4, StaySets
<1>6. Reach(w)' /\ Phase(w)'
  <2>1. Len(stack[w]) # 2 /\ pc'[w] # "idle"
    BY <1>2, <1>3
  <2> QED BY <1>2, <1>3, <1>4, <2>1, StayReach
<1>7. Memory(w)'
  BY <1>1, <1>2, <1>3, <1>4, <1>5 DEF TInv, Memory
<1>8. Shape(w)'
  BY <1>2, <1>3, <1>4, <1>5 DEF TInv, Shape
<1>9. Place(w)'
  BY <1>2 DEF Place
<1>10. Counting(w)'
  BY <1>2, <1>3, <1>4, <1>5 DEF TInv, Counting
<1> QED BY <1>5, <1>6, <1>7, <1>8, <1>9, <1>10 DEF TInv

(* ... takes a new array ...                                               *)
LEMMA AllocTable ==
  ASSUME NEW w, Writer = {w}, IInv, TInv(w), Asked(w), Alloc(w)
  PROVE  TInv(w)' /\ Stored \subseteq Stored'
<1>0. w \in Thread
  BY ThreadAssumption
<1>1. PICK a \in Array :
        /\ DOMAIN arr[a] = {} /\ pc[w] = "alloc" /\ pc' = [pc EXCEPT ![w] = "zero"]
        /\ arr' = [arr EXCEPT ![a] = [i \in 0..(2 * Head(stack[w]).n - 1) |-> Junk]]
        /\ live' = live \cup {a} /\ entries' = a
        /\ UNCHANGED <<nentries, size, nvars, stack, lvars>>
  BY DEF Alloc, Unallocated, Goto, Asked
<1>2. /\ stack' = stack /\ key' = key /\ mem' = mem /\ next' = next /\ pc'[w] = "zero"
      /\ nentries' = nentries /\ size' = size /\ prev' = prev /\ cur' = cur
  BY <1>0, <1>1 DEF IInv, TypeOK, nvars, lvars
<1>3. /\ Putting(w) /\ Len(stack[w]) = 1 /\ Refilling(w) /\ Bottom(w).i = 0
      /\ Head(stack[w]) = Bottom(w) /\ Left(w) = Stored /\ Hung(w) = {}
      /\ Bottom(w).n \in Nat /\ Bottom(w).n > 0 /\ Bottom(w).old \in Array
  BY <1>1, NoneMoved
<1>4. Refilling(w)' /\ pc[w] \notin Hanging /\ pc'[w] \notin Hanging
  BY <1>1, <1>2 DEF Refilling, Hanging
<1>5. /\ Stored' = Stored /\ Left(w)' = Left(w) /\ Hung(w)' = Hung(w)
      /\ Uncounted(w) = {} /\ Uncounted(w)' = {} /\ Putting(w)' = Putting(w)
      /\ InUse' = InUse /\ Bottom(w)' = Bottom(w)
      /\ (\A e, n : Slot(e, n)' = Slot(e, n)) /\ \A j : OldBucket(w, j)' = OldBucket(w, j)
  BY <1>2, <1>3, <1>4, StaySets
<1> DEFINE f == Bottom(w)
<1>6. DOMAIN arr[f.old] = 0..(f.n - 1) /\ live = {f.old, entries} /\ entries = f.old /\ size = 2 * f.n
  BY <1>1, <1>3 DEF TInv, Memory
<1>7. a # f.old
  <2>1. 0 \in DOMAIN arr[f.old]
    BY <1>3, <1>6
  <2> QED BY <1>1, <2>1
<1>8. /\ arr'[f.old] = arr[f.old] /\ DOMAIN arr'[a] = 0..(size - 1)
      /\ \A i \in DOMAIN arr'[a] : arr'[a][i] = Junk
      /\ \A b \in Array : b # a => arr'[b] = arr[b]
  BY <1>1, <1>3, <1>6, <1>7 DEF IInv, TypeOK
<1>9. Reach(w)' /\ Phase(w)'
  <2>1. Len(stack[w]) # 2 /\ pc'[w] # "idle"
    BY <1>2, <1>3
  <2>2. ASSUME NEW b \in Array, NEW i \in DOMAIN arr'[b], arr'[b][i] \in Entry
        PROVE  i \in DOMAIN arr[b] /\ arr'[b][i] = arr[b][i]
    BY <1>8, <2>2, NullAssumption
  <2> QED BY <1>2, <1>3, <1>4, <2>1, <2>2, StayReach
<1>10. Memory(w)'
  BY <1>1, <1>2, <1>3, <1>4, <1>5, <1>6, <1>7, <1>8 DEF TInv, Memory
<1>11. Shape(w)'
  BY <1>2, <1>3, <1>4, <1>5, <1>8 DEF TInv, Shape
<1>12. Place(w)'
  BY <1>2 DEF Place
<1>13. Counting(w)'
  BY <1>2, <1>3, <1>4, <1>5 DEF TInv, Counting
<1> QED BY <1>5, <1>9, <1>10, <1>11, <1>12, <1>13 DEF TInv

(* ... and clears it.                                                      *)
LEMMA ZeroTable ==
  ASSUME NEW w, Writer = {w}, IInv, TInv(w), Zero(w)
  PROVE  TInv(w)' /\ Stored \subseteq Stored'
<1>0. w \in Thread
  BY ThreadAssumption
<1>1. /\ pc[w] = "zero" /\ pc' = [pc EXCEPT ![w] = "scan"]
      /\ arr' = [arr EXCEPT ![entries] = [i \in DOMAIN @ |-> IF i < size THEN NULL ELSE @[i]]]
      /\ UNCHANGED <<mvars, live, nvars, stack, lvars>>
  BY DEF Zero, Goto
<1>2. /\ stack' = stack /\ key' = key /\ mem' = mem /\ next' = next /\ pc'[w] = "scan"
      /\ nentries' = nentries /\ size' = size /\ prev' = prev /\ cur' = cur
      /\ entries' = entries /\ live' = live
  BY <1>0, <1>1 DEF IInv, TypeOK, nvars, lvars, mvars
<1>3. /\ Putting(w) /\ Len(stack[w]) = 1 /\ Refilling(w) /\ Bottom(w).i = 0
      /\ Head(stack[w]) = Bottom(w) /\ Left(w) = Stored /\ Hung(w) = {}
      /\ Bottom(w).n \in Nat /\ Bottom(w).n > 0 /\ Bottom(w).old \in Array
  BY <1>1, NoneMoved
<1>4. Refilling(w)' /\ pc[w] \notin Hanging /\ pc'[w] \notin Hanging
  BY <1>1, <1>2 DEF Refilling, Hanging
<1>5. /\ Stored' = Stored /\ Left(w)' = Left(w) /\ Hung(w)' = Hung(w)
      /\ Uncounted(w) = {} /\ Uncounted(w)' = {} /\ Putting(w)' = Putting(w)
      /\ InUse' = InUse /\ Bottom(w)' = Bottom(w)
      /\ (\A e, n : Slot(e, n)' = Slot(e, n)) /\ \A j : OldBucket(w, j)' = OldBucket(w, j)
  BY <1>2, <1>3, <1>4, StaySets
<1> DEFINE f == Bottom(w)
<1>6. DOMAIN arr[entries] = 0..(size - 1) /\ entries # f.old /\ entries \in Array /\ size \in Nat
  BY <1>1, <1>3 DEF TInv, Memory, IInv, TypeOK
<1>7. /\ arr'[f.old] = arr[f.old] /\ DOMAIN arr'[entries] = 0..(size - 1)
      /\ \A i \in 0..(size - 1) : arr'[entries][i] = NULL
      /\ \A b \in Array : b # entries => arr'[b] = arr[b]
  BY <1>1, <1>3, <1>6 DEF IInv, TypeOK
<1>8. Reach(w)' /\ Phase(w)'
  <2>1. Len(stack[w]) # 2 /\ pc'[w] # "idle"
    BY <1>2, <1>3
  <2>2. ASSUME NEW b \in Array, NEW i \in DOMAIN arr'[b], arr'[b][i] \in Entry
        PROVE  i \in DOMAIN arr[b] /\ arr'[b][i] = arr[b][i]
    BY <1>7, <2>2, NullAssumption
  <2> QED BY <1>2, <1>3, <1>4, <2>1, <2>2, StayReach
<1>9. Memory(w)'
  BY <1>1, <1>2, <1>3, <1>4, <1>5, <1>6, <1>7 DEF TInv, Memory
<1>10. Shape(w)'
  <2>1. \A j : Bucket(w, j)' = {}
    BY <1>3, <1>5 DEF Bucket
  <2>2. \A j \in 0..(size - 1) : Listed(arr'[entries][j], {}, Links(w)', key)
    <3> DEFINE nx == Links(w)'
    <3> HIDE DEF nx
    <3>1. Listed(NULL, {}, nx, key)
      BY ListedEmpty
    <3> QED BY <1>7, <3>1 DEF nx
  <2>3. \A j \in f.i..(f.n - 1) : Listed(arr'[f.old][j], OldBucket(w, j), next, key)
    BY <1>3, <1>7 DEF TInv, Shape
  <2>4. \A j \in 0..(size - 1) : Listed(arr'[entries][j], Bucket(w, j)', Links(w)', key)
    BY <2>1, <2>2
  <2> HIDE DEF f
  <2>5. Bottom(w) = f
    BY DEF f
  <2> QED BY <1>2, <1>3, <1>4, <1>5, <2>3, <2>4, <2>5 DEF TInv, Shape
<1>11. Place(w)'
  BY <1>2 DEF Place
<1>12. Counting(w)'
  BY <1>2, <1>3, <1>4, <1>5 DEF TInv, Counting
<1> QED BY <1>5, <1>8, <1>9, <1>10, <1>11, <1>12 DEF TInv

(* Everything is moved: the old array goes.                                *)
LEMMA FreeOldTable ==
  ASSUME NEW w, Writer = {w}, IInv, TInv(w), FreeOld(w)
  PROVE  TInv(w)' /\ Stored \subseteq Stored'
<1> DEFINE f == Bottom(w)
<1>0. w \in Thread
  BY ThreadAssumption
<1>1. /\ pc[w] = "scan" /\ pc' = [pc EXCEPT ![w] = "index"]
      /\ Head(stack[w]).todo = NULL /\ Head(stack[w]).i = Head(stack[w]).n
      /\ live' = live \ {Head(stack[w]).old}
      /\ UNCHANGED <<mvars, arr, nvars, stack, lvars>>
  BY DEF FreeOld, Goto, Released
<1>2. /\ stack' = stack /\ key' = key /\ mem' = mem /\ next' = next /\ pc'[w] = "index"
      /\ nentries' = nentries /\ size' = size /\ prev' = prev /\ cur' = cur
      /\ entries' = entries /\ arr' = arr
  BY <1>0, <1>1 DEF IInv, TypeOK, nvars, lvars, mvars
<1>3. Refilling(w) /\ Putting(w) /\ f.n \in Nat /\ f.n > 0 /\ Len(stack[w]) = 1
  BY <1>1, BottomFrame, Depth DEF Refilling, Rehashing, TInv, Phase
<1>4. Head(stack[w]) = f /\ f.todo = NULL /\ f.i = f.n /\ live' = live \ {f.old}
  <2>1. Head(stack[w]) = f
    BY <1>0, <1>3, TopFrame DEF Bottom
  <2> QED BY <1>1, <2>1
<1>5. Left(w) = {}
  <2>1. \A e \in Stored : ~Behind(e, f)
    <3>1. \A e \in Stored : Slot(e, f.n) \in 0..(f.n - 1)
      BY <1>3, KeysOf, SlotIs
    <3> QED BY <1>3, <1>4, <3>1, NullAssumption DEF Behind
  <2> QED BY <2>1 DEF Left
<1>6. ~Refilling(w)' /\ Moving(w) = {} /\ Moving(w)' = {} /\ Uncounted(w) = {} /\ Uncounted(w)' = {}
  <2>1. Len(stack[w]) # 2
    BY <1>3
  <2>2. ~Refilling(w)' /\ Moving(w)' = {}
    BY <1>2, <2>1 DEF Refilling, Moving
  <2> QED BY <1>1, <1>2, <2>1, <2>2 DEF Moving, Uncounted, Hanging
<1>7. Putting(w)' = Putting(w) /\ Ins(w)' = Ins(w) /\ Outer(w)' = Outer(w) /\ InUse' = InUse
      /\ \A e, n : Slot(e, n)' = Slot(e, n)
  BY <1>2 DEF Putting, Ins, Outer, InUse, Slot
<1>8. Pending(w) /\ Pending(w)'
  BY <1>1, <1>2, <1>3, <1>7 DEF Pending
<1>9. Stored' = Stored
  <2>1. Stored = InUse \ {Outer(w)}
    BY <1>8, StoredIs
  <2>2. Stored' = InUse' \ {Outer(w)'}
    BY <1>8, StoredIs
  <2> QED BY <1>7, <2>1, <2>2
<1>10. Left(w)' = {}
  BY <1>6 DEF Left
<1>11. Hung(w) = Stored /\ Hung(w)' = Stored
  BY <1>5, <1>6, <1>9, <1>10 DEF Hung
<1>12. Reach(w)'
  BY <1>2, <1>3, <1>7, <1>9 DEF TInv, Reach
<1>13. Phase(w)'
  BY <1>2, <1>3, <1>7, <1>8 DEF TInv, Phase
<1>14. Memory(w)'
  BY <1>1, <1>2, <1>3, <1>4, <1>6 DEF TInv, Memory
<1>15. Shape(w)'
  <2>1. Links(w)' = Links(w) /\ \A j : Bucket(w, j)' = Bucket(w, j)
    BY <1>1, <1>2, <1>7, <1>11 DEF Links, Bucket
  <2> QED BY <1>1, <1>2, <1>6, <1>9, <2>1 DEF TInv, Shape
<1>16. Place(w)'
  BY <1>2 DEF Place
<1>17. Counting(w)'
  <2>1. IsFiniteSet(Stored) /\ Cardinality(Stored) \in Nat
    BY FS_Subset, FS_CardinalityType DEF TInv, Counting, Stored
  <2>2. size = 2 * f.n /\ Cardinality(Stored) <= f.n \div 2
    BY <1>1, <1>3 DEF TInv, Memory, Counting
  <2>3. Cardinality(Stored) + 1 <= size \div 2
    BY <1>3, <2>1, <2>2
  <2>4. Cardinality(Stored) <= size \div 2
    BY <1>3, <2>1, <2>2
  <2> QED BY <1>2, <1>6, <1>7, <1>9, <1>11, <2>3, <2>4 DEF TInv, Counting
<1> QED BY <1>9, <1>12, <1>13, <1>14, <1>15, <1>16, <1>17 DEF TInv

(* The next bucket of the old array.                                       *)
LEMMA ScanTable ==
  ASSUME NEW w, Writer = {w}, IInv, TInv(w), Scan(w)
  PROVE  TInv(w)' /\ Stored \subseteq Stored'
<1>0. w \in Thread
  BY ThreadAssumption
<1>1. PICK f \in FrameDom : f = Head(stack[w]) /\ f = Bottom(w) /\ Rehashing(f)
  <2>1. Putting(w) /\ Len(stack[w]) = 1 /\ Refilling(w)
    BY BottomFrame, Depth DEF Scan, Refilling, TInv, Phase
  <2> QED BY <1>0, <2>1, TopFrame, BottomFrame DEF Bottom
<1>2. PICK p \in Load(f.old, f.i) :
        stack' = [stack EXCEPT ![w] = <<Activation(f.entry, f.old, f.n, f.i + 1, p)>> \o Tail(@)]
  BY <1>1 DEF Scan, SetTop
<1> DEFINE g == Activation(f.entry, f.old, f.n, f.i + 1, p)
<1>3. /\ pc[w] = "scan" /\ f.todo = NULL /\ f.i < f.n
      /\ UNCHANGED <<mvars, avars, nvars, pc, lvars>>
  BY <1>1 DEF Scan
<1>4. /\ stack'[w] = <<g>> \o Tail(stack[w]) /\ key' = key /\ mem' = mem /\ next' = next
      /\ pc' = pc /\ nentries' = nentries /\ size' = size /\ prev' = prev /\ cur' = cur
      /\ entries' = entries /\ arr' = arr /\ live' = live
  BY <1>0, <1>2, <1>3 DEF IInv, TypeOK, nvars, lvars, mvars, avars
<1>5. /\ Refilling(w) /\ Putting(w) /\ f.n \in Nat /\ f.n > 0 /\ f.i \in Nat /\ Len(stack[w]) = 1
      /\ f.old \in Array
  BY <1>1, <1>3, BottomFrame, Depth DEF Refilling, Rehashing, TInv, Phase
<1>6. /\ f.old \in live /\ DOMAIN arr[f.old] = 0..(f.n - 1)
      /\ Listed(arr[f.old][f.i], OldBucket(w, f.i), next, key)
  <2>1. f.old \in live /\ DOMAIN arr[f.old] = 0..(f.n - 1)
    BY <1>1, <1>5 DEF TInv, Memory
  <2>2. \A j \in f.i..(f.n - 1) : Listed(arr[f.old][j], OldBucket(w, j), next, key)
    BY <1>1, <1>5 DEF TInv, Shape
  <2> QED BY <1>3, <1>5, <2>1, <2>2
<1>7. p = arr[f.old][f.i] /\ p \in OldBucket(w, f.i) \cup {NULL}
  <2>1. arr[f.old][f.i] \in OldBucket(w, f.i) \cup {NULL}
    BY <1>6, ListedIn
  <2>2. arr[f.old][f.i] # Junk
    BY <2>1, NullAssumption DEF OldBucket, Left, Stored, InUse
  <2> QED BY <1>3, <1>5, <1>6, <2>1, <2>2 DEF Load
<1>8. p \in Entry \cup {NULL}
  BY <1>7 DEF OldBucket, Left, Stored, InUse
<1>9. /\ g \in FrameDom /\ g.entry = f.entry /\ g.old = f.old /\ g.n = f.n /\ g.i = f.i + 1
      /\ g.todo = p
  BY <1>5, <1>8 DEF Activation, FrameDom, PtrDom
<1> HIDE DEF g
<1>10. /\ Len(stack'[w]) = 1 /\ stack'[w] # << >> /\ stack'[w][1] = g /\ Head(stack'[w]) = g
       /\ Len(stack'[w]) # 2
  <2>1. stack[w] \in Seq(FrameDom) /\ stack[w] # << >>
    BY <1>0, <1>5, TopFrame
  <2>2. stack'[w] \in Seq(FrameDom) /\ stack'[w] # << >> /\ Len(stack'[w]) = Len(stack[w]) /\ stack'[w][1] = g
    BY <1>4, <1>9, <2>1, TopSeq
  <2>3. Head(stack'[w]) = g
    BY <2>2, TailSeq
  <2>4. 1 # 2
    OBVIOUS
  <2> QED BY <1>5, <2>2, <2>3, <2>4, Zenon
<1>11. /\ Putting(w)' /\ Ins(w)' = f.entry /\ Outer(w)' = f.entry /\ Bottom(w)' = g
       /\ Outer(w) = f.entry /\ Ins(w) = f.entry
  <2>1. Outer(w) = f.entry /\ Ins(w) = f.entry
    BY <1>1, <1>5 DEF Outer, Ins, Bottom
  <2> QED BY <1>9, <1>10, <2>1 DEF Putting, Ins, Outer, Bottom
<1>12. InUse' = InUse /\ (\A e, n : Slot(e, n)' = Slot(e, n)) /\ \A e, h : Behind(e, h)' = Behind(e, h)
  BY <1>4 DEF InUse, Slot, Behind
<1>13. Pending(w) /\ Pending(w)' /\ Refilling(w)'
  BY <1>3, <1>4, <1>5, <1>11 DEF Pending, Refilling
<1>14. Stored' = Stored
  <2>1. Stored = InUse \ {Outer(w)}
    BY <1>13, StoredIs
  <2>2. Stored' = InUse' \ {Outer(w)'}
    BY <1>13, StoredIs
  <2> QED BY <1>11, <1>12, <2>1, <2>2
<1>15. ASSUME NEW e \in Stored PROVE Behind(e, g) <=> Behind(e, f)
  <2>1. Slot(e, f.n) \in 0..(f.n - 1) /\ key[e] \in Nat
    BY <1>5, KeysOf, SlotIs
  <2>2. ~(f.todo \in Entry)
    BY <1>3, NullAssumption
  <2>3. CASE Slot(e, f.n) = f.i
    <3>1. e \in OldBucket(w, f.i)
      BY <1>1, <1>5, <2>1, <2>3 DEF OldBucket, Left, Behind
    <3>2. p \in OldBucket(w, f.i) /\ key[p] <= key[e]
      BY <1>6, <1>7, <3>1 DEF Listed, First
    <3>3. p \in Entry
      BY <3>2 DEF OldBucket, Left, Stored, InUse
    <3> QED BY <1>5, <1>9, <2>1, <2>3, <3>2, <3>3 DEF Behind
  <2>4. CASE Slot(e, f.n) # f.i
    BY <1>5, <1>9, <2>1, <2>2, <2>4 DEF Behind
  <2> QED BY <2>3, <2>4
<1>16. Left(w)' = Left(w)
  <2>1. Left(w) = {e \in Stored : Behind(e, f)}
    BY <1>1, <1>5 DEF Left
  <2>2. Left(w)' = {e \in Stored : Behind(e, g)}
    BY <1>11, <1>12, <1>13, <1>14 DEF Left
  <2> QED BY <1>15, <2>1, <2>2
<1>17. Moving(w) = {} /\ Moving(w)' = {} /\ Uncounted(w) = {} /\ Uncounted(w)' = {}
  <2>1. Moving(w)' = {}
    BY <1>10 DEF Moving
  <2>2. Moving(w) = {}
    BY <1>5 DEF Moving
  <2> QED BY <1>3, <1>4, <2>1, <2>2 DEF Uncounted, Hanging
<1>18. Hung(w)' = Hung(w)
  BY <1>14, <1>16, <1>17 DEF Hung
<1>19. \A j : OldBucket(w, j)' = OldBucket(w, j)
  <2>1. Bottom(w)'.n = Bottom(w).n
    BY <1>1, <1>9, <1>11
  <2> QED BY <1>12, <1>16, <2>1 DEF OldBucket
<1>20. Reach(w)'
  BY <1>1, <1>4, <1>5, <1>10, <1>11, <1>12, <1>14 DEF TInv, Reach
<1>21. Phase(w)'
  <2>1. Pending(w)' => next'[Outer(w)'] = NULL
    BY <1>4, <1>11, <1>13 DEF TInv, Phase
  <2>2. \A n : n = 1 => n <= 2
    OBVIOUS
  <2> QED BY <1>3, <1>4, <1>10, <1>11, <2>1, <2>2 DEF Phase
<1>22. Memory(w)'
  BY <1>1, <1>3, <1>4, <1>5, <1>9, <1>11, <1>13 DEF TInv, Memory
<1>23. Shape(w)'
  <2>1. Links(w)' = Links(w) /\ \A j : Bucket(w, j)' = Bucket(w, j)
    BY <1>3, <1>4, <1>12, <1>18 DEF Links, Bucket
  <2>2. \A j \in g.i..(g.n - 1) : Listed(arr[g.old][j], OldBucket(w, j), next, key)
    <3>1. \A j \in f.i..(f.n - 1) : Listed(arr[f.old][j], OldBucket(w, j), next, key)
      BY <1>1, <1>5 DEF TInv, Shape
    <3>2. \A j \in g.i..(g.n - 1) : j \in f.i..(f.n - 1)
      BY <1>5, <1>9
    <3> QED BY <1>9, <3>1, <3>2
  <2>3. g.i # 0 /\ g.i - 1 = f.i
    BY <1>5, <1>9
  <2>4. Listed(g.todo, OldBucket(w, g.i - 1), next, key)
    BY <1>6, <1>7, <1>9, <2>3
  <2>5. OldBucket(w, Bottom(w).i - 1)' = OldBucket(w, g.i - 1)
    <3>1. \A j : j = g.i - 1 => OldBucket(w, j)' = OldBucket(w, g.i - 1)
      BY <1>19
    <3> QED BY <1>11, <1>12, <1>16, <1>9, <1>1 DEF OldBucket
  <2>6. \A j \in 0..(size - 1) : Listed(arr[entries][j], Bucket(w, j), Links(w), key)
    BY <1>3 DEF TInv, Shape
  <2> QED BY <1>4, <1>11, <1>14, <1>19, <2>1, <2>2, <2>4, <2>5, <2>6 DEF TInv, Shape
<1>24. Place(w)'
  BY <1>3, <1>4 DEF Place
<1>25. Counting(w)'
  BY <1>1, <1>4, <1>9, <1>11, <1>12, <1>13, <1>14, <1>17, <1>18, <1>5 DEF TInv, Counting
<1> QED BY <1>14, <1>20, <1>21, <1>22, <1>23, <1>24, <1>25 DEF TInv

(* Taking the first entry of what is left of the old bucket.               *)
LEMMA MoveAt ==
  ASSUME NEW w, Writer = {w}, IInv, TInv(w), Move(w)
  PROVE  LET f == Bottom(w)  e == f.todo IN
         /\ Putting(w) /\ Refilling(w) /\ Len(stack[w]) = 1 /\ Head(stack[w]) = f
         /\ f \in FrameDom /\ Rehashing(f) /\ f.i \in Nat /\ f.i # 0 /\ f.n \in Nat /\ f.n > 0
         /\ e \in OldBucket(w, f.i - 1) /\ e \in Entry /\ key[e] \in Nat
         /\ Slot(e, f.n) = f.i - 1
         /\ OldBucket(w, f.i - 1) \ {e} = {d \in OldBucket(w, f.i - 1) : key[e] < key[d]}
         /\ Listed(next[e], OldBucket(w, f.i - 1) \ {e}, next, key)
<1> DEFINE f == Bottom(w)
           e == f.todo
           S == OldBucket(w, f.i - 1)
<1>0. w \in Thread
  BY ThreadAssumption
<1>1. pc[w] = "scan" /\ Usable(Head(stack[w]).todo)
  BY DEF Move
<1>2. /\ Refilling(w) /\ Putting(w) /\ f.n \in Nat /\ f.n > 0 /\ f.i \in Nat /\ Len(stack[w]) = 1
      /\ f \in FrameDom /\ Rehashing(f)
  BY <1>1, BottomFrame, Depth DEF Refilling, Rehashing, TInv, Phase
<1>3. Head(stack[w]) = f
  BY <1>0, <1>2, TopFrame DEF Bottom
<1>4. e \in Entry /\ e # NULL
  BY <1>1, <1>3, NullAssumption DEF Usable
<1>5. f.i # 0
  BY <1>2, <1>4 DEF TInv, Memory
<1>6. Listed(e, S, next, key)
  BY <1>2, <1>5 DEF TInv, Shape
<1>7. S \subseteq Stored
  BY DEF OldBucket, Left
<1>8. Distinct(S, key) /\ Numbered(S, key)
  BY <1>7, KeysOf DEF TInv, Shape, Distinct, Numbered
<1> HIDE DEF S, f, e
<1>9. e \in S /\ S \ {e} = {d \in S : key[e] < key[d]} /\ Listed(next[e], S \ {e}, next, key)
  BY <1>4, <1>6, <1>8, ListedRest
<1>10. key[e] \in Nat /\ Slot(e, f.n) = f.i - 1
  BY <1>8, <1>9 DEF Numbered, S, OldBucket, f
<1> QED BY <1>2, <1>3, <1>4, <1>5, <1>9, <1>10 DEF S, f, e

(* The entry leaves what is left of the old bucket and is put again.       *)
LEMMA MoveTable ==
  ASSUME NEW w, Writer = {w}, IInv, TInv(w), Move(w)
  PROVE  TInv(w)' /\ Stored \subseteq Stored'
<1>0. w \in Thread
  BY ThreadAssumption
<1>1. PICK f : f = Bottom(w)
  OBVIOUS
<1>2. PICK e : e = f.todo
  OBVIOUS
<1>3. PICK r : r = next[e]
  OBVIOUS
<1> DEFINE g == Activation(f.entry, f.old, f.n, f.i, r)
<1>4. /\ Putting(w) /\ Refilling(w) /\ Len(stack[w]) = 1 /\ Head(stack[w]) = f
      /\ f \in FrameDom /\ Rehashing(f) /\ f.i \in Nat /\ f.i # 0 /\ f.n \in Nat /\ f.n > 0
      /\ e \in OldBucket(w, f.i - 1) /\ e \in Entry /\ key[e] \in Nat
      /\ Slot(e, f.n) = f.i - 1
      /\ OldBucket(w, f.i - 1) \ {e} = {d \in OldBucket(w, f.i - 1) : key[e] < key[d]}
      /\ Listed(r, OldBucket(w, f.i - 1) \ {e}, next, key)
  BY <1>1, <1>2, <1>3, MoveAt
<1>5. /\ pc[w] = "scan" /\ pc' = [pc EXCEPT ![w] = "check"]
      /\ next' = [next EXCEPT ![e] = NULL]
      /\ stack' = [stack EXCEPT ![w] = <<Frame(e), g>> \o Tail(@)]
      /\ UNCHANGED <<mvars, avars, key, value, mem, lvars>>
  BY <1>2, <1>3, <1>4 DEF Move, Goto, Temp, Detached
<1>6. /\ stack'[w] = <<Frame(e), g>> \o Tail(stack[w]) /\ key' = key /\ mem' = mem
      /\ pc'[w] = "check" /\ nentries' = nentries /\ size' = size /\ prev' = prev /\ cur' = cur
      /\ entries' = entries /\ arr' = arr /\ live' = live
      /\ next'[e] = NULL /\ \A d \in Entry : d # e => next'[d] = next[d]
  BY <1>0, <1>4, <1>5 DEF IInv, TypeOK, lvars, mvars, avars
<1>7. r \in Entry \cup {NULL}
  BY <1>3, <1>4 DEF IInv, TypeOK, EntryOrNull
<1>8. /\ g \in FrameDom /\ g.entry = f.entry /\ g.old = f.old /\ g.n = f.n /\ g.i = f.i
      /\ g.todo = r
  BY <1>4, <1>7 DEF Activation, FrameDom, PtrDom
<1>9. Frame(e) \in FrameDom /\ Frame(e).entry = e
  BY <1>4 DEF Frame, Activation, FrameDom, PtrDom
<1> HIDE DEF g
<1>10. /\ Len(stack'[w]) = 2 /\ stack'[w] # << >> /\ stack'[w][2] = g /\ Head(stack'[w]) = Frame(e)
       /\ Len(stack'[w]) # 1
  <2>1. stack[w] \in Seq(FrameDom) /\ stack[w] # << >>
    BY <1>0, <1>4, TopFrame
  <2> DEFINE s == <<g>> \o Tail(stack[w])
  <2>2. s \in Seq(FrameDom) /\ Len(s) = 1 /\ s[1] = g
    BY <1>4, <1>8, <2>1, TopSeq
  <2>3. Tail(stack[w]) \in Seq(FrameDom)
    BY <2>1, TailSeq
  <2>4. stack'[w] = <<Frame(e)>> \o s
    BY <1>6, <1>8, <1>9, <2>3, PushTwo
  <2> HIDE DEF s
  <2>5. /\ stack'[w] \in Seq(FrameDom) /\ Len(stack'[w]) = Len(s) + 1 /\ stack'[w][1] = Frame(e)
        /\ stack'[w] # << >>
        /\ \A n \in 2..Len(s) + 1 : stack'[w][n] = s[n-1]
    BY <1>9, <2>2, <2>4, PushSeq
  <2>6. 2 \in 2..(1 + 1) /\ 1 + 1 = 2 /\ 2 - 1 = 1 /\ 2 # 1
    OBVIOUS
  <2>7. stack'[w][2] = g
    BY <2>2, <2>5, <2>6
  <2>8. Head(stack'[w]) = Frame(e)
    BY <2>5, TailSeq
  <2>9. Len(stack'[w]) = 2
    BY <2>2, <2>5, <2>6, Zenon
  <2> QED BY <2>5, <2>6, <2>7, <2>8, <2>9, Zenon
<1>11. /\ Putting(w)' /\ Ins(w)' = e /\ Outer(w)' = f.entry /\ Bottom(w)' = g
       /\ Outer(w) = f.entry
  <2>1. Outer(w) = f.entry
    BY <1>1 DEF Outer, Bottom
  <2> QED BY <1>8, <1>9, <1>10, <2>1 DEF Putting, Ins, Outer, Bottom
<1>12. InUse' = InUse /\ (\A d, n : Slot(d, n)' = Slot(d, n)) /\ \A d, h : Behind(d, h)' = Behind(d, h)
  BY <1>6 DEF InUse, Slot, Behind
<1>13. Pending(w) /\ Pending(w)' /\ Refilling(w)'
  BY <1>4, <1>5, <1>10, <1>11 DEF Pending, Refilling
<1>14. Stored' = Stored
  <2>1. Stored = InUse \ {Outer(w)}
    BY <1>13, StoredIs
  <2>2. Stored' = InUse' \ {Outer(w)'}
    BY <1>13, StoredIs
  <2> QED BY <1>11, <1>12, <2>1, <2>2
<1>15. Left(w) = {d \in Stored : Behind(d, f)} /\ Left(w)' = {d \in Stored : Behind(d, g)}
  <2>1. Left(w) = {d \in Stored : Behind(d, f)}
    BY <1>1, <1>4 DEF Left
  <2>2. Left(w)' = {d \in Stored : Behind(d, g)}
    BY <1>11, <1>12, <1>13, <1>14 DEF Left
  <2> QED BY <2>1, <2>2
<1>16. \A d \in Stored : Slot(d, f.n) \in 0..(f.n - 1) /\ key[d] \in Nat /\ d \in Entry
  BY <1>4, KeysOf, SlotIs
<1>17. ASSUME NEW d \in Stored PROVE Behind(d, g) <=> Behind(d, f) /\ d # e
  <2>1. Behind(d, f) <=> f.i <= Slot(d, f.n) \/ (Slot(d, f.n) = f.i - 1 /\ key[e] <= key[d])
    BY <1>2, <1>4, <1>16 DEF Behind
  <2>2. Behind(d, g) <=> f.i <= Slot(d, f.n) \/ (Slot(d, f.n) = f.i - 1 /\ r \in Entry /\ key[r] <= key[d])
    BY <1>4, <1>8, <1>16 DEF Behind
  <2>3. d = e => ~(f.i <= Slot(d, f.n))
    BY <1>4
  <2>4. CASE Slot(d, f.n) = f.i - 1
    <3> DEFINE S == OldBucket(w, f.i - 1)
    <3>1. r \in Entry => r \in S /\ key[e] < key[r] /\ key[r] \in Nat
      <4>1. r \in Entry => r \in S \ {e}
        BY <1>4, NullAssumption, ListedIn
      <4>2. S \subseteq Stored
        BY DEF OldBucket, Left
      <4> HIDE DEF S
      <4>3. S \ {e} = {h \in S : key[e] < key[h]}
        BY <1>4 DEF S
      <4> QED BY <1>16, <4>1, <4>2, <4>3
    <3>2. ASSUME d # e, key[e] <= key[d] PROVE r \in Entry /\ key[r] <= key[d]
      <4>1. d \in S \ {e}
        BY <1>1, <1>15, <2>1, <2>4, <3>2 DEF OldBucket
      <4> HIDE DEF S
      <4>2. r \in S \ {e} /\ key[r] <= key[d]
        BY <1>4, <4>1 DEF Listed, First, S
      <4>3. S \subseteq Entry
        BY DEF S, OldBucket, Left, Stored, InUse
      <4> QED BY <4>2, <4>3
    <3>3. ASSUME r \in Entry, key[r] <= key[d] PROVE key[e] <= key[d] /\ d # e
      BY <1>4, <1>16, <3>1, <3>3
    <3> HIDE DEF S
    <3>4. ~(f.i <= Slot(d, f.n))
      BY <1>4, <2>4
    <3> QED BY <2>1, <2>2, <2>4, <3>2, <3>3, <3>4
  <2>5. CASE Slot(d, f.n) # f.i - 1
    BY <1>4, <2>1, <2>2, <2>5
  <2> QED BY <2>4, <2>5
<1>18. Left(w)' = Left(w) \ {e} /\ e \in Left(w) /\ e \in Stored
  <2>1. e \in Left(w)
    BY <1>4 DEF OldBucket
  <2> QED BY <1>15, <1>17, <2>1
<1>19. Moving(w) = {} /\ Moving(w)' = {e} /\ Uncounted(w) = {} /\ Uncounted(w)' = {}
  <2>1. Moving(w)' = {e}
    BY <1>6, <1>10, <1>11 DEF Moving, Hanging
  <2>2. Moving(w) = {}
    BY <1>4 DEF Moving
  <2> QED BY <1>5, <1>6, <2>1, <2>2 DEF Uncounted, Hanging
<1>20. Hung(w)' = Hung(w) /\ e \notin Hung(w)
  BY <1>14, <1>18, <1>19 DEF Hung
<1>21. \A j : OldBucket(w, j)' = OldBucket(w, j) \ {e}
  <2>1. Bottom(w)'.n = Bottom(w).n
    BY <1>1, <1>8, <1>11
  <2> QED BY <1>12, <1>18, <2>1 DEF OldBucket
<1>22. Reach(w)'
  <2>1. \A d \in InUse' : next'[d] \in Stored' \cup {NULL}
    <3>1. \A d \in InUse : d \in Entry /\ next[d] \in Stored \cup {NULL}
      BY DEF TInv, Reach, InUse
    <3> QED BY <1>6, <1>12, <1>14, <3>1
  <2> QED BY <1>4, <1>6, <1>11, <1>12, <1>14, <1>18, <2>1 DEF TInv, Reach
<1>23. Phase(w)'
  <2>1. next'[Outer(w)'] = NULL
    <3>1. next[Outer(w)] = NULL /\ Outer(w) \in Entry
      BY <1>4, <1>13 DEF TInv, Phase, Reach, InUse
    <3> QED BY <1>6, <1>11, <3>1
  <2>2. \A n : n = 2 => n <= 2
    OBVIOUS
  <2>3. ~Behind(e, g)
    BY <1>17, <1>18
  <2>4. ~Behind(Ins(w), Bottom(w))'
    <3>1. Behind(Ins(w), Bottom(w))' <=> Behind(e, g)
      BY <1>6, <1>11 DEF Behind, Slot
    <3> QED BY <2>3, <3>1
  <2> QED BY <1>6, <1>10, <1>11, <2>1, <2>2, <2>4 DEF Phase
<1>24. Memory(w)'
  BY <1>1, <1>4, <1>5, <1>6, <1>8, <1>11, <1>13 DEF TInv, Memory
<1>25. Shape(w)'
  <2>1. \A j \in 0..(size - 1) : Listed(arr[entries][j], Bucket(w, j)', Links(w)', key)
    <3> DEFINE nx == Links(w)'
    <3>1. \A j : Bucket(w, j)' = Bucket(w, j)
      BY <1>6, <1>12, <1>20 DEF Bucket
    <3>2. \A j \in 0..(size - 1) : Listed(arr[entries][j], Bucket(w, j), Links(w), key)
      BY <1>5 DEF TInv, Shape
    <3>3. \A j : \A d \in Bucket(w, j) : nx[d] = Links(w)[d]
      <4>1. \A j : \A d \in Bucket(w, j) : d \in Entry /\ d # e
        BY <1>20 DEF Bucket, Hung, Stored, InUse
      <4> QED BY <1>5, <1>6, <4>1 DEF Links
    <3> HIDE DEF nx
    <3>4. \A j \in 0..(size - 1) : Listed(arr[entries][j], Bucket(w, j), nx, key)
      BY <3>2, <3>3, ListedSame
    <3> QED BY <3>1, <3>4 DEF nx
  <2>2. ASSUME NEW p, NEW S, S \subseteq Stored, e \notin S, Listed(p, S, next, key)
        PROVE  Listed(p, S, next', key)
    <3>1. \A d \in S : next'[d] = next[d]
      BY <1>6, <1>16, <2>2
    <3> QED BY <2>2, <3>1, ListedSame
  <2>3. \A j : OldBucket(w, j) \subseteq Stored
    BY DEF OldBucket, Left
  <2>4. \A j \in f.i..(f.n - 1) : Listed(arr[f.old][j], OldBucket(w, j) \ {e}, next', key)
    <3>1. \A j \in f.i..(f.n - 1) : Listed(arr[f.old][j], OldBucket(w, j), next, key)
      BY <1>1, <1>4 DEF TInv, Shape
    <3>2. \A j \in f.i..(f.n - 1) : e \notin OldBucket(w, j) /\ OldBucket(w, j) \ {e} = OldBucket(w, j)
      <4>1. \A j \in f.i..(f.n - 1) : Slot(e, f.n) # j
        BY <1>4
      <4> QED BY <1>1, <4>1 DEF OldBucket
    <3> QED BY <2>2, <2>3, <3>1, <3>2
  <2>5. Listed(r, OldBucket(w, f.i - 1) \ {e}, next', key)
    <3> DEFINE S == OldBucket(w, f.i - 1) \ {e}
    <3>1. S \subseteq Stored /\ e \notin S /\ Listed(r, S, next, key)
      BY <1>4, <2>3
    <3> HIDE DEF S
    <3>2. Listed(r, S, next', key)
      BY <2>2, <3>1
    <3> QED BY <3>2 DEF S
  <2>6. OldBucket(w, Bottom(w).i - 1)' = OldBucket(w, f.i - 1) \ {e}
    BY <1>1, <1>8, <1>11, <1>12, <1>18 DEF OldBucket
  <2> QED BY <1>6, <1>8, <1>11, <1>14, <1>21, <2>1, <2>4, <2>5, <2>6 DEF TInv, Shape
<1>26. Place(w)'
  BY <1>6 DEF Place
<1>27. Counting(w)'
  BY <1>1, <1>4, <1>6, <1>8, <1>11, <1>12, <1>13, <1>14, <1>19, <1>20 DEF TInv, Counting
<1> QED BY <1>14, <1>22, <1>23, <1>24, <1>25, <1>26, <1>27 DEF TInv
-----------------------------------------------------------------------------
(* The empty table.                                                        *)
LEMMA InitTable ==
  ASSUME NEW w, Writer = {w}, Init
  PROVE  TInv(w)
<1>0. w \in Thread
  BY ThreadAssumption
<1>1. PICK a0 \in Array : /\ entries = a0 /\ live = {a0}
          /\ arr = [a \in Array |-> IF a = a0 THEN [i \in 0..(InitialSize-1) |-> NULL]
                                             ELSE [i \in {} |-> NULL]]
  BY HeapAssumption DEF Init
<1>2. /\ stack[w] = << >> /\ pc[w] = "idle" /\ nentries = 0 /\ size = InitialSize /\ prev[w] = NULL
      /\ \A t \in Thread : cur[t] = NULL
  BY <1>0 DEF Init
<1>3. Len(stack[w]) = 0 /\ Len(stack[w]) # 1 /\ Len(stack[w]) # 2 /\ Len(stack[w]) <= 2
  <2>1. Len(<< >>) = 0 /\ Len(<< >>) # 1 /\ Len(<< >>) # 2 /\ Len(<< >>) <= 2
    OBVIOUS
  <2> QED BY <1>2, <2>1, Zenon
<1>4. ~Putting(w) /\ ~Pending(w) /\ ~Refilling(w) /\ InUse = {} /\ Stored = {}
  <2>1. ~Putting(w) /\ ~Pending(w)
    BY <1>2 DEF Putting, Pending
  <2>2. ~Refilling(w)
    BY <1>2, <1>3 DEF Refilling
  <2>3. InUse = {}
    BY DEF InUse, Init
  <2> QED BY <2>1, <2>2, <2>3 DEF Stored
<1>5. Left(w) = {} /\ Hung(w) = {} /\ Uncounted(w) = {}
  BY <1>2, <1>4 DEF Left, Hung, Uncounted, Hanging
<1>6. Reach(w)
  BY <1>1, <1>2, <1>3, <1>4, NullAssumption DEF Reach
<1>7. Phase(w)
  BY <1>2, <1>3, <1>4 DEF Phase
<1>8. Memory(w)
  BY <1>1, <1>2, <1>4 DEF Memory
<1>9. Shape(w)
  <2>1. \A j : Bucket(w, j) = {}
    BY <1>5 DEF Bucket
  <2>2. \A j \in 0..(size - 1) : arr[entries][j] = NULL
    BY <1>1, <1>2
  <2> QED BY <1>4, <2>1, <2>2, ListedEmpty DEF Shape, Distinct
<1>10. Place(w)
  BY <1>4 DEF Place
<1>11. Counting(w)
  <2>1. \A n \in Nat : 0 <= n \div 2
    OBVIOUS
  <2>2. Cardinality(Stored) <= size \div 2
    BY <1>2, <1>4, <2>1, FS_EmptySet, SizeAssumption
  <2>3. Hung(w) \ Uncounted(w) = {}
    BY <1>5
  <2> QED BY <1>2, <1>4, <2>2, <2>3, FS_EmptySet DEF Counting
<1> QED BY <1>6, <1>7, <1>8, <1>9, <1>10, <1>11 DEF TInv

(* Where a get of the writer stands: nothing moves meanwhile.              *)
Looking(w) ==
  ~Putting(w) =>
    /\ pc[w] \in {"base", "head", "walk"} => idx[w] \in 0..(size - 1)
    /\ pc[w] = "head" => base[w] = entries
    /\ pc[w] = "walk" => cur[w] \in Stored \cup {NULL}

TableInv(w) == IInv /\ TInv(w) /\ Looking(w) /\ Asked(w)

(* What was asked and saved stays so: nobody else changes the table.       *)
LEMMA AskedKept ==
  ASSUME NEW w, Writer = {w}, IInv, Asked(w), Next
  PROVE  Asked(w)'
<1>0. w \in Thread
  BY ThreadAssumption
<1>1. ASSUME NEW k \in Key, NEW v \in Value, Put(w, k, v) PROVE Asked(w)'
  <2>1. pc'[w] = "check"
    BY <1>0, <1>1 DEF Put, Goto, IInv, TypeOK
  <2> QED BY <2>1 DEF Asked
<1>2. ASSUME NEW t \in Thread,
             \/ \E k \in Key : Get(t, k)
             \/ Index(t) \/ Base(t) \/ HeadOf(t) \/ Advance(t) \/ Answer(t) \/ Fault(t)
      PROVE  Asked(w)'
  <2>1. ask' = ask /\ saved' = saved /\ size' = size /\ entries' = entries /\ stack' = stack
    BY <1>2 DEF Get, Index, Base, HeadOf, Advance, Answer, Fault, gvars, mvars
  <2>2. pc'[w] = pc[w] \/ pc'[w] \in {"index", "base", "head", "walk", "idle"}
    BY <1>0, <1>2 DEF Get, Index, Base, HeadOf, Advance, Answer, Fault, Goto, IInv, TypeOK
  <2> QED BY <2>1, <2>2 DEF Asked
<1>3. CASE Check(w)
  <2>1. /\ pc'[w] = (IF Full THEN "save" ELSE "index") /\ (Full => ask'[w] = 2 * size)
        /\ size' = size
    BY <1>0, <1>3 DEF Check, Goto, mvars, IInv, TypeOK
  <2> QED BY <2>1 DEF Asked
<1>4. CASE Save(w)
  <2>1. /\ pc[w] = "save" /\ pc'[w] = "grow" /\ saved'[w] = entries /\ ask' = ask
        /\ size' = size /\ entries' = entries
    BY <1>0, <1>4 DEF Save, Goto, mvars, IInv, TypeOK
  <2> QED BY <2>1 DEF Asked
<1>5. CASE Grow(w)
  <2> DEFINE g == Activation(Ins(w), saved[w], size, 0, NULL)
  <2>1. /\ pc[w] = "grow" /\ pc'[w] = "resize" /\ ask' = ask
        /\ stack'[w] = <<g>> \o Tail(stack[w])
    BY <1>0, <1>5 DEF Grow, SetTop, Goto, IInv, TypeOK
  <2>2. g.n = size
    BY DEF Activation
  <2>3. stack[w] \in Seq(FrameDom) /\ stack[w] # << >>
    BY <1>0, <2>1, TopFrame DEF IInv, Placed
  <2>4. Head(stack'[w]) = g
    <3>1. Tail(stack[w]) \in Seq(FrameDom)
      BY <2>3
    <3>2. ASSUME NEW f, NEW r \in Seq(FrameDom) PROVE Head(<<f>> \o r) = f
      OBVIOUS
    <3> HIDE DEF g
    <3> QED BY <2>1, <3>1, <3>2
  <2> HIDE DEF g
  <2> QED BY <2>1, <2>2, <2>4 DEF Asked
<1>6. CASE Resize(w)
  <2>1. pc[w] = "resize" /\ pc'[w] = "alloc" /\ ask' = ask /\ stack' = stack
    BY <1>0, <1>6 DEF Resize, Goto, gvars, IInv, TypeOK
  <2> QED BY <2>1 DEF Asked
<1>7. CASE \/ Publish(w) \/ Link(w) \/ Count(w) \/ Replace(w)
           \/ Alloc(w) \/ Zero(w) \/ Scan(w) \/ Move(w) \/ FreeOld(w)
  <2>1. pc'[w] \notin {"save", "grow", "resize", "alloc"}
    BY <1>0, <1>7 DEF Publish, Link, Count, Replace, Return, Alloc, Zero, Scan, Move, FreeOld, Goto,
       IInv, TypeOK
  <2> QED BY <2>1 DEF Asked
<1> QED BY <1>1, <1>2, <1>3, <1>4, <1>5, <1>6, <1>7 DEF Next, Step, PutStep

LEMMA AskedStays ==
  ASSUME NEW w, Asked(w), UNCHANGED vars
  PROVE  Asked(w)'
BY DEF Asked, vars, gvars, mvars

(* The steps of another thread, or of a put, do not touch that.            *)
LEMMA ElsewhereLooking ==
  ASSUME NEW w, Writer = {w}, IInv, TInv(w), Looking(w), UNCHANGED <<mvars, avars, nvars, stack>>,
         pc'[w] = pc[w], idx'[w] = idx[w], base'[w] = base[w], cur'[w] = cur[w]
  PROVE  Looking(w)'
<1>1. Loading(w)
  BY DEF Loading
<1>2. Stored' = Stored /\ Putting(w)' = Putting(w) /\ size' = size /\ entries' = entries
  BY <1>1, LoadingSets DEF mvars
<1> QED BY <1>2 DEF Looking

(* A step of a put leaves no get of the same thread in progress.           *)
LEMMA PutLooking ==
  ASSUME NEW w, Writer = {w}, IInv, TInv(w), PutStep(w)
  PROVE  Looking(w)'
<1>0. w \in Thread
  BY ThreadAssumption
<1>1. CASE Count(w) \/ Replace(w)
  <2>1. /\ Putting(w) /\ stack' = [stack EXCEPT ![w] = Tail(@)]
        /\ pc' = [pc EXCEPT ![w] = IF Len(stack[w]) = 1 THEN "idle" ELSE "scan"]
    BY <1>0, <1>1 DEF Count, Replace, Return, Goto, IInv, Placed
  <2>2. stack'[w] = Tail(stack[w]) /\ pc'[w] = IF Len(stack[w]) = 1 THEN "idle" ELSE "scan"
    BY <1>0, <2>1 DEF IInv, TypeOK
  <2> QED BY <2>1, <2>2, Popped DEF Looking
<1>2. CASE Publish(w) \/ Link(w) \/ Check(w) \/ Save(w) \/ Resize(w) \/ Alloc(w) \/ Zero(w)
           \/ FreeOld(w)
  <2>1. stack' = stack /\ Putting(w)
    BY <1>0, <1>2 DEF Publish, Link, Check, Save, Resize, Alloc, Zero, FreeOld, IInv, Placed
  <2> QED BY <2>1 DEF Looking, Putting
<1>3. CASE Grow(w) \/ Scan(w) \/ Move(w)
  <2>1. PICK s : s # << >> /\ stack' = [stack EXCEPT ![w] = s]
    <3>1. Putting(w)
      BY <1>0, <1>3 DEF Grow, Scan, Move, IInv, Placed
    <3>2. stack[w] \in Seq(FrameDom) /\ stack[w] # << >>
      BY <1>0, <3>1, TopFrame
    <3>3. \A f : <<f>> \o Tail(stack[w]) # << >>
      BY <3>2
    <3>4. \A f, g : <<f, g>> \o Tail(stack[w]) # << >>
      BY <3>2
    <3> QED BY <1>3, <3>3, <3>4 DEF Grow, Scan, Move, SetTop
  <2>2. stack'[w] # << >>
    BY <1>0, <2>1 DEF IInv, TypeOK
  <2> QED BY <2>2 DEF Looking, Putting
<1> QED BY <1>1, <1>2, <1>3 DEF PutStep

(* The loads of the writer's own get.                                      *)
LEMMA GetLooking ==
  ASSUME NEW w, Writer = {w}, IInv, TInv(w), Looking(w), NEW t \in Thread,
         (\E k \in Key : Get(t, k)) \/ Index(t) \/ Base(t) \/ HeadOf(t) \/ Advance(t) \/ Answer(t) \/ Fault(t)
  PROVE  Looking(w)'
<1>0. w \in Thread
  BY ThreadAssumption
<1>1. UNCHANGED <<mvars, avars, nvars, stack>>
  BY DEF Get, Index, Base, HeadOf, Advance, Answer, Fault
<1>2. CASE t # w
  <2>1. pc'[w] = pc[w] /\ idx'[w] = idx[w] /\ base'[w] = base[w] /\ cur'[w] = cur[w]
    BY <1>0, <1>2 DEF Get, Index, Base, HeadOf, Advance, Answer, Fault, Forget, Goto, lvars,
         IInv, TypeOK
  <2> QED BY <1>1, <2>1, ElsewhereLooking
<1>3. CASE t = w /\ Fault(t)
  BY <1>1, <1>3, ElsewhereLooking DEF Fault, lvars
<1>4. CASE t = w /\ ~Fault(t)
  <2>1. CASE Putting(w)
    BY <1>1, <2>1 DEF Looking, Putting
  <2>2. CASE ~Putting(w)
    <3>1. /\ ~Putting(w)' /\ Stored' = Stored /\ entries' = entries /\ size' = size
          /\ entries \in Array /\ size \in Nat \ {0}
      <4>1. pc[w] \in Finding /\ pc'[w] \in Finding
        BY <1>0, <1>4, <2>2 DEF Get, Index, Base, HeadOf, Advance, Answer, Goto, Finding, IInv, TypeOK
      <4>2. Loading(w)
        BY <1>1, <2>2, <4>1 DEF Loading
      <4> QED BY <1>1, <2>2, <4>2, LoadingSets DEF mvars, IInv, TypeOK
    <3>2. CASE (\E k \in Key : Get(w, k)) \/ Answer(w)
      <4>1. pc'[w] \notin {"base", "head", "walk"}
        BY <1>0, <3>2 DEF Get, Answer, Goto, IInv, TypeOK
      <4> QED BY <4>1 DEF Looking
    <3>3. CASE Index(w)
      <4>1. want[w] \in Key
        BY <1>0, <2>2, <3>3 DEF Index, IInv, Placed
      <4>2. \A a \in Nat, b \in Nat \ {0} : a % b \in 0..(b - 1)
        OBVIOUS
      <4>3. Hash[Target(w)] % size \in 0..(size - 1)
        BY <2>2, <3>1, <4>1, <4>2, KeyAssumption DEF Target
      <4>4. pc'[w] = "base" /\ idx'[w] = Hash[Target(w)] % size
        BY <1>0, <3>3 DEF Index, Goto, IInv, TypeOK
      <4> QED BY <3>1, <4>3, <4>4 DEF Looking
    <3>4. CASE Base(w)
      <4>1. pc[w] = "base" /\ pc'[w] = "head" /\ base'[w] = entries /\ idx' = idx
        BY <1>0, <3>4 DEF Base, Goto, IInv, TypeOK
      <4> QED BY <2>2, <3>1, <4>1 DEF Looking
    <3>5. CASE HeadOf(w)
      <4>1. PICK p \in Load(base[w], idx[w]) :
              pc[w] = "head" /\ pc'[w] = "walk" /\ cur'[w] = p /\ idx' = idx
        BY <1>0, <3>5 DEF HeadOf, Goto, IInv, TypeOK
      <4>2. base[w] = entries /\ idx[w] \in 0..(size - 1)
        BY <2>2, <4>1 DEF Looking
      <4>3. entries \in live /\ DOMAIN arr[entries] = 0..(size - 1)
            /\ Listed(arr[entries][idx[w]], Bucket(w, idx[w]), Links(w), key)
        <5>1. Len(stack[w]) # 2
          <6>1. Len(stack[w]) = 0
            BY <2>2, Depth
          <6>2. 0 # 2
            OBVIOUS
          <6> QED BY <6>1, <6>2, Zenon
        <5>2. ~Refilling(w) /\ pc[w] \notin {"resize", "alloc", "zero"}
          BY <4>1, <5>1 DEF Refilling
        <5> QED BY <4>2, <5>2 DEF TInv, Memory, Shape
      <4>4. arr[entries][idx[w]] \in Stored \cup {NULL}
        BY <4>3, ListedIn DEF Bucket, Hung
      <4>5. arr[entries][idx[w]] # Junk
        BY <4>4, NullAssumption DEF Stored, InUse
      <4>6. p = arr[entries][idx[w]]
        BY <4>1, <4>2, <4>3, <4>5 DEF Load
      <4> QED BY <3>1, <4>1, <4>2, <4>4, <4>6 DEF Looking
    <3>6. CASE Advance(w)
      <4>1. /\ pc[w] = "walk" /\ pc'[w] = "walk" /\ cur'[w] = next[cur[w]] /\ cur[w] \in InUse /\ idx' = idx
        BY <1>0, <3>6 DEF Advance, Following, Usable, InUse, IInv, TypeOK
      <4>2. next[cur[w]] \in Stored \cup {NULL}
        BY <4>1 DEF TInv, Reach
      <4> QED BY <2>2, <3>1, <4>1, <4>2 DEF Looking
    <3> QED BY <1>4, <3>2, <3>3, <3>4, <3>5, <3>6
  <2> QED BY <2>1, <2>2
<1> QED BY <1>2, <1>3, <1>4

(* Every step, then.                                                       *)
LEMMA StepTable ==
  ASSUME NEW w, Writer = {w}, TableInv(w), Next
  PROVE  TableInv(w)'
<1> USE DEF TableInv
<1>0. IInv'
  BY StepInv
<1>1. ASSUME NEW k \in Key, NEW v \in Value, Put(w, k, v) PROVE TInv(w)' /\ Looking(w)'
  <2>1. stack'[w] = <<Frame(CHOOSE x \in Entry : mem[x] = "fresh")>>
    BY <1>1, ThreadAssumption DEF Put, IInv, TypeOK
  <2>2. Putting(w)'
    BY <2>1 DEF Putting
  <2> QED BY <1>1, <2>2, PutTable DEF Looking
<1>2. ASSUME NEW t \in Thread, NEW k \in Key, Get(t, k) PROVE TInv(w)' /\ Looking(w)'
  BY <1>2, GetTable, GetLooking
<1>3. ASSUME NEW t \in Thread,
             Index(t) \/ Base(t) \/ HeadOf(t) \/ Advance(t) \/ Answer(t) \/ Fault(t)
      PROVE  TInv(w)' /\ Looking(w)'
  BY <1>3, IndexTable, BaseTable, HeadOfTable, AdvanceTable, AnswerTable, FaultTable, GetLooking
<1>4. ASSUME PutStep(w) PROVE TInv(w)' /\ Looking(w)'
  BY <1>4, PublishTable, LinkTable, CountTable, ReplaceTable, CheckTable, SaveTable, GrowTable, ResizeTable,
     AllocTable, ZeroTable, ScanTable, MoveTable, FreeOldTable, PutLooking DEF PutStep
<1>5. Asked(w)'
  BY AskedKept
<1> QED BY <1>0, <1>1, <1>2, <1>3, <1>4, <1>5 DEF Next, Step

(* One thread puts, any number gets: the invariant of the whole table.     *)
THEOREM TableInvariance ==
  ASSUME NEW w, Writer = {w}
  PROVE  Spec => []TableInv(w)
<1>1. Init => TableInv(w)
  <2>1. ASSUME Init PROVE Looking(w) /\ Asked(w)
    BY <2>1, ThreadAssumption DEF Init, Looking, Asked
  <2> QED BY <2>1, InitInv, InitTable DEF TableInv
<1>2. TableInv(w) /\ [Next]_vars => TableInv(w)'
  <2>1. ASSUME TableInv(w), UNCHANGED vars PROVE TableInv(w)'
    <3>1. IInv' /\ TInv(w)'
      BY <2>1, StutterInv, StutterTable DEF TableInv
    <3>2. Looking(w)' /\ Asked(w)'
      BY <2>1, ElsewhereLooking, AskedStays DEF TableInv, vars, lvars
    <3> QED BY <3>1, <3>2 DEF TableInv
  <2> QED BY <2>1, StepTable
<1> QED BY <1>1, <1>2, PTL DEF Spec
(* The steps that load leave all that is said of the table as it is.       *)
LEMMA Loads ==
  ASSUME NEW w, Writer = {w}, IInv, TInv(w), NEW t \in Thread,
         (\E k \in Key : Get(t, k)) \/ Index(t) \/ Base(t) \/ HeadOf(t) \/ Advance(t) \/ Answer(t) \/ Fault(t)
  PROVE  Loading(w)
<1>0. w \in Thread
  BY ThreadAssumption
<1>1. UNCHANGED <<mvars, avars, nvars, stack>>
  BY DEF Get, Index, Base, HeadOf, Advance, Answer, Fault
<1>2. CASE t # w
  <2>1. pc'[w] = pc[w] /\ cur'[w] = cur[w]
    BY <1>0, <1>2 DEF Get, Index, Base, HeadOf, Advance, Answer, Fault, Forget, Goto, lvars,
         IInv, TypeOK
  <2> QED BY <1>1, <2>1 DEF Loading
<1>3. CASE t = w /\ Fault(t)
  BY <1>1, <1>3 DEF Loading, Fault, lvars
<1>4. CASE t = w /\ ((\E k \in Key : Get(t, k)) \/ Answer(t))
  <2>1. ~Putting(w)
    <3>1. CASE Answer(w)
      BY <3>1 DEF Answer
    <3>2. CASE pc[w] = "idle"
      BY <3>2, Depth DEF TInv, Phase
    <3> QED BY <1>4, <3>1, <3>2 DEF Get
  <2>2. pc[w] \in Finding /\ pc'[w] \in Finding
    BY <1>0, <1>4 DEF Get, Answer, Goto, Finding, IInv, TypeOK
  <2> QED BY <1>1, <2>1, <2>2 DEF Loading
<1>5. CASE t = w /\ (Index(t) \/ Base(t) \/ HeadOf(t) \/ Advance(t))
  <2>1. pc[w] \in Finding \ {"idle"} /\ pc'[w] \in Finding \ {"idle"}
    BY <1>0, <1>5 DEF Index, Base, HeadOf, Advance, Goto, Finding, IInv, TypeOK
  <2> QED BY <1>1, <2>1 DEF Loading
<1> QED BY <1>2, <1>3, <1>4, <1>5

(* What is stored stays stored: a put only adds to it, and a rehash keeps  *)
(* it all.                                                                 *)
LEMMA StoredGrows ==
  ASSUME NEW w, Writer = {w}, TableInv(w), Next
  PROVE  Stored \subseteq Stored'
<1> USE DEF TableInv
<1>1. ASSUME NEW k \in Key, NEW v \in Value, Put(w, k, v) PROVE Stored \subseteq Stored'
  BY <1>1, PutTable
<1>2. ASSUME NEW t \in Thread, NEW k \in Key, Get(t, k) PROVE Stored \subseteq Stored'
  BY <1>2, Loads, LoadingSets
<1>3. ASSUME NEW t \in Thread,
             Index(t) \/ Base(t) \/ HeadOf(t) \/ Advance(t) \/ Answer(t) \/ Fault(t)
      PROVE  Stored \subseteq Stored'
  BY <1>3, Loads, LoadingSets
<1>4. ASSUME PutStep(w) PROVE Stored \subseteq Stored'
  BY <1>4, PublishTable, LinkTable, CountTable, ReplaceTable, CheckTable, SaveTable, GrowTable, ResizeTable,
     AllocTable, ZeroTable, ScanTable, MoveTable, FreeOldTable DEF PutStep
<1> QED BY <1>1, <1>2, <1>3, <1>4 DEF Next, Step

(* Between two puts, and into the next: nothing moves.                     *)
LEMMA QuietStep ==
  ASSUME NEW w, Writer = {w}, TableInv(w), Next, Quiescent, Quiescent'
  PROVE  UNCHANGED <<mvars, avars, nvars, stack>>
<1>0. w \in Thread /\ ~Putting(w) /\ ~Putting(w)'
  BY ThreadAssumption DEF Quiescent
<1>1. ASSUME NEW k \in Key, NEW v \in Value, Put(w, k, v) PROVE FALSE
  <2>1. stack'[w] = <<Frame(CHOOSE x \in Entry : mem[x] = "fresh")>>
    BY <1>0, <1>1 DEF Put, TableInv, IInv, TypeOK
  <2> QED BY <1>0, <2>1 DEF Putting
<1>2. ASSUME PutStep(w) PROVE FALSE
  BY <1>0, <1>2 DEF PutStep, Publish, Link, Count, Replace, Check, Save, Grow, Resize, Alloc, Zero,
       Scan, Move, FreeOld, TableInv, IInv, Placed
<1>3. ASSUME NEW t \in Thread,
             (\E k \in Key : Get(t, k)) \/ Index(t) \/ Base(t) \/ HeadOf(t) \/ Advance(t) \/ Answer(t) \/ Fault(t)
      PROVE  UNCHANGED <<mvars, avars, nvars, stack>>
  BY <1>3 DEF Get, Index, Base, HeadOf, Advance, Answer, Fault
<1> QED BY <1>1, <1>2, <1>3 DEF Next, Step
-----------------------------------------------------------------------------
(* A set of numbers has a least one.                                       *)
LEMMA Least ==
  ASSUME NEW S, S \subseteq Nat, S # {}
  PROVE  \E m \in S : \A k \in S : m <= k
<1> DEFINE Below == OpToRel(<, Nat)
<1>1. PICK m \in S : \A k \in S : ~(<<k, m>> \in Below)
  <2>1. IsWellFoundedOn(Below, Nat)
    BY NatLessThanWellFounded
  <2> HIDE DEF Below
  <2> QED BY <2>1, WFMin
<1>2. ASSUME NEW k \in S, k < m PROVE FALSE
  <2>1. <<k, m>> \in Below
    BY <1>2 DEF OpToRel
  <2> HIDE DEF Below
  <2> QED BY <1>1, <2>1
<1> QED BY <1>2

(* How many come before e; the first n + 1 of the list.                    *)
Before(e, S, ky)    == {d \in S : ky[d] < ky[e]}
Rank(e, S, ky)      == Cardinality(Before(e, S, ky))
UpTo(n, S, ky)      == {e \in S : Rank(e, S, ky) <= n}

(* The link of an entry leads to the one of the next rank.                 *)
LEMMA RankNext ==
  ASSUME NEW S, IsFiniteSet(S), NEW ky, NULL \notin S, Numbered(S, ky), Distinct(S, ky),
         NEW e \in S, NEW c \in S, First(c, {d \in S : ky[e] < ky[d]}, ky)
  PROVE  Rank(c, S, ky) = Rank(e, S, ky) + 1 /\ Rank(e, S, ky) \in Nat
<1>1. ky[e] < ky[c] /\ \A d \in S : ky[e] < ky[d] => ky[c] <= ky[d]
  <2>1. {d \in S : ky[e] < ky[d]} # {}
    BY DEF First
  <2> QED BY <2>1 DEF First
<1>2. Before(c, S, ky) = Before(e, S, ky) \cup {e}
  <2>1. ASSUME NEW d \in S PROVE ky[d] < ky[c] <=> ky[d] < ky[e] \/ d = e
    BY <1>1 DEF Numbered, Distinct
  <2> QED BY <2>1 DEF Before
<1>3. e \notin Before(e, S, ky) /\ IsFiniteSet(Before(e, S, ky))
  <2>1. ~(ky[e] < ky[e])
    BY DEF Numbered
  <2>2. Before(e, S, ky) \subseteq S
    BY DEF Before
  <2>3. IsFiniteSet(Before(e, S, ky))
    BY <2>2, FS_Subset
  <2> QED BY <2>1, <2>3 DEF Before
<1> QED BY <1>2, <1>3, FS_AddElement, FS_CardinalityType DEF Rank

(* The first of the list, and what follows the first n of it.              *)
LEMMA UpToFirst ==
  ASSUME NEW p, NEW S, IsFiniteSet(S), NEW nx, NEW ky, S \subseteq Entry,
         Listed(p, S, nx, ky), Numbered(S, ky), Distinct(S, ky)
  PROVE  UpTo(0, S, ky) = {p} \cap Entry
<1>1. CASE S = {}
  BY <1>1, NullAssumption DEF UpTo, Listed, First
<1>2. CASE S # {}
  <2>1. p \in S /\ \A d \in S : ky[p] <= ky[d]
    BY <1>2 DEF Listed, First
  <2>2. ASSUME NEW e \in S PROVE Rank(e, S, ky) <= 0 <=> e = p
    <3>1. IsFiniteSet(Before(e, S, ky)) /\ Rank(e, S, ky) \in Nat
      <4>1. Before(e, S, ky) \subseteq S
        BY DEF Before
      <4> QED BY <4>1, FS_Subset, FS_CardinalityType DEF Rank
    <3>2. Rank(e, S, ky) <= 0 <=> Before(e, S, ky) = {}
      BY <3>1, FS_EmptySet DEF Rank
    <3>3. Before(e, S, ky) = {} <=> e = p
      BY <2>1 DEF Before, Numbered, Distinct
    <3> QED BY <3>2, <3>3
  <2> QED BY <2>1, <2>2 DEF UpTo
<1> QED BY <1>1, <1>2

(* What the links of the first n lead to are the first n + 1.              *)
LEMMA UpToNext ==
  ASSUME NEW p, NEW S, IsFiniteSet(S), NEW nx, NEW ky, S \subseteq Entry,
         Listed(p, S, nx, ky), Numbered(S, ky), Distinct(S, ky), NEW n \in Nat, n # 0
  PROVE  UpTo(n, S, ky) = UpTo(n - 1, S, ky) \cup ({nx[e] : e \in UpTo(n - 1, S, ky)} \cap Entry)
<1>0. \A e \in S : Rank(e, S, ky) \in Nat
  <2>1. ASSUME NEW e \in S PROVE Rank(e, S, ky) \in Nat
    <3>1. Before(e, S, ky) \subseteq S
      BY DEF Before
    <3> QED BY <3>1, FS_Subset, FS_CardinalityType DEF Rank
  <2> QED BY <2>1
<1>1. NULL \notin S /\ NULL \notin Entry
  BY NullAssumption
<1>2. ASSUME NEW e \in S PROVE First(nx[e], {d \in S : ky[e] < ky[d]}, ky)
  BY DEF Listed
<1>3. ASSUME NEW e \in UpTo(n - 1, S, ky), nx[e] \in Entry PROVE nx[e] \in UpTo(n, S, ky)
  <2>1. e \in S /\ Rank(e, S, ky) <= n - 1
    BY <1>3 DEF UpTo
  <2>2. nx[e] \in S
    BY <1>1, <1>2, <1>3, <2>1 DEF First
  <2>3. Rank(nx[e], S, ky) = Rank(e, S, ky) + 1
    BY <1>1, <1>2, <2>1, <2>2, RankNext
  <2> QED BY <1>0, <2>1, <2>2, <2>3 DEF UpTo
<1>4. ASSUME NEW c \in S, Rank(c, S, ky) = n PROVE \E e \in UpTo(n - 1, S, ky) : nx[e] = c
  <2> DEFINE B == Before(c, S, ky)
             D == {ky[c] - ky[d] : d \in B}
  <2>1. B # {} /\ B \subseteq S /\ \A d \in B : ky[d] \in Nat /\ ky[c] \in Nat /\ ky[d] < ky[c]
    <3>1. B # {}
      BY <1>4, FS_EmptySet DEF Rank
    <3> QED BY <3>1 DEF Before, Numbered
  <2>2. D \subseteq Nat /\ D # {}
    <3> HIDE DEF B
    <3> QED BY <2>1
  <2>3. PICK m \in D : \A k \in D : m <= k
    <3> HIDE DEF D
    <3> QED BY <2>2, Least
  <2>4. PICK e \in B : m = ky[c] - ky[e]
    BY <2>3
  <2>5. \A d \in B : ky[d] <= ky[e]
    <3>1. \A d \in B : m <= ky[c] - ky[d]
      BY <2>3
    <3> HIDE DEF B, D
    <3> QED BY <2>1, <2>4, <3>1
  <2>6. e \in S /\ ky[e] < ky[c]
    BY <2>1, <2>4
  <2> DEFINE T == {d \in S : ky[e] < ky[d]}
  <2>7. First(nx[e], T, ky) /\ c \in T
    BY <1>2, <2>6
  <2>8. nx[e] \in T /\ ky[nx[e]] <= ky[c]
    BY <2>7 DEF First
  <2>9. ~(ky[nx[e]] < ky[c])
    <3>1. ASSUME ky[nx[e]] < ky[c] PROVE FALSE
      <4>1. nx[e] \in B
        BY <2>8, <3>1 DEF Before
      <4>2. ky[nx[e]] <= ky[e] /\ ky[e] < ky[nx[e]]
        BY <2>5, <2>8, <4>1
      <4> QED BY <2>6, <2>8, <4>2 DEF Numbered
    <3> QED BY <3>1
  <2>10. nx[e] = c
    BY <2>8, <2>9 DEF Numbered, Distinct
  <2>11. Rank(c, S, ky) = Rank(e, S, ky) + 1
    BY <1>1, <2>6, <2>7, <2>10, RankNext
  <2>12. e \in UpTo(n - 1, S, ky)
    BY <1>0, <1>4, <2>6, <2>11 DEF UpTo
  <2> QED BY <2>10, <2>12
<1>5. UpTo(n - 1, S, ky) \subseteq UpTo(n, S, ky)
  BY <1>0 DEF UpTo
<1>6. ASSUME NEW c \in UpTo(n, S, ky)
      PROVE  c \in UpTo(n - 1, S, ky) \/ \E e \in UpTo(n - 1, S, ky) : nx[e] = c
  <2>1. c \in S /\ Rank(c, S, ky) <= n
    BY <1>6 DEF UpTo
  <2>2. Rank(c, S, ky) = n \/ Rank(c, S, ky) <= n - 1
    BY <1>0, <2>1
  <2> QED BY <1>4, <2>1, <2>2 DEF UpTo
<1>7. UpTo(n, S, ky) \subseteq Entry
  BY DEF UpTo
<1> QED BY <1>3, <1>5, <1>6, <1>7

(* One more link from each of M.                                           *)
Onward(M) == M \cup ({next[e] : e \in M} \cap Entry)

(* Chain is what the links lead to: a function with its recursion exists,  *)
(* and any such function counts the list up by rank.                       *)
LEMMA ChainIs ==
  ASSUME NEW p, NEW S, S \subseteq Entry, IsFiniteSet(Entry),
         Listed(p, S, next, key), Numbered(S, key), Distinct(S, key)
  PROVE  Chain(p) = S
<1> DEFINE N == Cardinality(Entry)
           G(n) == UpTo(n, S, key)
           Up(f, n) == IF n = 0 THEN {p} \cap Entry
                                ELSE f[n-1] \cup ({next[e] : e \in f[n-1]} \cap Entry)
           Meets(f) == f = [n \in 0..N |-> Up(f, n)]
           h == [n \in 0..N |-> G(n)]
           met == CHOOSE f : Meets(f)
<1>1. IsFiniteSet(S) /\ N \in Nat
  BY FS_Subset, FS_CardinalityType
<1>2. G(0) = {p} \cap Entry
  BY <1>1, UpToFirst
<1>3. \A n \in Nat : n # 0 => G(n) = G(n - 1) \cup ({next[e] : e \in G(n - 1)} \cap Entry)
  BY <1>1, UpToNext
<1>4. G(N) = S
  <2>1. ASSUME NEW e \in S PROVE Rank(e, S, key) <= N
    <3>1. Before(e, S, key) \subseteq Entry
      BY DEF Before
    <3> QED BY <3>1, FS_Subset DEF Rank
  <2> QED BY <2>1 DEF UpTo
<1> HIDE DEF N, G
<1>5. Meets(h)
  <2>1. ASSUME NEW n \in 0..N PROVE G(n) = Up(h, n)
    <3>1. CASE n = 0
      BY <1>2, <3>1
    <3>2. CASE n # 0
      <4>1. n \in Nat /\ n - 1 \in 0..N
        BY <1>1, <3>2
      <4>2. h[n - 1] = G(n - 1)
        BY <4>1
      <4> HIDE DEF h
      <4> QED BY <1>3, <3>2, <4>1, <4>2
    <3> QED BY <3>1, <3>2
  <2> HIDE DEF Up
  <2> QED BY <2>1
<1>6. Chain(p) = met[N]
  BY DEF Chain, N
<1> HIDE DEF h
<1>7. Meets(met)
  <2> HIDE DEF Meets
  <2> QED BY <1>5
<1> HIDE DEF met
<1>8. /\ 0 \in 0..N => met[0] = {p} \cap Entry
      /\ \A n \in 0..N : n # 0 => met[n] = met[n-1] \cup ({next[e] : e \in met[n-1]} \cap Entry)
  <2>1. \A n \in 0..N : met[n] = Up(met, n)
    <3> HIDE DEF Up
    <3> QED BY <1>7
  <2> QED BY <2>1
<1> HIDE DEF Meets, Up
<1> DEFINE W == {n \in 0..N : met[n] # G(n)}
<1>9. W = {}
  <2> SUFFICES ASSUME W # {} PROVE FALSE
    OBVIOUS
  <2>1. PICK m \in W : \A k \in W : m <= k
    <3>1. W \subseteq Nat
      BY <1>1
    <3> HIDE DEF W
    <3> QED BY <3>1, Least
  <2>2. m \in 0..N /\ m # 0 /\ met[m] # G(m)
    BY <1>1, <1>2, <1>8
  <2>3. m - 1 \in 0..N /\ ~(m <= m - 1) /\ m \in Nat
    BY <1>1, <2>2
  <2>4. m - 1 \notin W
    <3> HIDE DEF W
    <3> QED BY <2>1, <2>3
  <2>5. met[m - 1] = G(m - 1)
    BY <2>3, <2>4
  <2> QED BY <1>3, <1>8, <2>2, <2>3, <2>5
<1>10. met[N] = G(N)
  BY <1>1, <1>9
<1> QED BY <1>4, <1>6, <1>10
-----------------------------------------------------------------------------
(* What the invariant says of the table between two puts.                  *)
LEMMA AtRest ==
  ASSUME NEW w, Writer = {w}, TableInv(w), Quiescent
  PROVE  /\ Stored = InUse /\ Hung(w) = InUse
         /\ nentries = Cardinality(InUse) /\ nentries <= size \div 2 /\ live = {entries}
         /\ DOMAIN arr[entries] = 0..(size - 1)
         /\ \A j \in 0..(size - 1) : Listed(arr[entries][j], {e \in InUse : Hash[key[e]] % size = j}, next, key)
         /\ Distinct(InUse, key) /\ Numbered(InUse, key) /\ IsFiniteSet(InUse)
<1>1. ~Putting(w)
  BY DEF Quiescent
<1>2. Len(stack[w]) # 2 /\ ~Pending(w)
  <2>1. Len(stack[w]) = 0
    BY <1>1, Depth DEF TableInv
  <2>2. 0 # 2
    OBVIOUS
  <2> QED BY <1>1, <2>1, <2>2, Zenon DEF Pending
<1>3. pc[w] \in {"idle", "index", "base", "head", "walk"}
  BY <1>1 DEF TableInv, TInv, Phase
<1>4. ~Refilling(w)
  BY <1>2, <1>3 DEF Refilling
<1>5. Stored = InUse
  BY <1>2, StoredIs
<1>6. Left(w) = {} /\ Moving(w) = {} /\ Uncounted(w) = {}
  BY <1>2, <1>3, <1>4 DEF Left, Moving, Uncounted, Hanging
<1>7. Hung(w) = InUse
  BY <1>5, <1>6 DEF Hung
<1>8. \A j : Bucket(w, j) = {e \in InUse : Hash[key[e]] % size = j}
  BY <1>7 DEF Bucket, Slot
<1>9. \A j \in 0..(size - 1) : Listed(arr[entries][j], {e \in InUse : Hash[key[e]] % size = j}, next, key)
  <2>1. ASSUME NEW j \in 0..(size - 1)
        PROVE  Listed(arr[entries][j], Bucket(w, j), next, key)
    <3>1. Listed(arr[entries][j], Bucket(w, j), Links(w), key)
      BY <1>3, <2>1 DEF TableInv, TInv, Shape
    <3>2. \A e \in Bucket(w, j) : Links(w)[e] = next[e]
      BY <1>3, <1>7 DEF Links, Bucket, InUse
    <3> QED BY <3>1, <3>2, ListedSame
  <2> QED BY <1>8, <2>1
<1>10. nentries = Cardinality(InUse) /\ nentries <= size \div 2
  <2>1. Hung(w) \ Uncounted(w) = InUse
    BY <1>6, <1>7
  <2> QED BY <1>4, <1>5, <2>1 DEF TableInv, TInv, Counting
<1>11. live = {entries} /\ DOMAIN arr[entries] = 0..(size - 1)
  BY <1>4 DEF TableInv, TInv, Memory
<1>12. Distinct(InUse, key) /\ Numbered(InUse, key) /\ IsFiniteSet(InUse)
  BY <1>5, KeysOf DEF TableInv, TInv, Shape, Counting
<1> QED BY <1>5, <1>7, <1>9, <1>10, <1>11, <1>12

(* With one thread that puts, m->nentries counts the entries whenever no   *)
(* put is in progress: a rehash, which counts from nothing again, loses    *)
(* none, and the table never fills beyond half (hash_map_put_entry).       *)
THEOREM CountIsExact ==
  ASSUME NEW w, Writer = {w}
  PROVE  Spec => []CountExact
<1>1. TableInv(w) => CountExact
  BY AtRest DEF CountExact
<1> QED BY <1>1, TableInvariance, PTL

(* Every bucket is the chain of its entries.                               *)
LEMMA PlacedAtRest ==
  ASSUME NEW w, Writer = {w}, IsFiniteSet(Entry), TableInv(w)
  PROVE  EveryEntryInPlace
<1>1. ASSUME Quiescent
      PROVE  /\ DOMAIN arr[entries] = 0..(size-1)
             /\ \A i \in 0..(size-1) : Chain(arr[entries][i]) = {e \in InUse : Hash[key[e]] % size = i}
             /\ \A d, e \in InUse : key[d] = key[e] => d = e
  <2>1. ASSUME NEW i \in 0..(size-1)
        PROVE  Chain(arr[entries][i]) = {e \in InUse : Hash[key[e]] % size = i}
    <3> DEFINE S == {e \in InUse : Hash[key[e]] % size = i}
    <3>1. S \subseteq Entry
      BY DEF InUse
    <3>2. Listed(arr[entries][i], S, next, key) /\ Numbered(S, key) /\ Distinct(S, key)
      BY <1>1, AtRest DEF Numbered, Distinct
    <3> HIDE DEF S
    <3>3. Chain(arr[entries][i]) = S
      BY <3>1, <3>2, ChainIs
    <3> QED BY <3>3 DEF S
  <2> QED BY <1>1, <2>1, AtRest DEF Distinct
<1> QED BY <1>1 DEF EveryEntryInPlace

(* With one thread that puts, every entry then hangs in the bucket its key *)
(* hashes to under the current size, once, and nothing else does: what     *)
(* hash_map_put_entry and hash_map_rehash must agree on.                   *)
THEOREM EveryEntryIsInPlace ==
  ASSUME NEW w, Writer = {w}, IsFiniteSet(Entry)
  PROVE  Spec => []EveryEntryInPlace
<1>1. TableInv(w) => EveryEntryInPlace
  BY PlacedAtRest
<1> QED BY <1>1, TableInvariance, PTL

(* With one thread that puts, hash_map_rehash never has hash_map_put_entry *)
(* call it again: the table it refills is not full before it is done.      *)
THEOREM NoNestedRehash ==
  ASSUME NEW w, Writer = {w}
  PROVE  Spec => []RehashDoesNotNest
<1>1. ASSUME TableInv(w) PROVE RehashDoesNotNest
  <2> DEFINE T == {n \in DOMAIN stack[w] : stack[w][n].old # NULL}
  <2>1. DOMAIN stack[w] = 1..Len(stack[w])
    BY <1>1, Depth DEF TableInv
  <2>2. PICK k \in Nat : T \subseteq {k}
    <3>1. CASE Len(stack[w]) = 0
      BY <2>1, <3>1
    <3>2. CASE Len(stack[w]) = 1
      BY <2>1, <3>2
    <3>3. CASE Len(stack[w]) = 2
      <4>1. stack[w][1] = Frame(Ins(w))
        BY <1>1, <3>3, Depth, TopFrame, ThreadAssumption DEF TableInv, TInv, Phase
      <4>2. stack[w][1].old = NULL
        BY <4>1 DEF Frame, Activation
      <4> QED BY <2>1, <3>3, <4>2
    <3> QED BY <1>1, <3>1, <3>2, <3>3, Depth DEF TableInv
  <2> HIDE DEF T
  <2>3. Cardinality(T) <= 1
    <3>1. IsFiniteSet({k}) /\ Cardinality({k}) = 1
      BY FS_Singleton
    <3> QED BY <2>2, <3>1, FS_Subset
  <2> QED BY <2>3 DEF RehashDoesNotNest, T
<1> QED BY <1>1, TableInvariance, PTL

(* What the writer's next step does is defined.                            *)
LEMMA WriterSafe ==
  ASSUME NEW w, Writer = {w}, TableInv(w)
  PROVE  ~Faulty(w)
<1>0. w \in Thread
  BY ThreadAssumption
<1>1. \A p \in Stored \cup {NULL} : ~Bad(p)
  BY DEF Bad, Usable, Stored, InUse
<1>2. CASE pc[w] = "walk"
  <2>1. CASE Putting(w)
    <3>1. /\ cur[w] \in Stored \cup {NULL} /\ prev[w] \in Stored \cup {NULL}
          /\ idx[w] \in DOMAIN arr[entries]
      BY <1>2, <2>1, WalkAt DEF TableInv, TInv, Reach
    <3>2. base[w] = entries /\ entries \in live
      BY <1>2, <2>1 DEF TableInv, TInv, Place, Memory
    <3>3. ASSUME prev[w] = NULL, cur[w] # NULL PROVE NULL \notin Load(entries, idx[w])
      <4>1. cur[w] = arr[entries][idx[w]] /\ cur[w] \in Stored
        BY <1>2, <2>1, <3>1, <3>3, WalkAt, NullAssumption DEF TableInv, Bucket, Hung, Stored, InUse
      <4>2. cur[w] # Junk
        BY <4>1, NullAssumption DEF Stored, InUse
      <4> QED BY <3>1, <3>2, <3>3, <4>1, <4>2 DEF Load
    <3> QED BY <1>1, <1>2, <3>1, <3>2, <3>3 DEF Faulty
  <2>2. CASE ~Putting(w)
    BY <1>1, <1>2, <2>2 DEF Faulty, TableInv, Looking
  <2> QED BY <2>1, <2>2
<1>3. CASE pc[w] = "scan"
  <2>1. /\ Refilling(w) /\ Putting(w) /\ Len(stack[w]) = 1
    BY <1>3, BottomFrame, Depth DEF Refilling, TableInv, TInv, Phase
  <2>2. Head(stack[w]) = Bottom(w)
    BY <1>0, <2>1, TopFrame DEF Bottom, TableInv
  <2>3. Bottom(w).todo \in Stored \cup {NULL}
    <3>1. CASE Bottom(w).i = 0
      BY <2>1, <3>1 DEF TableInv, TInv, Memory
    <3>2. CASE Bottom(w).i # 0
      <4>1. Listed(Bottom(w).todo, OldBucket(w, Bottom(w).i - 1), next, key)
        BY <2>1, <3>2 DEF TableInv, TInv, Shape
      <4> QED BY <4>1, ListedIn DEF OldBucket, Left
    <3> QED BY <3>1, <3>2
  <2>4. Bottom(w).old \in live
    BY <2>1 DEF TableInv, TInv, Memory
  <2> QED BY <1>1, <1>3, <2>2, <2>3, <2>4 DEF Faulty
<1>4. CASE pc[w] = "zero"
  <2>1. Refilling(w) /\ DOMAIN arr[entries] = 0..(size - 1) /\ size \in Nat \ {0}
    BY <1>4 DEF Refilling, TableInv, TInv, Memory, IInv, TypeOK
  <2>2. size - 1 \in DOMAIN arr[entries]
    BY <2>1
  <2> QED BY <1>4, <2>2 DEF Faulty
<1> QED BY <1>2, <1>3, <1>4 DEF Faulty

(* With one thread that puts, no pointer a get or a put may still follow   *)
(* names a freed entry, though hash_map_put_entry frees one when the key   *)
(* is there; and the writer's own accesses are all defined.                *)
THEOREM NoFreedEntryReached ==
  ASSUME NEW w, Writer = {w}
  PROVE  Spec => []NoFreedEntryInReach
<1>1. ASSUME TableInv(w) PROVE NoFreedEntryInReach
  <2>1. \A e \in Stored : Usable(e)
    BY DEF Usable, Stored, InUse
  <2>2. \A e \in InUse : next[e] = NULL \/ Usable(next[e])
    BY <1>1, <2>1 DEF TableInv, TInv, Reach
  <2>3. \A t \in Thread : cur[t] \in Entry => Usable(cur[t])
    BY <1>1, <2>1 DEF TableInv, TInv, Reach
  <2>4. ~Faulty(w)
    BY <1>1, WriterSafe
  <2> QED BY <2>2, <2>3, <2>4 DEF NoFreedEntryInReach
<1> QED BY <1>1, TableInvariance, PTL
=============================================================================
