------------------------ MODULE HashMapLookupsProofs -------------------------
(***************************************************************************)
(* With one thread that puts and any number that get, the table of HashMap *)
(* implements RegularMap: every put takes effect at one moment, a rehash   *)
(* changes nothing that is stored, and a get answers a value its key had   *)
(* while it ran, or misses it only if it met a put.                        *)
(***************************************************************************)
EXTENDS HashMapLookups, HashMapProofs

-----------------------------------------------------------------------------
(* The dictionary.                                                         *)

(* The dictionary entries S with keys ky and values vl stand for.          *)
DictOf(S, ky, vl) ==
  [k \in Key |-> IF \E e \in S : ky[e] = k THEN vl[CHOOSE e \in S : ky[e] = k] ELSE NULL]

(* Its value for the key of an entry, and for another.                     *)
LEMMA DictAt ==
  ASSUME NEW S, NEW ky, NEW vl, Distinct(S, ky)
  PROVE  /\ \A e \in S : ky[e] \in Key => DictOf(S, ky, vl)[ky[e]] = vl[e]
         /\ \A k \in Key : (\A e \in S : ky[e] # k) => DictOf(S, ky, vl)[k] = NULL
<1>1. ASSUME NEW e \in S, ky[e] \in Key PROVE DictOf(S, ky, vl)[ky[e]] = vl[e]
  <2>1. PICK c : c = CHOOSE d \in S : ky[d] = ky[e]
    OBVIOUS
  <2>2. c \in S /\ ky[c] = ky[e]
    BY <2>1
  <2>3. c = e
    BY <2>2 DEF Distinct
  <2> QED BY <1>1, <2>1, <2>3 DEF DictOf
<1> QED BY <1>1 DEF DictOf

(* One with the same entries.                                              *)
LEMMA DictSame ==
  ASSUME NEW S, NEW ky, NEW vl, Distinct(S, ky), NEW ky2, NEW vl2,
         \A e \in S : ky2[e] = ky[e] /\ vl2[e] = vl[e]
  PROVE  DictOf(S, ky2, vl2) = DictOf(S, ky, vl)
<1>1. Distinct(S, ky2)
  BY DEF Distinct
<1>2. ASSUME NEW k \in Key PROVE DictOf(S, ky2, vl2)[k] = DictOf(S, ky, vl)[k]
  <2>1. CASE \E e \in S : ky[e] = k
    BY <1>1, <2>1, DictAt
  <2>2. CASE \A e \in S : ky[e] # k
    BY <1>1, <2>2, DictAt
  <2> QED BY <2>1, <2>2
<1> QED BY <1>2 DEF DictOf

(* One with an entry more, or another value for one.                       *)
OneMore(S, T, x, ky, vl, vl2) ==
  /\ x \in T /\ T = S \cup {x} /\ Distinct(T, ky) /\ ky[x] \in Key
  /\ \A e \in S : e # x => vl2[e] = vl[e]

PutIn(d, k, v) == [d EXCEPT ![k] = v]

LEMMA DictPut ==
  ASSUME NEW S, NEW ky, NEW vl, NEW T, NEW vl2, NEW x, OneMore(S, T, x, ky, vl, vl2)
  PROVE  DictOf(T, ky, vl2) = PutIn(DictOf(S, ky, vl), ky[x], vl2[x])
<1>0. x \in T /\ T = S \cup {x} /\ Distinct(T, ky) /\ ky[x] \in Key /\ \A e \in S : e # x => vl2[e] = vl[e]
  BY DEF OneMore
<1> DEFINE f == [DictOf(S, ky, vl) EXCEPT ![ky[x]] = vl2[x]]
<1>1. Distinct(S, ky)
  BY <1>0 DEF Distinct
<1>2. f = [k \in Key |-> IF k = ky[x] THEN vl2[x] ELSE DictOf(S, ky, vl)[k]]
  BY <1>0 DEF DictOf
<1>3. ASSUME NEW k \in Key
      PROVE  DictOf(T, ky, vl2)[k] = IF k = ky[x] THEN vl2[x] ELSE DictOf(S, ky, vl)[k]
  <2>1. CASE k = ky[x]
    BY <1>0, <2>1, DictAt
  <2>2. CASE k # ky[x] /\ \E e \in S : ky[e] = k
    <3>1. PICK e \in S : ky[e] = k
      BY <2>2
    <3>2. e # x /\ e \in T
      BY <1>0, <2>2, <3>1
    <3> QED BY <1>0, <1>1, <2>2, <3>1, <3>2, DictAt
  <2>3. CASE k # ky[x] /\ \A e \in S : ky[e] # k
    <3>1. \A e \in T : ky[e] # k
      BY <1>0, <2>3
    <3> QED BY <1>0, <1>1, <2>3, <3>1, DictAt
  <2> QED BY <2>1, <2>2, <2>3
<1>4. DictOf(T, ky, vl2) = [k \in Key |-> DictOf(T, ky, vl2)[k]]
  BY DEF DictOf
<1>5. [k \in Key |-> DictOf(T, ky, vl2)[k]]
      = [k \in Key |-> IF k = ky[x] THEN vl2[x] ELSE DictOf(S, ky, vl)[k]]
  BY <1>3
<1> QED BY <1>2, <1>4, <1>5 DEF PutIn

(* The dictionary of the table, before and after a step.                   *)
LEMMA DictIs ==
  /\ dict = DictOf(Stored, key, value)
  /\ dict' = DictOf(Stored', key', value')
BY DEF dict, DictOf

(* What a step that moves entries about, or links one, leaves alone.       *)
Unmoved(w) ==
  /\ Stored' = Stored /\ key' = key /\ value' = value
  /\ (Putting(w)' <=> Putting(w)) /\ (Pending(w)' <=> Pending(w))
  /\ Putting(w) => Outer(w)' = Outer(w)

(* All the steps of a put but three.                                       *)
LEMMA MovesNothing ==
  ASSUME NEW w, Writer = {w}, IInv, TInv(w),
         \/ Link(w) \/ Check(w) \/ Save(w) \/ Grow(w) \/ Resize(w) \/ Alloc(w) \/ Zero(w)
         \/ Scan(w) \/ Move(w) \/ FreeOld(w) \/ (Count(w) /\ Len(stack[w]) = 2)
  PROVE  Unmoved(w) /\ Putting(w)
<1>0. w \in Thread
  BY ThreadAssumption
<1>1. mem' = mem /\ key' = key /\ value' = value
  BY DEF Link, Check, Save, Grow, Resize, Alloc, Zero, Scan, Move, FreeOld, Count, nvars
<1>2. InUse' = InUse
  BY <1>1 DEF InUse
<1>3. Putting(w)
  BY <1>0 DEF Link, Check, Save, Grow, Resize, Alloc, Zero, Scan, Move, FreeOld, Count, IInv, Placed
<1>4. Putting(w)' /\ (Pending(w)' <=> Pending(w)) /\ Outer(w)' = Outer(w)
  <2>1. CASE Link(w) \/ Check(w) \/ Save(w) \/ Resize(w) \/ Alloc(w) \/ Zero(w) \/ FreeOld(w)
    <3>1. stack' = stack
      BY <2>1 DEF Link, Check, Save, Resize, Alloc, Zero, FreeOld
    <3>2. pc[w] \in {"link", "count"} <=> pc'[w] \in {"link", "count"}
      BY <1>0, <2>1 DEF Link, Check, Save, Resize, Alloc, Zero, FreeOld, Goto, IInv, TypeOK
    <3> QED BY <1>3, <3>1, <3>2 DEF Pending, Putting, Outer
  <2>2. CASE Count(w) /\ Len(stack[w]) = 2
    <3>1. stack'[w] = Tail(stack[w]) /\ pc[w] = "count" /\ pc'[w] = "scan"
      BY <1>0, <2>2 DEF Count, Return, Goto, IInv, TypeOK
    <3>2. Putting(w)' /\ Outer(w)' = Outer(w)
      BY <1>3, <2>2, <3>1, Popped
    <3>3. Pending(w)
      BY <1>3, <2>2 DEF Pending
    <3>4. Pending(w)'
      BY <3>1, <3>2 DEF Pending
    <3> QED BY <3>2, <3>3, <3>4
  <2>3. CASE Grow(w) \/ Scan(w) \/ Move(w)
    <3> DEFINE s == stack[w]
    <3>1. s \in Seq(FrameDom) /\ s # << >> /\ Head(s) = s[1] /\ Len(s) = 1
      <4>1. pc[w] \in {"grow", "scan"}
        BY <2>3 DEF Grow, Scan, Move
      <4>2. Len(s) # 2
        BY <4>1 DEF TInv, Phase
      <4>3. Len(s) \in {1, 2}
        BY <1>3, Depth
      <4> QED BY <1>0, <1>3, <4>2, <4>3, TopFrame
    <3>2. Outer(w) = Head(s).entry /\ Ins(w) = Head(s).entry
      BY <3>1 DEF Outer, Ins
    <3>3. \A f : Len(<<f>> \o Tail(s)) = 1 /\ (<<f>> \o Tail(s))[1] = f
      BY <3>1
    <3>4. \A f, g : Len(<<g, f>> \o Tail(s)) = 2 /\ (<<g, f>> \o Tail(s))[2] = f
      <4>1. Tail(s) = << >>
        <5>1. Tail(s) \in Seq(FrameDom) /\ Len(Tail(s)) = 0
          BY <3>1, TailSeq
        <5>2. \A r \in Seq(FrameDom) : Len(r) = 0 => r = << >>
          OBVIOUS
        <5> HIDE DEF s
        <5> QED BY <5>1, <5>2, Zenon
      <4>2. ASSUME NEW f, NEW g PROVE <<g, f>> \o << >> = <<g, f>>
        <5>1. <<g, f>> \in Seq({f, g})
          OBVIOUS
        <5>2. \A r \in Seq({f, g}) : r \o << >> = r
          OBVIOUS
        <5> QED BY <5>1, <5>2
      <4>3. ASSUME NEW f, NEW g PROVE <<g, f>> \o Tail(s) = <<g, f>>
        <5> HIDE DEF s
        <5> QED BY <4>1, <4>2, Zenon
      <4>4. ASSUME NEW f, NEW g PROVE Len(<<g, f>> \o Tail(s)) = 2 /\ (<<g, f>> \o Tail(s))[2] = f
        <5>1. PICK r : r = <<g, f>> \o Tail(s)
          OBVIOUS
        <5>2. r = <<g, f>>
          BY <4>3, <5>1, Zenon
        <5>3. Len(r) = 2 /\ r[2] = f
          BY <5>2
        <5> HIDE DEF s
        <5> QED BY <5>1, <5>3, Zenon
      <4> QED BY <4>4
    <3>5. CASE Grow(w) \/ Scan(w)
      <4>1. PICK old, n, j, p :
              stack' = [stack EXCEPT ![w] = <<Activation(Head(s).entry, old, n, j, p)>> \o Tail(s)]
        BY <3>2, <3>5 DEF Grow, Scan, SetTop
      <4>2. stack'[w] = <<Activation(Head(s).entry, old, n, j, p)>> \o Tail(s)
        BY <1>0, <4>1 DEF IInv, TypeOK
      <4>3. Len(stack'[w]) = 1 /\ stack'[w][1] = Activation(Head(s).entry, old, n, j, p)
        BY <3>3, <4>2
      <4>4. Outer(w)' = Outer(w) /\ Putting(w)'
        BY <3>2, <4>3 DEF Outer, Putting, Activation
      <4>5. pc[w] \notin {"link", "count"} /\ pc'[w] \notin {"link", "count"}
        BY <1>0, <3>5 DEF Grow, Scan, Goto, IInv, TypeOK
      <4> QED BY <1>3, <4>4, <4>5 DEF Pending
    <3>6. CASE Move(w)
      <4>1. PICK f : /\ f.entry = Head(s).entry
                     /\ stack' = [stack EXCEPT ![w] = <<Frame(Head(s).todo), f>> \o Tail(s)]
        BY <3>6 DEF Move, Activation
      <4>2. stack'[w] = <<Frame(Head(s).todo), f>> \o Tail(s)
        BY <1>0, <4>1 DEF IInv, TypeOK
      <4>3. Len(stack'[w]) = 2 /\ stack'[w][2] = f
        BY <3>4, <4>2
      <4>4. Outer(w)' = Outer(w) /\ Putting(w)'
        BY <3>2, <4>1, <4>3 DEF Outer, Putting
      <4>5. pc[w] \notin {"link", "count"} /\ pc'[w] \notin {"link", "count"}
        BY <1>0, <3>6 DEF Move, Goto, IInv, TypeOK
      <4> QED BY <1>3, <4>4, <4>5 DEF Pending
    <3> QED BY <2>3, <3>5, <3>6
  <2> QED BY <2>1, <2>2, <2>3
<1>5. Stored' = Stored
  BY <1>2, <1>4, StoredIs
<1> QED BY <1>1, <1>3, <1>4, <1>5 DEF Unmoved

(* What RegularMap knows of the put in progress.                           *)
Owes(w) ==
  IF ~Putting(w) THEN << >>
  ELSE IF Pending(w) THEN <<key[Outer(w)], value[Outer(w)]>>
  ELSE <<key[Outer(w)]>>

LEMMA PutIs ==
  ASSUME NEW w, Writer = {w}
  PROVE  /\ put = [x \in Writer |-> Owes(w)] /\ put[w] = Owes(w)
         /\ put' = [x \in Writer |-> Owes(w)'] /\ put'[w] = Owes(w)'
         /\ (put[w] # << >> <=> Putting(w)) /\ (Quiescent <=> ~Putting(w))
         /\ (Quiescent' <=> ~Putting(w)')
<1>1. put = [x \in Writer |-> Owes(w)] /\ put' = [x \in Writer |-> Owes(w)']
  BY DEF put, Owes
<1>2. put[w] = Owes(w) /\ put'[w] = Owes(w)'
  BY <1>1
<1>3. \A a, b : <<a>> # << >> /\ <<a, b>> # << >>
  OBVIOUS
<1> QED BY <1>1, <1>2, <1>3 DEF Owes, Quiescent

(* Keys of what is stored, before and after.                               *)
LEMMA StoredKeys ==
  ASSUME NEW w, Writer = {w}, TableInv(w)
  PROVE  Distinct(Stored, key) /\ \A e \in InUse : key[e] \in Key
BY KeysOf DEF TableInv, TInv, Shape

(* A step that moves nothing means nothing.                                *)
LEMMA UnmovedDict ==
  ASSUME NEW w, Writer = {w}, TableInv(w), Unmoved(w)
  PROVE  dict' = dict /\ put' = put /\ Quiescent' = Quiescent
<1>1. dict' = dict
  BY DictIs DEF Unmoved
<1>2. Owes(w)' = Owes(w)
  BY DEF Unmoved, Owes
<1>3. put' = put
  BY <1>2, PutIs
<1>4. Quiescent' <=> Quiescent
  BY PutIs DEF Unmoved
<1> QED BY <1>1, <1>3, <1>4

(* Nor does a load.                                                        *)
LEMMA LoadDict ==
  ASSUME NEW w, Writer = {w}, TableInv(w), Loading(w)
  PROVE  Unmoved(w)
BY LoadingSets DEF Unmoved, Loading, nvars

(* hash_map_put is called: its entry is not stored yet.                    *)
LEMMA PutDict ==
  ASSUME NEW w, Writer = {w}, TableInv(w), TableInv(w)', NEW k \in Key, NEW v \in Value, Put(w, k, v)
  PROVE  /\ dict' = dict /\ ~Putting(w) /\ put[w] = << >> /\ ~Quiescent'
         /\ put' = [put EXCEPT ![w] = <<k, v>>]
<1>0. w \in Thread
  BY ThreadAssumption
<1>1. PICK e \in Entry :
        /\ mem[e] = "fresh" /\ pc[w] = "idle" /\ pc' = [pc EXCEPT ![w] = "check"]
        /\ key' = [key EXCEPT ![e] = k] /\ value' = [value EXCEPT ![e] = v]
        /\ mem' = [mem EXCEPT ![e] = "used"]
        /\ stack' = [stack EXCEPT ![w] = <<Frame(e)>>]
  BY DEF Put, Goto
<1>2. /\ stack'[w] = <<Frame(e)>> /\ pc'[w] = "check" /\ mem'[e] = "used" /\ key'[e] = k /\ value'[e] = v
      /\ \A d \in Entry : d # e => key'[d] = key[d] /\ value'[d] = value[d] /\ mem'[d] = mem[d]
  BY <1>0, <1>1 DEF TableInv, IInv, TypeOK
<1>3. Putting(w)' /\ Outer(w)' = e /\ Len(stack'[w]) = 1
  BY <1>2 DEF Putting, Outer, Frame, Activation
<1>4. ~Putting(w) /\ ~Pending(w)
  BY <1>1, Depth DEF TableInv, TInv, Phase, Pending
<1>5. Pending(w)'
  BY <1>2, <1>3 DEF Pending
<1>6. e \notin InUse /\ InUse' = InUse \cup {e}
  BY <1>1, <1>2 DEF InUse
<1>7. Stored = InUse /\ Stored' = Stored
  <2>1. Stored = InUse
    BY <1>4, StoredIs
  <2>2. Stored' = InUse' \ {Outer(w)'}
    BY <1>5, StoredIs
  <2> QED BY <1>3, <1>6, <2>1, <2>2
<1>8. \A d \in Stored : key'[d] = key[d] /\ value'[d] = value[d]
  BY <1>2, <1>6, <1>7 DEF InUse
<1>9. dict' = dict
  BY <1>7, <1>8, StoredKeys, DictSame, DictIs
<1>10. Owes(w)' = <<k, v>> /\ Owes(w) = << >>
  BY <1>2, <1>3, <1>4, <1>5 DEF Owes
<1>11. put' = [put EXCEPT ![w] = <<k, v>>] /\ put[w] = << >>
  BY <1>10, PutIs
<1> QED BY <1>3, <1>4, <1>9, <1>11, PutIs

(* The store that makes the entry reachable.                               *)
LEMMA PublishDict ==
  ASSUME NEW w, Writer = {w}, TableInv(w), TableInv(w)', Publish(w)
  PROVE  /\ ~Quiescent /\ ~Quiescent'
         /\ \/ Unmoved(w)
            \/ \E k \in Key : \E v : /\ put[w] = <<k, v>> /\ put' = [put EXCEPT ![w] = <<k>>]
                                 /\ dict' = [dict EXCEPT ![k] = v]
<1>0. w \in Thread
  BY ThreadAssumption
<1>1. /\ pc[w] = "walk" /\ Putting(w) /\ pc' = [pc EXCEPT ![w] = IF cur[w] = NULL THEN "count" ELSE "link"]
      /\ key' = key /\ value' = value /\ stack' = stack
  BY DEF Publish, Goto
<1>2. pc'[w] \in {"link", "count"} /\ Putting(w)' /\ Pending(w)
  BY <1>0, <1>1 DEF TableInv, IInv, TypeOK, Putting, Pending
<1>3. Outer(w)' = Outer(w)
  BY <1>1 DEF Outer
<1>4. /\ Len(stack[w]) \in {1, 2} /\ Ins(w) \in InUse /\ Stored' = Stored \cup {Ins(w)}
      /\ (Len(stack[w]) = 1 => Ins(w) \notin Stored) /\ (Len(stack[w]) = 2 => Ins(w) \in Stored)
  BY PublishSets DEF TableInv
<1>5. CASE Len(stack[w]) = 2
  <2>1. Pending(w)' /\ Stored' = Stored
    BY <1>1, <1>2, <1>4, <1>5 DEF Pending
  <2>2. Unmoved(w)
    BY <1>1, <1>2, <1>3, <2>1 DEF Unmoved
  <2> QED BY <1>1, <1>2, <2>2, PutIs
<1>6. CASE Len(stack[w]) = 1
  <2>1. ~Pending(w)' /\ Outer(w) = Ins(w)
    <3>1. Outer(w) = Ins(w)
      BY <1>0, <1>1, <1>6, TopFrame DEF Outer, TableInv
    <3> QED BY <1>1, <1>2, <1>6, <3>1 DEF Pending
  <2> DEFINE x == Ins(w)
  <2>2. key[x] \in Key
    BY <1>4, StoredKeys
  <2>3. Distinct(Stored', key)
    BY <1>1 DEF TableInv, TInv, Shape
  <2>4. dict' = [dict EXCEPT ![key[x]] = value[x]]
    <3>1. DictOf(Stored', key, value) = [DictOf(Stored, key, value) EXCEPT ![key[x]] = value[x]]
      <4>1. Stored' = Stored \cup {x} /\ x \in Stored'
        BY <1>4
      <4>2. PICK T : T = Stored'
        OBVIOUS
      <4> HIDE DEF x
      <4>3. OneMore(Stored, T, x, key, value, value)
        BY <2>2, <2>3, <4>1, <4>2 DEF OneMore
      <4>4. DictOf(T, key, value) = PutIn(DictOf(Stored, key, value), key[x], value[x])
        BY <4>3, DictPut
      <4> QED BY <4>2, <4>4 DEF PutIn
    <3> QED BY <1>1, <3>1, DictIs
  <2>5. Owes(w) = <<key[x], value[x]>> /\ Owes(w)' = <<key[x]>>
    BY <1>1, <1>2, <1>3, <2>1 DEF Owes
  <2>6. put[w] = <<key[x], value[x]>> /\ put' = [put EXCEPT ![w] = <<key[x]>>]
    BY <2>5, PutIs
  <2> HIDE DEF x
  <2> QED BY <1>1, <1>2, <2>2, <2>4, <2>6, PutIs
<1> QED BY <1>4, <1>5, <1>6

(* The put returns.                                                        *)
LEMMA CountDict ==
  ASSUME NEW w, Writer = {w}, TableInv(w), Count(w), Len(stack[w]) = 1
  PROVE  /\ ~Quiescent /\ dict' = dict
         /\ Len(put[w]) = 1 /\ put' = [put EXCEPT ![w] = << >>]
<1>0. w \in Thread
  BY ThreadAssumption
<1>1. /\ pc[w] = "count" /\ stack'[w] = Tail(stack[w]) /\ mem' = mem /\ key' = key /\ value' = value
      /\ Putting(w)
  BY <1>0 DEF Count, Return, Goto, nvars, TableInv, IInv, TypeOK, Placed
<1>2. ~Putting(w)'
  BY <1>1, Popped DEF TableInv
<1>3. ~Pending(w) /\ ~Pending(w)' /\ InUse' = InUse
  BY <1>1, <1>2 DEF Pending, InUse
<1>4. Stored' = Stored
  BY <1>3, StoredIs
<1>5. dict' = dict
  BY <1>1, <1>4, DictIs
<1>6. Owes(w) = <<key[Outer(w)]>> /\ Owes(w)' = << >>
  BY <1>1, <1>2, <1>3 DEF Owes
<1>7. Len(put[w]) = 1 /\ put' = [put EXCEPT ![w] = << >>]
  <2>1. \A a : Len(<<a>>) = 1
    OBVIOUS
  <2> QED BY <1>6, <2>1, PutIs
<1> QED BY <1>1, <1>5, <1>7, PutIs

(* The value of a key that is there is replaced, and the put returns.      *)
LEMMA ReplaceDict ==
  ASSUME NEW w, Writer = {w}, TableInv(w), Replace(w)
  PROVE  /\ ~Quiescent
         /\ \E k \in Key : \E v : /\ put[w] = <<k, v>> /\ put' = [put EXCEPT ![w] = << >>]
                              /\ dict' = [dict EXCEPT ![k] = v]
<1>0. w \in Thread
  BY ThreadAssumption
<1>1. /\ pc[w] = "walk" /\ Putting(w) /\ Usable(cur[w]) /\ key[cur[w]] = key[Ins(w)]
      /\ mem' = [mem EXCEPT ![Ins(w)] = "freed"] /\ stack' = [stack EXCEPT ![w] = Tail(@)]
      /\ key' = key /\ value' = [value EXCEPT ![cur[w]] = value[Ins(w)]]
  BY DEF Replace, Return, Target, NewValue
<1>2. Ins(w) \in Entry /\ NULL \notin Entry /\ key[Ins(w)] \in Key
  BY <1>0, <1>1, TopFrame, NullAssumption DEF TableInv
<1>3. /\ stack'[w] = Tail(stack[w])
      /\ \A e \in Entry : mem'[e] = IF e = Ins(w) THEN "freed" ELSE mem[e]
      /\ \A e \in Entry : value'[e] = IF e = cur[w] THEN value[Ins(w)] ELSE value[e]
  BY <1>0, <1>1, <1>2 DEF TableInv, IInv, TypeOK
<1>4. cur[w] \in Stored /\ cur[w] \in Hung(w)
  <2>1. cur[w] \in Bucket(w, idx[w]) /\ Bucket(w, idx[w]) \subseteq Stored
    BY <1>1, <1>2, WalkAt DEF Usable, TableInv
  <2> QED BY <2>1 DEF Bucket
<1>5. Len(stack[w]) = 1
  <2>1. CASE Len(stack[w]) = 2
    <3>1. Ins(w) \in Stored /\ Moving(w) = {Ins(w)}
      BY <1>1, <2>1 DEF TableInv, TInv, Reach, Moving, Hanging
    <3>2. cur[w] = Ins(w)
      BY <1>1, <1>4, <3>1, StoredKeys DEF Distinct
    <3> QED BY <1>4, <3>1, <3>2 DEF Hung
  <2> QED BY <1>1, <2>1, Depth DEF TableInv
<1>6. ~Putting(w)' /\ Pending(w) /\ ~Pending(w)' /\ Outer(w) = Ins(w)
  <2>1. ~Putting(w)'
    BY <1>1, <1>3, <1>5, Popped DEF TableInv
  <2>2. Outer(w) = Ins(w)
    BY <1>0, <1>1, <1>5, TopFrame DEF Outer, TableInv
  <2> QED BY <1>1, <2>1, <2>2 DEF Pending
<1>7. Stored = InUse \ {Ins(w)} /\ Stored' = Stored
  <2>1. Stored = InUse \ {Ins(w)}
    BY <1>6, StoredIs
  <2>2. Stored' = InUse'
    BY <1>6, StoredIs
  <2>3. InUse' = InUse \ {Ins(w)}
    BY <1>3 DEF InUse
  <2> QED BY <2>1, <2>2, <2>3
<1>8. dict' = [dict EXCEPT ![key[Ins(w)]] = value[Ins(w)]]
  <2> DEFINE x == cur[w]
             vl == value'
  <2>1. x \in Stored /\ key[x] \in Key /\ key[x] = key[Ins(w)] /\ Stored = Stored \cup {x}
    BY <1>1, <1>2, <1>4
  <2>2. (\A e \in Stored : e # x => vl[e] = value[e]) /\ vl[x] = value[Ins(w)]
    BY <1>3, <1>4 DEF Stored, InUse
  <2>3. Distinct(Stored, key)
    BY StoredKeys
  <2> HIDE DEF x, vl
  <2>4. DictOf(Stored, key, vl) = [DictOf(Stored, key, value) EXCEPT ![key[x]] = vl[x]]
    <3>1. OneMore(Stored, Stored, x, key, value, vl)
      BY <2>1, <2>2, <2>3, Zenon DEF OneMore
    <3>2. DictOf(Stored, key, vl) = PutIn(DictOf(Stored, key, value), key[x], vl[x])
      BY <3>1, DictPut
    <3> QED BY <3>2 DEF PutIn
  <2> QED BY <1>1, <1>7, <2>1, <2>2, <2>4, DictIs DEF vl
<1>9. Owes(w) = <<key[Ins(w)], value[Ins(w)]>> /\ Owes(w)' = << >>
  BY <1>1, <1>6 DEF Owes
<1>10. put[w] = <<key[Ins(w)], value[Ins(w)]>> /\ put' = [put EXCEPT ![w] = << >>]
  BY <1>9, PutIs
<1> QED BY <1>1, <1>2, <1>8, <1>10, PutIs
-----------------------------------------------------------------------------
(* The look-ups in progress.                                               *)

(* Where a get that met no put stands: in the bucket of its key, not past  *)
(* the entry it looks for.                                                 *)
Sighted(t) ==
  /\ pc[t] \in {"base", "head", "walk"} => idx[t] = Hash[want[t]] % size
  /\ pc[t] = "head" => base[t] = entries
  /\ pc[t] = "walk" =>
       /\ cur[t] = NULL \/ (cur[t] \in InUse /\ Hash[key[cur[t]]] % size = idx[t])
       /\ \A e \in InUse : key[e] = want[t] => cur[t] # NULL /\ key[cur[t]] <= key[e]

(* What is known of a get in progress, beside the table.                   *)
Asking(t) ==
  /\ t \notin Writer => ~Putting(t)
  /\ want[t] # NULL <=> pc[t] # "idle" /\ ~Putting(t)
  /\ want[t] # NULL => dict[want[t]] \in seen[t]
  /\ want[t] = NULL => seen[t] = {} /\ ~torn[t]
  /\ want[t] # NULL /\ ~Quiescent => torn[t]
  /\ want[t] # NULL /\ ~torn[t] => Sighted(t)

LookInv(w) ==
  /\ TableInv(w)
  /\ torn \in [Thread -> BOOLEAN] /\ seen = [t \in Thread |-> seen[t]]
  /\ \A t \in Thread : Asking(t)

(* The loads of a get, its return aside.                                   *)
Seeking(t) == Index(t) \/ Base(t) \/ HeadOf(t) \/ Advance(t)

(* A get under way goes on past what it does not look for.                 *)
LEMMA SightedKept ==
  ASSUME NEW w, Writer = {w}, TableInv(w), Quiescent, NEW t \in Thread, NEW s \in Thread,
         (\E k \in Key : Get(s, k)) \/ Seeking(s) \/ Answer(s) \/ Fault(s),
         ~Putting(t), want[t] # NULL, Sighted(t), want'[t] # NULL, pc[t] # "idle"
  PROVE  Sighted(t)'
<1>1. TypeOK /\ UNCHANGED <<mvars, avars, nvars, stack>>
  BY DEF Get, Seeking, Index, Base, HeadOf, Advance, Answer, Fault, TableInv, IInv
<1>2. /\ entries' = entries /\ size' = size /\ arr' = arr /\ live' = live
      /\ key' = key /\ next' = next /\ mem' = mem
      /\ InUse' = InUse /\ stack' = stack
  BY <1>1 DEF InUse, mvars, avars, nvars
<1>3. CASE s # t \/ Fault(s)
  <2>1. pc'[t] = pc[t] /\ idx'[t] = idx[t] /\ base'[t] = base[t] /\ cur'[t] = cur[t] /\ want'[t] = want[t]
    BY <1>1, <1>3 DEF Get, Seeking, Index, Base, HeadOf, Advance, Answer, Fault, Forget, Goto,
       lvars, gvars, TypeOK
  <2> QED BY <1>2, <2>1 DEF Sighted
<1>4. CASE s = t /\ ((\E k \in Key : Get(s, k)) \/ Answer(s))
  <2>1. want'[t] = NULL
    BY <1>1, <1>4 DEF Get, Answer, TypeOK
  <2> QED BY <2>1
<1>5. CASE s = t /\ Index(s)
  <2>1. pc'[t] = "base" /\ idx'[t] = Hash[want[t]] % size /\ want' = want
    BY <1>1, <1>5 DEF Index, Goto, Target, gvars, TypeOK
  <2> QED BY <1>2, <2>1 DEF Sighted
<1>6. CASE s = t /\ Base(s)
  <2>1. pc[t] = "base" /\ pc'[t] = "head" /\ idx' = idx /\ base'[t] = entries /\ want' = want
    BY <1>1, <1>6 DEF Base, Goto, gvars, TypeOK
  <2> QED BY <1>2, <2>1 DEF Sighted
<1> DEFINE j == Hash[want[t]] % size
           S == {e \in InUse : Hash[key[e]] % size = j}
<1>7. /\ live = {entries} /\ DOMAIN arr[entries] = 0..(size - 1)
      /\ Listed(arr[entries][j], S, next, key) /\ j \in 0..(size - 1)
      /\ \A e \in InUse : key[e] = want[t] => e \in S
      /\ \A e \in InUse : e \in Entry /\ key[e] \in Nat
      /\ want[t] \in Nat
  <2>1. want[t] \in Key /\ size \in Nat \ {0} /\ Hash[want[t]] \in Nat /\ want[t] \in Nat
    BY <1>1, KeyAssumption DEF TypeOK
  <2>2. j \in 0..(size - 1)
    <3>1. \A a \in Nat, b \in Nat \ {0} : a % b \in 0..(b - 1)
      OBVIOUS
    <3> QED BY <2>1, <3>1
  <2>3. \A e \in InUse : e \in Entry /\ key[e] \in Nat
    BY KeysOf DEF TableInv
  <2> HIDE DEF j
  <2>4. \A e \in InUse : key[e] = want[t] => e \in S
    BY DEF j
  <2> QED BY <2>1, <2>2, <2>3, <2>4, AtRest
<1> HIDE DEF j
<1>8. CASE s = t /\ HeadOf(s)
  <2>1. PICK p \in Load(base[t], idx[t]) :
          pc[t] = "head" /\ pc'[t] = "walk" /\ cur'[t] = p /\ idx' = idx /\ want' = want
    BY <1>1, <1>8 DEF HeadOf, Goto, gvars, TypeOK
  <2>2. base[t] = entries /\ idx[t] = j
    BY <2>1 DEF Sighted, j
  <2>3. First(arr[entries][j], S, key)
    BY <1>7 DEF Listed
  <2>4. arr[entries][j] # Junk
    <3>1. arr[entries][j] \in Entry \cup {NULL}
      BY <1>7, <2>3 DEF First
    <3> QED BY <3>1, NullAssumption
  <2>5. p = arr[entries][j]
    BY <1>7, <2>1, <2>2, <2>4 DEF Load
  <2>6. p = NULL \/ p \in S
    BY <2>3, <2>5 DEF First
  <2>7. ASSUME NEW e \in InUse, key[e] = want[t] PROVE p # NULL /\ key[p] <= key[e]
    <3>1. e \in S
      BY <1>7, <2>7
    <3>2. p \in S /\ key[p] <= key[e]
      BY <2>3, <2>5, <3>1 DEF First
    <3>3. p \in Entry
      BY <1>7, <3>2
    <3> QED BY <3>2, <3>3, NullAssumption
  <2>8. p = NULL \/ (p \in InUse /\ Hash[key[p]] % size = idx[t])
    BY <2>2, <2>6
  <2>9. idx'[t] = Hash[want'[t]] % size'
    BY <1>2, <2>1, <2>2 DEF j
  <2> HIDE DEF S
  <2> QED BY <1>2, <2>1, <2>7, <2>8, <2>9 DEF Sighted
<1>9. CASE s = t /\ Advance(s)
  <2>1. /\ pc[t] = "walk" /\ pc' = pc /\ cur[t] \in Entry /\ mem[cur[t]] = "used" /\ key[cur[t]] # want[t]
        /\ cur'[t] = next[cur[t]] /\ idx' = idx /\ want' = want
    BY <1>1, <1>9 DEF Advance, Usable, Passes, Target, Following, gvars, TypeOK
  <2>2. cur[t] \in InUse /\ cur[t] # NULL /\ idx[t] = j
    BY <2>1, NullAssumption DEF InUse, Sighted, j
  <2>3. cur[t] \in S
    BY <2>1, <2>2 DEF Sighted
  <2>4. First(next[cur[t]], {d \in S : key[cur[t]] < key[d]}, key)
    BY <1>7, <2>3 DEF Listed
  <2>5. next[cur[t]] = NULL \/ next[cur[t]] \in S
    BY <2>4 DEF First
  <2>6. ASSUME NEW e \in InUse, key[e] = want[t] PROVE next[cur[t]] # NULL /\ key[next[cur[t]]] <= key[e]
    <3>1. e \in S /\ key[cur[t]] <= key[e] /\ key[cur[t]] # key[e]
      BY <1>7, <2>1, <2>6 DEF Sighted
    <3>2. e \in {d \in S : key[cur[t]] < key[d]}
      BY <1>7, <2>2, <3>1
    <3>3. next[cur[t]] \in S /\ key[next[cur[t]]] <= key[e]
      BY <2>4, <3>2 DEF First
    <3>4. next[cur[t]] \in Entry
      BY <1>7, <3>3
    <3> QED BY <3>3, <3>4, NullAssumption
  <2>7. next[cur[t]] = NULL \/ (next[cur[t]] \in InUse /\ Hash[key[next[cur[t]]]] % size = idx[t])
    BY <2>2, <2>5
  <2>8. idx'[t] = Hash[want'[t]] % size'
    BY <1>2, <2>1, <2>2 DEF j
  <2> HIDE DEF S
  <2> QED BY <1>2, <2>1, <2>6, <2>7, <2>8 DEF Sighted
<1> QED BY <1>3, <1>4, <1>5, <1>6, <1>8, <1>9 DEF Seeking

(* After a step of a put its thread is in a put, or between two calls.     *)
LEMMA PutGoesOn ==
  ASSUME NEW w, Writer = {w}, TableInv(w), PutStep(w)
  PROVE  Putting(w) /\ (pc'[w] = "idle" \/ Putting(w)') /\ want' = want /\ res' = res
         /\ \A t \in Thread : t # w => pc'[t] = pc[t] /\ stack'[t] = stack[t]
<1>0. w \in Thread /\ TypeOK
  BY ThreadAssumption DEF TableInv, IInv
<1>1. Putting(w)
  BY <1>0 DEF PutStep, Publish, Link, Count, Replace, Check, Save, Grow, Resize, Alloc, Zero,
       Scan, Move, FreeOld, TableInv, IInv, Placed
<1>2. pc'[w] = "idle" \/ Putting(w)'
  <2>2. CASE Publish(w)
    <3>1. stack' = stack
      BY <2>2 DEF Publish
    <3> QED BY <1>1, <3>1 DEF Putting
  <2>3. CASE Replace(w) \/ (Count(w) /\ Len(stack[w]) # 2)
    <3>1. /\ stack' = [stack EXCEPT ![w] = Tail(@)]
          /\ pc' = [pc EXCEPT ![w] = IF Len(stack[w]) = 1 THEN "idle" ELSE "scan"]
      BY <2>3 DEF Replace, Count, Return, Goto
    <3>2. stack'[w] = Tail(stack[w]) /\ pc'[w] = IF Len(stack[w]) = 1 THEN "idle" ELSE "scan"
      BY <1>0, <3>1 DEF TypeOK
    <3> QED BY <1>1, <3>2, Popped DEF TableInv
  <2>4. CASE \/ Link(w) \/ Check(w) \/ Save(w) \/ Grow(w) \/ Resize(w) \/ Alloc(w) \/ Zero(w)
             \/ Scan(w) \/ Move(w) \/ FreeOld(w) \/ (Count(w) /\ Len(stack[w]) = 2)
    BY <2>4, MovesNothing DEF Unmoved, TableInv
  <2> QED BY <2>2, <2>3, <2>4 DEF PutStep
<1>5. want' = want /\ res' = res
  BY DEF PutStep, Publish, Link, Count, Replace, Check, Save, Grow, Resize, Alloc, Zero,
       Scan, Move, FreeOld, Return, gvars
<1>6. \A t \in Thread : t # w => pc'[t] = pc[t] /\ stack'[t] = stack[t]
  BY <1>0 DEF PutStep, Publish, Link, Count, Replace, Check, Save, Grow, Resize, Alloc, Zero,
       Scan, Move, FreeOld, Return, Goto, SetTop, TypeOK
<1> QED BY <1>1, <1>2, <1>5, <1>6

(* A thread that is idle is not in a put.                                  *)
LEMMA IdleNotPutting ==
  ASSUME NEW w, Writer = {w}, TableInv(w), pc[w] = "idle"
  PROVE  ~Putting(w)
BY Depth DEF TableInv, TInv, Phase

(* Where threads are in their calls.                                       *)
Calls(t) ==
  /\ t \notin Writer => ~Putting(t)
  /\ want[t] # NULL <=> pc[t] # "idle" /\ ~Putting(t)

LEMMA CallsKept ==
  ASSUME NEW w, Writer = {w}, TableInv(w), \A t \in Thread : Calls(t), Next
  PROVE  \A t \in Thread : Calls(t)'
<1>0. w \in Thread /\ TypeOK
  BY ThreadAssumption DEF TableInv, IInv
<1>1. ASSUME NEW k \in Key, NEW v \in Value, Put(w, k, v) PROVE \A t \in Thread : Calls(t)'
  <2>1. PICK e : stack' = [stack EXCEPT ![w] = <<Frame(e)>>]
    BY <1>1 DEF Put
  <2>2. /\ stack'[w] # << >> /\ want' = want /\ pc[w] = "idle"
        /\ \A t \in Thread : t # w => pc'[t] = pc[t] /\ stack'[t] = stack[t]
    BY <1>0, <1>1, <2>1 DEF Put, Goto, gvars, TypeOK
  <2> QED BY <1>0, <2>2 DEF Calls, Putting
<1>2. ASSUME NEW s \in Thread, NEW k \in Key, Get(s, k) PROVE \A t \in Thread : Calls(t)'
  <2>1. /\ pc[s] = "idle" /\ pc'[s] = "index" /\ want'[s] = k /\ stack' = stack /\ k # NULL
        /\ \A t \in Thread : t # s => pc'[t] = pc[t] /\ want'[t] = want[t]
    BY <1>0, <1>2, NullAssumption DEF Get, Goto, TypeOK
  <2>2. ~Putting(s)
    BY <2>1, IdleNotPutting DEF Calls
  <2> QED BY <2>1, <2>2 DEF Calls, Putting
<1>3. ASSUME NEW s \in Thread, Seeking(s) \/ Fault(s) PROVE \A t \in Thread : Calls(t)'
  <2>1. /\ stack' = stack /\ want' = want /\ (pc[s] # "idle" <=> pc'[s] # "idle")
        /\ \A t \in Thread : t # s => pc'[t] = pc[t]
    BY <1>0, <1>3 DEF Seeking, Index, Base, HeadOf, Advance, Fault, Goto, gvars, TypeOK
  <2> QED BY <2>1 DEF Calls, Putting
<1>4. ASSUME NEW s \in Thread, Answer(s) PROVE \A t \in Thread : Calls(t)'
  <2>1. /\ stack' = stack /\ want'[s] = NULL /\ pc'[s] = "idle"
        /\ \A t \in Thread : t # s => pc'[t] = pc[t] /\ want'[t] = want[t]
    BY <1>0, <1>4 DEF Answer, Goto, TypeOK
  <2> QED BY <2>1 DEF Calls, Putting
<1>5. ASSUME PutStep(w) PROVE \A t \in Thread : Calls(t)'
  BY <1>0, <1>5, PutGoesOn DEF Calls, Putting
<1> QED BY <1>1, <1>2, <1>3, <1>4, <1>5 DEF Next, Step, Seeking

(* What the history variables become.                                      *)
LEMMA History ==
  ASSUME NEW w, Writer = {w}, LookInv(w), HNext
  PROVE  /\ Next /\ torn' \in [Thread -> BOOLEAN] /\ seen' = [t \in Thread |-> seen'[t]]
         /\ \A t \in Thread :
              /\ want'[t] = NULL => seen'[t] = {} /\ ~torn'[t]
              /\ want'[t] # NULL /\ want[t] # NULL => seen'[t] = {dict'[want'[t]]} \cup seen[t]
              /\ want'[t] # NULL /\ want[t] = NULL => seen'[t] = {dict'[want'[t]]}
              /\ want'[t] # NULL => (torn'[t] <=> torn[t] \/ ~Quiescent')
<1>1. /\ seen' = [t \in Thread |-> IF want'[t] = NULL THEN {}
                  ELSE {dict'[want'[t]]} \cup (IF want[t] = NULL THEN {} ELSE seen[t])]
      /\ torn' = [t \in Thread |-> want'[t] # NULL /\ (torn[t] \/ ~Quiescent')] /\ Next
  BY DEF HNext
<1>2. torn' \in [Thread -> BOOLEAN] /\ seen' = [t \in Thread |-> seen'[t]]
  BY <1>1
<1>3. PICK q : q <=> Quiescent'
  OBVIOUS
<1>4. PICK d : d = dict'
  OBVIOUS
<1>5. ASSUME NEW t \in Thread
      PROVE  /\ want'[t] = NULL => seen'[t] = {} /\ ~torn'[t]
             /\ want'[t] # NULL /\ want[t] # NULL => seen'[t] = {d[want'[t]]} \cup seen[t]
             /\ want'[t] # NULL /\ want[t] = NULL => seen'[t] = {d[want'[t]]}
             /\ want'[t] # NULL => (torn'[t] <=> torn[t] \/ ~q)
  BY <1>1, <1>3, <1>4
<1> QED BY <1>1, <1>2, <1>3, <1>4, <1>5

(* The invariant of the look-ups is inductive.                             *)
LEMMA LookStep ==
  ASSUME NEW w, Writer = {w}, LookInv(w), HNext
  PROVE  LookInv(w)'
<1>1. TableInv(w) /\ Next /\ TableInv(w)'
  BY StepTable, History DEF LookInv
<1>2. \A t \in Thread : Calls(t) /\ Calls(t)'
  BY <1>1, CallsKept DEF LookInv, Asking, Calls
<1>3. ASSUME NEW t \in Thread, want'[t] # NULL, ~torn'[t] PROVE Sighted(t)'
  <2>1. Quiescent' /\ ~torn[t]
    BY <1>3, History
  <2>2. CASE want[t] = NULL
    <3>1. PICK k \in Key : Get(t, k)
      <4>1. ASSUME NEW k \in Key, NEW v \in Value, Put(w, k, v) PROVE want' = want
        BY <4>1 DEF Put, gvars
      <4>2. ASSUME NEW s \in Thread, Seeking(s) \/ Fault(s) PROVE want' = want
        BY <4>2 DEF Seeking, Index, Base, HeadOf, Advance, Fault, gvars
      <4>3. ASSUME NEW s \in Thread, Answer(s) \/ (s # t /\ \E k \in Key : Get(s, k))
            PROVE  want'[t] = NULL \/ want'[t] = want[t]
        BY <1>1, <4>3 DEF Answer, Get, TableInv, IInv, TypeOK
      <4>4. ASSUME PutStep(w) PROVE want' = want
        BY <1>1, <4>4, PutGoesOn
      <4> QED BY <1>1, <1>3, <2>2, <4>1, <4>2, <4>3, <4>4 DEF Next, Step, Seeking
    <3>2. pc'[t] = "index"
      BY <1>1, <3>1 DEF Get, Goto, TableInv, IInv, TypeOK
    <3> QED BY <3>2 DEF Sighted
  <2>3. CASE want[t] # NULL
    <3>1. Quiescent /\ Sighted(t) /\ ~Putting(t) /\ pc[t] # "idle"
      BY <1>2, <2>1, <2>3 DEF LookInv, Asking, Calls
    <3>2. ASSUME NEW k \in Key, NEW v \in Value, Put(w, k, v) PROVE FALSE
      <4>1. ~Quiescent'
        BY <1>1, <3>2, PutDict
      <4> QED BY <2>1, <4>1
    <3>3. ASSUME PutStep(w) PROVE FALSE
      <4>1. Putting(w)
        BY <1>1, <3>3, PutGoesOn
      <4> QED BY <3>1, <4>1, ThreadAssumption DEF Quiescent
    <3>4. PICK s \in Thread : (\E k \in Key : Get(s, k)) \/ Seeking(s) \/ Answer(s) \/ Fault(s)
      BY <1>1, <3>2, <3>3 DEF Next, Step, Seeking
    <3> QED BY <1>1, <1>3, <2>3, <3>1, <3>4, SightedKept
  <2> QED BY <2>2, <2>3
<1>4. ASSUME NEW t \in Thread PROVE Asking(t)'
  <2>1. want'[t] # NULL => dict'[want'[t]] \in seen'[t]
    BY History
  <2>2. want'[t] = NULL => seen'[t] = {} /\ ~torn'[t]
    BY History
  <2>3. want'[t] # NULL /\ ~Quiescent' => torn'[t]
    BY History
  <2> QED BY <1>2, <1>3, <2>1, <2>2, <2>3 DEF Asking, Calls
<1>5. torn' \in [Thread -> BOOLEAN] /\ seen' = [t \in Thread |-> seen'[t]]
  BY History
<1> QED BY <1>1, <1>4, <1>5 DEF LookInv
-----------------------------------------------------------------------------
(* Step by step.                                                           *)

(* A look-up that neither begins nor ends keeps what it has met; with no   *)
(* put taking effect, what its key had.                                    *)
LEMMA HistoryRests ==
  ASSUME NEW w, Writer = {w}, LookInv(w), HNext, NEW t \in Thread, want'[t] = want[t],
         (Quiescent' <=> Quiescent) \/ ~Quiescent
  PROVE  torn'[t] = torn[t] /\ (dict' = dict => seen'[t] = seen[t])
<1>1. /\ want[t] # NULL => dict[want[t]] \in seen[t]
      /\ want[t] = NULL => seen[t] = {} /\ ~torn[t]
      /\ want[t] # NULL /\ ~Quiescent => torn[t]
      /\ torn[t] \in BOOLEAN
  BY DEF LookInv, Asking
<1>2. torn'[t] \in BOOLEAN
  BY History
<1>3. torn'[t] <=> torn[t]
  <2>1. CASE want[t] = NULL
    BY <1>1, <2>1, History
  <2>2. CASE want[t] # NULL
    BY <1>1, <2>2, History
  <2> QED BY <2>1, <2>2
<1>4. ASSUME dict' = dict PROVE seen'[t] = seen[t]
  <2>1. CASE want[t] = NULL
    BY <1>1, <2>1, History
  <2>2. CASE want[t] # NULL
    <3>1. seen'[t] = {dict[want[t]]} \cup seen[t]
      BY <1>4, <2>2, History
    <3> QED BY <1>1, <2>2, <3>1
  <2> QED BY <2>1, <2>2
<1> QED BY <1>1, <1>2, <1>3, <1>4

(* So when no look-up begins or ends.                                      *)
LEMMA HistoriesRest ==
  ASSUME NEW w, Writer = {w}, LookInv(w), HNext, want' = want,
         (Quiescent' <=> Quiescent) \/ ~Quiescent
  PROVE  torn' = torn /\ (dict' = dict => seen' = seen)
<1>1. \A t \in Thread : torn'[t] = torn[t] /\ (dict' = dict => seen'[t] = seen[t])
  BY HistoryRests
<1>2. /\ torn \in [Thread -> BOOLEAN] /\ torn' \in [Thread -> BOOLEAN]
      /\ seen = [t \in Thread |-> seen[t]] /\ seen' = [t \in Thread |-> seen'[t]]
  BY History DEF LookInv
<1>3. torn' = torn
  BY <1>1, <1>2
<1>4. dict' = dict => seen' = seen
  BY <1>1, <1>2
<1> QED BY <1>3, <1>4

(* A step of a put that means nothing, or a load.                          *)
LEMMA QuietRefines ==
  ASSUME NEW w, Writer = {w}, LookInv(w), HNext, Unmoved(w), want' = want, res' = res, crashed' = crashed
  PROVE  UNCHANGED Regular!rvars
<1>1. dict' = dict /\ put' = put /\ (Quiescent' <=> Quiescent)
  BY UnmovedDict DEF LookInv
<1>2. torn' = torn /\ seen' = seen
  BY <1>1, HistoriesRest
<1> QED BY <1>1, <1>2 DEF Regular!rvars

(* hash_map_put is called.                                                 *)
LEMMA PutRefines ==
  ASSUME NEW w, Writer = {w}, LookInv(w), HNext, NEW k \in Key, NEW v \in Value, Put(w, k, v)
  PROVE  Regular!Begin(w, k, v)
<1>0. w \in Thread /\ TableInv(w) /\ TableInv(w)'
  BY ThreadAssumption, LookStep DEF LookInv
<1>1. dict' = dict /\ put[w] = << >> /\ ~Quiescent' /\ put' = [put EXCEPT ![w] = <<k, v>>]
  BY <1>0, PutDict
<1>2. want' = want /\ res' = res /\ crashed' = crashed /\ pc[w] = "idle"
  BY DEF Put, gvars
<1>3. want[w] = NULL
  BY <1>0, <1>2 DEF LookInv, Asking
<1>4. ASSUME NEW t \in Thread PROVE torn'[t] = (torn[t] \/ want[t] # NULL)
  <2>1. torn'[t] \in BOOLEAN /\ (want[t] = NULL => ~torn[t])
    BY History DEF LookInv, Asking
  <2>2. torn'[t] <=> (torn[t] \/ want[t] # NULL)
    BY <1>1, <1>2, <2>1, History
  <2> QED BY <2>1, <2>2
<1>5. torn' = [t \in Thread |-> torn[t] \/ want[t] # NULL]
  <2>1. torn' \in [Thread -> BOOLEAN]
    BY History
  <2> QED BY <1>4, <2>1
<1>6. seen' = seen
  <2>1. ASSUME NEW t \in Thread PROVE seen'[t] = seen[t]
    <3>1. CASE want[t] = NULL
      BY <1>2, <3>1, History DEF LookInv, Asking
    <3>2. CASE want[t] # NULL
      <4>1. seen'[t] = {dict[want[t]]} \cup seen[t]
        BY <1>1, <1>2, <3>2, History
      <4>2. dict[want[t]] \in seen[t]
        BY <3>2 DEF LookInv, Asking
      <4> QED BY <4>1, <4>2
    <3> QED BY <3>1, <3>2
  <2>2. seen = [t \in Thread |-> seen[t]] /\ seen' = [t \in Thread |-> seen'[t]]
    BY History DEF LookInv
  <2> QED BY <2>1, <2>2
<1> QED BY <1>1, <1>2, <1>3, <1>5, <1>6 DEF Regular!Begin

(* A get is called.                                                        *)
LEMMA GetRefines ==
  ASSUME NEW w, Writer = {w}, LookInv(w), HNext, NEW t \in Thread, NEW k \in Key, Get(t, k)
  PROVE  Regular!Ask(t, k)
<1>0. TableInv(w) /\ TypeOK /\ k # NULL
  BY NullAssumption DEF LookInv, TableInv, IInv
<1>1. /\ pc[t] = "idle" /\ want' = [want EXCEPT ![t] = k] /\ res' = [res EXCEPT ![t] = NULL]
      /\ crashed' = crashed /\ UNCHANGED <<mvars, avars, nvars, stack>>
      /\ want'[t] = k /\ \A x \in Thread : x # t => want'[x] = want[x]
  BY <1>0 DEF Get, TypeOK
<1>2. Unmoved(w)
  BY <1>0, Loads, LoadDict DEF TableInv
<1>3. dict' = dict /\ put' = put /\ (Quiescent' <=> Quiescent)
  BY <1>0, <1>2, UnmovedDict
<1>4. want[t] = NULL
  BY <1>1 DEF LookInv, Asking
<1>5. t \in Writer => put[t] = << >>
  <2>1. t = w => put[w] = << >>
    BY <1>0, <1>1, IdleNotPutting, PutIs DEF Owes
  <2> QED BY <2>1
<1>6. ASSUME NEW x \in Thread, x # t PROVE torn'[x] = torn[x] /\ seen'[x] = seen[x]
  BY <1>1, <1>3, <1>6, HistoryRests
<1>7. seen'[t] = {dict[k]} /\ (torn'[t] <=> ~Quiescent) /\ torn'[t] \in BOOLEAN
  <2>1. ~torn[t]
    BY <1>4 DEF LookInv, Asking
  <2> QED BY <1>0, <1>1, <1>3, <1>4, <2>1, History
<1>8. ~Quiescent <=> \E x \in Writer : put[x] # << >>
  BY PutIs
<1>9. /\ torn \in [Thread -> BOOLEAN] /\ torn' \in [Thread -> BOOLEAN]
      /\ seen = [x \in Thread |-> seen[x]] /\ seen' = [x \in Thread |-> seen'[x]]
  BY History DEF LookInv
<1>10. seen' = [seen EXCEPT ![t] = {dict[k]}]
  BY <1>6, <1>7, <1>9
<1>11. torn' = [torn EXCEPT ![t] = \E x \in Writer : put[x] # << >>]
  <2>1. PICK q \in BOOLEAN : q <=> \E x \in Writer : put[x] # << >>
    OBVIOUS
  <2>2. q = (\E x \in Writer : put[x] # << >>)
    BY <2>1
  <2>3. torn'[t] = q
    BY <1>7, <1>8, <2>1
  <2>4. torn' = [torn EXCEPT ![t] = q]
    BY <1>6, <1>9, <2>3
  <2> QED BY <2>2, <2>4
<1> QED BY <1>1, <1>3, <1>4, <1>5, <1>10, <1>11 DEF Regular!Ask

(* A put takes effect.                                                     *)
LEMMA CommitRefines ==
  ASSUME NEW w, Writer = {w}, LookInv(w), HNext, ~Quiescent, want' = want, res' = res, crashed' = crashed,
         NEW k \in Key, NEW v, NEW p \in {<< >>, <<k>>}, put[w] = <<k, v>>,
         put' = [put EXCEPT ![w] = p], dict' = [dict EXCEPT ![k] = v]
  PROVE  Regular!Commit(w)
<1>1. torn' = torn
  BY HistoriesRest
<1>2. ASSUME NEW t \in Thread PROVE seen'[t] = IF want[t] = k THEN seen[t] \cup {v} ELSE seen[t]
  <2>0. want[t] \in Key \cup {NULL} /\ k # NULL
    BY NullAssumption DEF LookInv, TableInv, IInv, TypeOK
  <2>1. CASE want[t] = NULL
    BY <2>0, <2>1, History DEF LookInv, Asking
  <2>2. CASE want[t] # NULL
    <3>1. seen'[t] = {dict'[want[t]]} \cup seen[t] /\ dict[want[t]] \in seen[t]
      BY <2>2, History DEF LookInv, Asking
    <3>2. DOMAIN dict = Key
      BY DEF dict
    <3>3. dict'[want[t]] = IF want[t] = k THEN v ELSE dict[want[t]]
      BY <2>0, <2>2, <3>2
    <3> QED BY <3>1, <3>3
  <2> QED BY <2>1, <2>2
<1>3. seen' = [t \in Thread |-> IF want[t] = k THEN seen[t] \cup {v} ELSE seen[t]]
  BY <1>2, History
<1>4. PICK q : q = put[w]
  OBVIOUS
<1>5. q = <<k, v>> /\ Len(q) = 2 /\ q[1] = k /\ q[2] = v
  BY <1>4
<1> QED BY <1>1, <1>3, <1>4, <1>5 DEF Regular!Commit

(* The steps of a put.                                                     *)
LEMMA PutStepRefines ==
  ASSUME NEW w, Writer = {w}, LookInv(w), HNext, PutStep(w)
  PROVE  Regular!Commit(w) \/ Regular!End(w) \/ UNCHANGED Regular!rvars
<1>0. w \in Thread /\ TableInv(w) /\ TableInv(w)' /\ IInv /\ TInv(w)
  BY ThreadAssumption, LookStep DEF LookInv, TableInv
<1>1. want' = want /\ res' = res /\ crashed' = crashed
  BY DEF PutStep, Publish, Link, Count, Replace, Check, Save, Grow, Resize, Alloc, Zero, Scan, Move,
     FreeOld, gvars
<1>2. CASE Publish(w)
  <2>1. ~Quiescent
    BY <1>0, <1>2, PublishDict
  <2>2. CASE Unmoved(w)
    BY <1>0, <1>1, <2>2, QuietRefines
  <2>3. CASE \E k \in Key : \E v : /\ put[w] = <<k, v>> /\ put' = [put EXCEPT ![w] = <<k>>]
                                   /\ dict' = [dict EXCEPT ![k] = v]
    <3>1. PICK k \in Key : \E v : /\ put[w] = <<k, v>> /\ put' = [put EXCEPT ![w] = <<k>>]
                                 /\ dict' = [dict EXCEPT ![k] = v]
      BY <2>3
    <3>2. PICK v : /\ put[w] = <<k, v>> /\ put' = [put EXCEPT ![w] = <<k>>]
                   /\ dict' = [dict EXCEPT ![k] = v]
      BY <3>1
    <3> QED BY <1>1, <2>1, <3>2, CommitRefines
  <2> QED BY <1>0, <1>2, <2>2, <2>3, PublishDict
<1>3. CASE Replace(w)
  <2>1. PICK k \in Key : \E v : /\ put[w] = <<k, v>> /\ put' = [put EXCEPT ![w] = << >>]
                               /\ dict' = [dict EXCEPT ![k] = v]
    BY <1>0, <1>3, ReplaceDict
  <2>2. PICK v : /\ put[w] = <<k, v>> /\ put' = [put EXCEPT ![w] = << >>]
                 /\ dict' = [dict EXCEPT ![k] = v]
    BY <2>1
  <2>3. ~Quiescent
    BY <1>0, <1>3, ReplaceDict
  <2> QED BY <1>1, <2>2, <2>3, CommitRefines
<1>4. CASE Count(w) /\ Len(stack[w]) # 2
  <2>1. Len(stack[w]) = 1
    BY <1>0, <1>4, PutGoesOn, Depth
  <2>2. ~Quiescent /\ dict' = dict /\ Len(put[w]) = 1 /\ put' = [put EXCEPT ![w] = << >>]
    BY <1>0, <1>4, <2>1, CountDict
  <2>3. torn' = torn /\ seen' = seen
    BY <1>1, <2>2, HistoriesRest
  <2> QED BY <1>1, <2>2, <2>3 DEF Regular!End
<1>5. CASE \/ Link(w) \/ Check(w) \/ Save(w) \/ Grow(w) \/ Resize(w) \/ Alloc(w) \/ Zero(w)
           \/ Scan(w) \/ Move(w) \/ FreeOld(w) \/ (Count(w) /\ Len(stack[w]) = 2)
  BY <1>0, <1>1, <1>5, MovesNothing, QuietRefines
<1> QED BY <1>2, <1>3, <1>4, <1>5 DEF PutStep

(* A get returns.                                                          *)
LEMMA AnswerRefines ==
  ASSUME NEW w, Writer = {w}, LookInv(w), HNext, NEW t \in Thread, Answer(t)
  PROVE  Regular!Reply(t)
<1>0. TableInv(w) /\ TypeOK /\ TInv(w) /\ IInv
  BY DEF LookInv, TableInv, IInv
<1>1. /\ pc[t] = "walk" /\ ~Putting(t) /\ want' = [want EXCEPT ![t] = NULL] /\ crashed' = crashed
      /\ want'[t] = NULL /\ \A x \in Thread : x # t => want'[x] = want[x]
  BY <1>0 DEF Answer, TypeOK
<1>2. want[t] # NULL /\ want[t] \in Key
  BY <1>0, <1>1 DEF LookInv, Asking, TypeOK
<1>3. dict' = dict /\ put' = put /\ (Quiescent' <=> Quiescent)
  <2>1. Unmoved(w)
    BY <1>0, Loads, LoadDict
  <2> QED BY <1>0, <2>1, UnmovedDict
<1>4. dict[want[t]] \in seen[t]
  BY <1>2 DEF LookInv, Asking
<1>5. \E v \in seen[t] \cup (IF torn[t] THEN {NULL} ELSE {}) : res' = [res EXCEPT ![t] = v]
  <2>1. CASE cur[t] = NULL /\ res' = [res EXCEPT ![t] = NULL] /\ torn[t]
    BY <2>1
  <2>2. CASE cur[t] = NULL /\ res' = [res EXCEPT ![t] = NULL] /\ ~torn[t]
    <3>1. Sighted(t)
      BY <1>2, <2>2 DEF LookInv, Asking
    <3>2. \A e \in InUse : key[e] # want[t]
      BY <1>1, <2>2, <3>1 DEF Sighted
    <3>3. \A e \in Stored : key[e] # want[t]
      BY <3>2 DEF Stored
    <3>4. dict[want[t]] = NULL
      BY <1>0, <1>2, <3>3, StoredKeys, DictAt, DictIs
    <3> QED BY <1>4, <2>2, <3>4
  <2>3. CASE Usable(cur[t]) /\ key[cur[t]] = want[t] /\ res' = [res EXCEPT ![t] = value[cur[t]]]
    <3>1. cur[t] \in Stored
      BY <1>0, <2>3 DEF TInv, Reach, Usable
    <3>2. dict[want[t]] = value[cur[t]]
      BY <1>0, <1>2, <2>3, <3>1, StoredKeys, DictAt, DictIs
    <3> QED BY <1>4, <2>3, <3>2
  <2> QED BY <2>1, <2>2, <2>3 DEF Answer
<1>6. ASSUME NEW x \in Thread, x # t PROVE torn'[x] = torn[x] /\ seen'[x] = seen[x]
  BY <1>1, <1>3, <1>6, HistoryRests
<1>7. seen'[t] = {} /\ torn'[t] = FALSE
  <2>1. torn'[t] \in BOOLEAN
    BY History
  <2> QED BY <1>1, <2>1, History
<1>8. seen' = [seen EXCEPT ![t] = {}] /\ torn' = [torn EXCEPT ![t] = FALSE]
  <2>1. /\ torn \in [Thread -> BOOLEAN] /\ torn' \in [Thread -> BOOLEAN]
        /\ seen = [x \in Thread |-> seen[x]] /\ seen' = [x \in Thread |-> seen'[x]]
    BY History DEF LookInv
  <2>2. seen' = [seen EXCEPT ![t] = {}]
    BY <1>6, <1>7, <2>1
  <2>3. torn' = [torn EXCEPT ![t] = FALSE]
    BY <1>6, <1>7, <2>1
  <2> QED BY <2>2, <2>3
<1> QED BY <1>1, <1>2, <1>3, <1>5, <1>8 DEF Regular!Reply

(* A thread follows a pointer it should not: a get that met a put.         *)
LEMMA FaultRefines ==
  ASSUME NEW w, Writer = {w}, LookInv(w), HNext, NEW t \in Thread, Fault(t)
  PROVE  Regular!Crash(t)
<1>0. TableInv(w) /\ TypeOK /\ TInv(w) /\ IInv
  BY DEF LookInv, TableInv, IInv
<1>1. Faulty(t) /\ crashed' = TRUE /\ want' = want /\ res' = res
  BY DEF Fault, gvars
<1>2. t # w /\ ~Putting(t)
  BY <1>0, <1>1, WriterSafe DEF LookInv, Asking
<1>3. pc[t] = "walk" /\ Bad(cur[t])
  BY <1>0, <1>1, <1>2 DEF Faulty, IInv, Placed
<1>4. want[t] # NULL
  BY <1>2, <1>3 DEF LookInv, Asking
<1>5. torn[t]
  <2>1. ASSUME ~torn[t] PROVE FALSE
    <3>1. Sighted(t)
      BY <1>4, <2>1 DEF LookInv, Asking
    <3> QED BY <1>3, <3>1 DEF Sighted, Bad, Usable, InUse
  <2> QED BY <2>1
<1>6. dict' = dict /\ put' = put /\ (Quiescent' <=> Quiescent)
  <2>1. Unmoved(w)
    BY <1>0, Loads, LoadDict
  <2> QED BY <1>0, <2>1, UnmovedDict
<1>7. torn' = torn /\ seen' = seen
  BY <1>1, <1>6, HistoriesRest
<1> QED BY <1>1, <1>5, <1>6, <1>7 DEF Regular!Crash

(* Every step of the table is one of the abstract map, or none.            *)
LEMMA StepRefines ==
  ASSUME NEW w, Writer = {w}, LookInv(w), HNext
  PROVE  [Regular!Next]_(Regular!rvars)
<1>0. Next /\ ~crashed /\ TableInv(w) /\ IInv /\ TInv(w)
  BY DEF HNext, Next, LookInv, TableInv
<1>1. ASSUME NEW k \in Key, NEW v \in Value, Put(w, k, v) PROVE Regular!Next
  BY <1>0, <1>1, PutRefines DEF Regular!Next
<1>2. ASSUME NEW t \in Thread, NEW k \in Key, Get(t, k) PROVE Regular!Next
  BY <1>0, <1>2, GetRefines DEF Regular!Next
<1>3. ASSUME NEW t \in Thread, Seeking(t) PROVE UNCHANGED Regular!rvars
  <2>1. want' = want /\ res' = res /\ crashed' = crashed
    BY <1>3 DEF Seeking, Index, Base, HeadOf, Advance, gvars
  <2>2. Unmoved(w)
    BY <1>0, <1>3, Loads, LoadDict DEF Seeking
  <2> QED BY <2>1, <2>2, QuietRefines
<1>4. ASSUME NEW t \in Thread, Answer(t) PROVE Regular!Next
  BY <1>0, <1>4, AnswerRefines DEF Regular!Next
<1>5. ASSUME NEW t \in Thread, Fault(t) PROVE Regular!Next
  BY <1>0, <1>5, FaultRefines DEF Regular!Next
<1>6. ASSUME PutStep(w) PROVE [Regular!Next]_(Regular!rvars)
  BY <1>0, <1>6, PutStepRefines DEF Regular!Next
<1> QED BY <1>0, <1>1, <1>2, <1>3, <1>4, <1>5, <1>6 DEF Next, Step, Seeking

(* With one writer the table is a dictionary: a get answers a value its key *)
(* had while it ran, and misses a stored key, or brings the process down,  *)
(* only if it met a put; a put takes effect at one moment; a rehash none.  *)
THEOREM TableImplementsRegularMap ==
  ASSUME NEW w, Writer = {w}
  PROVE  HSpec => ImplementsRegularMap
<1>1. HInit => LookInv(w) /\ Regular!Init
  <2> SUFFICES ASSUME HInit PROVE LookInv(w) /\ Regular!Init
    OBVIOUS
  <2>0. /\ Init /\ w \in Thread
        /\ stack = [t \in Thread |-> << >>] /\ pc = [t \in Thread |-> "idle"]
        /\ want = [t \in Thread |-> NULL] /\ res = [t \in Thread |-> NULL] /\ crashed = FALSE
        /\ seen = [t \in Thread |-> {}] /\ torn = [t \in Thread |-> FALSE]
        /\ mem = [e \in Entry |-> "fresh"]
    BY ThreadAssumption DEF HInit, Init
  <2>1. TableInv(w)
    BY <2>0, InitInv, InitTable DEF TableInv, Looking, Asked
  <2>2. \A t \in Thread : ~Putting(t)
    BY <2>0 DEF Putting
  <2>3. LookInv(w)
    BY <2>0, <2>1, <2>2 DEF LookInv, Asking
  <2>4. Stored = {}
    BY <2>0 DEF Stored, InUse
  <2>5. dict = [k \in Key |-> NULL]
    BY <2>4 DEF dict
  <2>6. put = [x \in Writer |-> << >>]
    BY <2>0, <2>2 DEF put
  <2> QED BY <2>0, <2>3, <2>5, <2>6 DEF Regular!Init
<1>2. LookInv(w) /\ [HNext]_hvars => LookInv(w)' /\ [Regular!Next]_(Regular!rvars)
  <2>1. ASSUME LookInv(w), HNext PROVE LookInv(w)' /\ [Regular!Next]_(Regular!rvars)
    BY <2>1, LookStep, StepRefines
  <2>2. ASSUME LookInv(w), UNCHANGED hvars PROVE LookInv(w)' /\ [Regular!Next]_(Regular!rvars)
    <3>1. /\ UNCHANGED vars /\ seen' = seen /\ torn' = torn
          /\ key' = key /\ value' = value /\ next' = next /\ mem' = mem /\ size' = size /\ entries' = entries
          /\ stack' = stack /\ pc' = pc /\ idx' = idx /\ base' = base /\ cur' = cur
          /\ want' = want /\ res' = res /\ crashed' = crashed
      BY <2>2 DEF hvars, vars, mvars, nvars, gvars, lvars
    <3>2. TableInv(w)'
      <4>1. IInv' /\ TInv(w)'
        BY <2>2, <3>1, StutterInv, StutterTable DEF TableInv, LookInv
      <4>2. Looking(w)' /\ Asked(w)'
        BY <2>2, <3>1, ElsewhereLooking, AskedStays DEF TableInv, vars, lvars, LookInv
      <4> QED BY <4>1, <4>2 DEF TableInv
    <3>3. (Quiescent' <=> Quiescent) /\ InUse' = InUse /\ \A t : Putting(t)' <=> Putting(t)
      BY <3>1 DEF Quiescent, Putting, InUse
    <3>4. Unmoved(w)
      <4>1. Stored' = Stored /\ (Pending(w)' <=> Pending(w)) /\ Outer(w)' = Outer(w)
        BY <3>1, <3>3 DEF Stored, Pending, Outer, Putting
      <4> QED BY <3>1, <3>3, <4>1 DEF Unmoved
    <3>5. dict' = dict /\ put' = put
      BY <2>2, <3>4, UnmovedDict DEF LookInv
    <3>6. \A t \in Thread : Sighted(t)' <=> Sighted(t)
      BY <3>1, <3>3 DEF Sighted
    <3>7. LookInv(w)'
      BY <2>2, <3>1, <3>2, <3>3, <3>5, <3>6 DEF LookInv, Asking
    <3> QED BY <3>1, <3>5, <3>7 DEF Regular!rvars
  <2> QED BY <2>1, <2>2
<1> QED BY <1>1, <1>2, PTL DEF HSpec, ImplementsRegularMap, Regular!Spec
==============================================================================
