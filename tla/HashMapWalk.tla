----------------------------- MODULE HashMapWalk -----------------------------
(***************************************************************************)
(* HashMap with the two operations that run over a whole table: list_func  *)
(* of the console, by hash_map_get_iterator, while another thread puts and *)
(* rehashes; and destroy_hash_map, by main, when no thread is left.        *)
(*                                                                         *)
(* The iterator tests a pointer and loads it again to use it, so the two   *)
(* loads are two steps and the second may find something else.             *)
(***************************************************************************)
EXTENDS HashMap, Integers

VARIABLES
  doing,   \* what the walk does next; "idle" before and after, "gone" once
           \* the table is destroyed
  i,       \* the slot of the walk: it->index, and the loop variable
  entry,   \* it->entry; the loop variable of destroy_hash_map
  frees,   \* what destroy_hash_map is to free besides: "key", "value"
  stray,   \* the entries whose value is no block malloc gave
  (* history *)
  met,     \* a put was in progress at some time during this walk
  listed,  \* while ~met: the keys printed so far
  doomed,  \* the entries of the table when its destruction began
  freed    \* the keys and values freed since, as <<"key", entry>>, ...

wvars  == <<doing, i, entry, met, listed>>
dvars  == <<frees, stray, doomed, freed>>
wlvars == <<vars, wvars, dvars>>

WInit ==
  /\ Init
  /\ doing = "idle" /\ i = -1 /\ entry = NULL /\ listed = << >> /\ met = FALSE
  /\ frees = {} /\ stray = {} /\ doomed = {} /\ freed = {}

Destroying == doing \in {"bucket", "free", "gone"}
Walking    == ~Destroying /\ doing # "idle"

(* What the walks load and compare.  Some are preceded by a slip one could *)
(* make in the code; a property below catches each.                        *)

(* it->index of a new iterator                                             *)
FirstIndexZero == 0
FirstIndex     == -1

(* map->entries[i] != NULL                                                 *)
NoTest(p) == TRUE
Found(p)  == p # NULL

(* it->entry = it->entry->next                                             *)
SameEntry   == entry
NextInChain == next[entry]

(* temp = entry->next; with entry = NULL for a loop that stops too early   *)
NoRest == NULL
Rest   == next[entry]

(* if (free_keys), if (free_vals); without the tests                       *)
Everything == {"key", "value"}
AsTold == frees

(* The other threads; what they do is HashMap.                             *)
Others ==
  /\ ~Destroying
  /\ Next
  /\ met' = (met \/ (Walking /\ ~Quiescent'))
  /\ listed' = IF met' THEN << >> ELSE listed
  /\ UNCHANGED <<doing, i, entry, dvars>>

(* hash_map_get_iterator(map, NULL).                                       *)
Begin ==
  /\ doing = "idle"
  /\ doing' = "scan" /\ i' = FirstIndex + 1 /\ entry' = NULL
  /\ listed' = << >> /\ met' = ~Quiescent
  /\ UNCHANGED <<vars, dvars>>

(* while (i < map->size); after it the iterator is freed.                  *)
ScanSlots ==
  /\ doing = "scan"
  /\ IF i < size
     THEN doing' = "peek" /\ UNCHANGED <<i, entry, met, listed>>
     ELSE doing' = "idle" /\ i' = -1 /\ entry' = NULL /\ met' = FALSE /\ listed' = << >>
  /\ UNCHANGED <<vars, dvars>>

Peek ==
  /\ doing = "peek"
  /\ \E p \in Load(entries, i) :
       IF Found(p) THEN doing' = "take" /\ UNCHANGED i
                   ELSE doing' = "scan" /\ i' = i + 1
  /\ UNCHANGED <<vars, entry, listed, met, dvars>>

Take ==
  /\ doing = "take"
  /\ \E p \in Load(entries, i) : entry' = p
  /\ doing' = "print"
  /\ UNCHANGED <<vars, i, listed, met, dvars>>

(* list_func prints it->entry->key and it->entry->value.                   *)
PrintEntry ==
  /\ doing = "print" /\ Usable(entry)
  /\ listed' = IF met THEN << >> ELSE Append(listed, key[entry])
  /\ doing' = "next"
  /\ UNCHANGED <<vars, i, entry, met, dvars>>

(* if (it->entry->next != NULL)                                            *)
HasNext ==
  /\ doing = "next" /\ Usable(entry)
  /\ IF next[entry] = NULL THEN doing' = "scan" /\ i' = i + 1
                           ELSE doing' = "follow" /\ UNCHANGED i
  /\ UNCHANGED <<vars, entry, listed, met, dvars>>

(* it->entry = it->entry->next                                             *)
Follow ==
  /\ doing = "follow" /\ Usable(entry)
  /\ entry' = NextInChain
  /\ doing' = "print"
  /\ UNCHANGED <<vars, i, listed, met, dvars>>

(* A pointer that leads to no entry stops the process.                     *)
WalkFault ==
  /\ doing \in {"print", "next", "follow"} /\ ~Usable(entry)
  /\ crashed' = TRUE
  /\ UNCHANGED <<mvars, avars, nvars, pc, gvars, stack, lvars, wvars, dvars>>
-----------------------------------------------------------------------------
(* destroy_hash_map(m, free_keys, free_vals), in main after the joins: no  *)
(* call is in progress.  Which values are blocks of malloc is the caller's *)
(* affair and matters only now: those of domain_to_token are, those of     *)
(* token_to_ip point into a stack, those of tokens are the number 1.       *)
BeginDestroy ==
  /\ doing = "idle" /\ \A t \in Thread : pc[t] = "idle"
  /\ doing' = "bucket" /\ i' = 0 /\ entry' = NULL
  /\ frees' \in SUBSET {"key", "value"} /\ stray' \in SUBSET InUse
  /\ doomed' = InUse /\ freed' = {}
  /\ UNCHANGED <<vars, listed, met>>

DestroyBucket ==
  /\ doing = "bucket" /\ i < size
  /\ \E p \in Load(entries, i) : entry' = p
  /\ i' = i + 1
  /\ doing' = "free"
  /\ UNCHANGED <<vars, listed, met, dvars>>

EndOfBucket ==
  /\ doing = "free" /\ entry = NULL
  /\ doing' = "bucket"
  /\ UNCHANGED <<vars, i, entry, listed, met, dvars>>

(* One entry of the chain: its next is read before it is freed, and its    *)
(* key and value are freed as the flags say.                               *)
DestroyEntry ==
  /\ doing = "free" /\ Usable(entry)
  /\ freed' = freed \cup (AsTold \X {entry})
  /\ mem' = [mem EXCEPT ![entry] = "freed"]
  /\ entry' = Rest
  /\ UNCHANGED <<mvars, avars, key, value, next, pc, gvars, stack, lvars, crashed,
                 doing, i, listed, met, frees, stray, doomed>>

(* A pointer that leads to no entry, or a free of what malloc did not give *)
(* or of what is free already, stops the process; or the free is not       *)
(* noticed, and that is DestroyEntry.                                      *)
DestroyFault ==
  /\ doing = "free"
  /\ \/ Bad(entry)
     \/ /\ Usable(entry)
        /\ \/ "value" \in AsTold /\ entry \in stray
           \/ (AsTold \X {entry}) \cap freed # {}
  /\ crashed' = TRUE
  /\ UNCHANGED <<mvars, avars, nvars, pc, gvars, stack, lvars, wvars, dvars>>

DestroyTable ==
  /\ doing = "bucket" /\ i = size
  /\ live' = live \ {entries}
  /\ doing' = "gone"
  /\ UNCHANGED <<mvars, arr, nvars, pc, gvars, stack, lvars, crashed, i, entry, listed, met,
                 dvars>>

ListStep == ScanSlots \/ Peek \/ Take \/ PrintEntry \/ HasNext \/ Follow \/ WalkFault
Destroy  == \/ BeginDestroy \/ DestroyBucket \/ EndOfBucket \/ DestroyEntry \/ DestroyFault
            \/ DestroyTable

WNext == ~crashed /\ (Others \/ Begin \/ ListStep \/ Destroy)

WSpec == WInit /\ [][WNext]_wlvars /\ WF_wlvars(ListStep)
-----------------------------------------------------------------------------
(* Properties.                                                             *)

(* HashMap's properties of the shape of the table hold until main destroys *)
(* it: between two puts every entry in its bucket, the count exact, one    *)
(* array live.                                                             *)
InPlaceTillDestroyed == ~Destroying => EveryEntryInPlace
CountTillDestroyed   == ~Destroying => CountExact

(* A list that met no put prints every stored key once, and none twice.    *)
QuietListExact ==
  [][(doing = "scan" /\ doing' = "idle" /\ ~met) =>
       /\ {listed[n] : n \in DOMAIN listed} = {key[e] : e \in InUse}
       /\ Len(listed) = Cardinality(InUse)]_wlvars

(* Whatever puts and rehashes a list meets, it stands on no freed entry,   *)
(* and only one that met a put can stand on anything but an entry.         *)
ListStandsOnEntries ==
  doing \in {"print", "next", "follow"} =>
    /\ entry \in Entry => Usable(entry)
    /\ entry \notin Entry => met

(* A list ends, though the table may grow and entries move ahead of it:    *)
(* it cannot go round in a chain, and the slots only count up.             *)
ListEnds == Walking ~> (~Walking \/ crashed)

(* The destruction frees every entry once and the array, and with each     *)
(* entry its key and its value if and only if it was told to.  It brings   *)
(* the process down only if it was told to free values and one of them is  *)
(* no block of malloc: as main does with token_to_ip.                      *)
DestroyFreesAll ==
  /\ doing = "gone" => InUse = {} /\ live = {} /\ freed = frees \X doomed
  /\ Destroying /\ crashed => "value" \in frees /\ stray # {}
==============================================================================
