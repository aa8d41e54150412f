# OpenDDNS in TLA+

OpenDDNS is a dynamic DNS server in C. An operator registers domains with tokens
at the server's console; a client that connects over TCP and sends a token binds
the address it connects from to that token; resolvers ask over UDP for a domain
and get the address bound to its token. One process does all of this with three
threads that share hash maps and take no lock anywhere.

This directory holds TLA+ models of the server, the TLC configurations that check
them, and proofs checked by TLAPS. Paths below are relative to the repository.

## 1. Inventory

| part | source | state it keeps | operations | talks to |
|---|---|---|---|---|
| hash map | `src/server/c/map/hash_map.c` | `size`, `nentries`, the bucket array, chained entries | put, get, rehash, iterate, destroy | called by every thread, through the maps |
| domain and token maps | `src/server/c/map/dns_map.c` | `domain_to_token`, `token_to_ip`, `tokens`; two open files | create (reads the files), put token, put address, look-ups, destroy | hash map, stdio |
| server process | `src/server/c/main.c` | `finished`, the map, the files | start the threads, join them, tear down | all |
| console thread | `src/server/c/threads/console_thread.c`, `src/common/c/console.c` | line buffer | `register`, `stop`, `list` | maps, `finished` |
| binding thread | `src/server/c/threads/binding_thread.c` | listening socket, `client_addr` | accept, receive a token, bind | maps, clients |
| DNS thread | `src/server/c/threads/dns_thread.c` | UDP socket, one datagram | receive, answer, send | maps, resolvers, codec |
| DNS answers | `src/server/c/dns/answer.c` | none of its own | `make_reply`, `get_ip` | maps, messages |
| DNS codec | `src/server/c/dns/codec.c` | read position, remaining size | read, size, write | messages |
| DNS messages | `src/server/c/dns/message.c` | heap blocks of a message | free, print | - |
| binding client | `src/client/c/main.c` | a socket | connect, send the token, read the response | binding thread |
| codec test, build files | `src/test`, Makefiles | - | - | - |

**What is hard in it.** The console and the binding thread write maps that all
threads read, with a rehash that empties the table and refills it entry by entry.
Registrations go to a stdio buffer that only an orderly end of the process writes
out. Every binding is a pointer to one stack variable of the accept loop. The
blocking calls do not see `finished`. A failing socket call in the DNS thread
ends the process from there; in the binding thread a failing `accept` ends only
the thread, with its socket left open to clients nobody will serve. Half a record
at the end of the file is where the next process appends. The DNS code shares sub-structures between question
and reply, returns a pointer it may not have set, and finds out that it has read
past the end of a datagram only when it is done.

**What makes each part correct.**

* Hash map: one thread alone gets a well-formed table; with one writer, a reader
  is told only values the key had, and no freed memory is reached; whatever the
  number of writers, no chain becomes a circle.
* Maps and files: a reported registration is usable, unless two puts of tokens
  overlap, and, if the process ends in order, in the file; a crash loses a suffix
  of the registrations and nothing else.
* Process: the maps are destroyed when nobody uses them; `stop` is obeyed after
  at most one more request per service.
* Answers: no address for a domain nobody bound; no reply without error that
  leaves a question unanswered.
* Console: what is executed is what was typed, or the rest of a line too long.
* Client: a response means what its text says, and a client that got a
  connection comes to an end.
* Codec and messages: a message is read as it was written, a cut one is dropped,
  the buffer is exactly as large as what is written, each block is freed once at
  most, and no list of elements or labels stays behind.

## 2. The modules

| module | models | extends |
|---|---|---|
| `HashMap` | `hash_map.c`: put, get, rehash by any number of threads | |
| `HashMapLookups` | the same with the history of look-ups in progress, and the refinement | `HashMap` |
| `RegularMap` | the abstract dictionary readers and the one writer can rely on | |
| `HashMapWalk` | `list` over a table that others change, and `destroy_hash_map` | `HashMap` |
| `TokensMap` | the map `tokens` with its two writers | `HashMap` |
| `HashMapProofs` | theorems about `HashMap`, with any number of writers and with one | `HashMap`, `TLAPS` |
| `HashMapLookupsProofs` | that a table with one writer implements `RegularMap` | `HashMapLookups`, `HashMapProofs` |
| `HashMapWalkProofs` | theorems about the walks over a table with one writer, and its destruction | `HashMapWalk`, `HashMapProofs` |
| `Server` | the process: main, three threads, maps, file, ends and restart | |
| `ServerProofs` | theorems about the threads of `Server`, its types and its file | `Server`, `TLAPS` |
| `Console` | `console.c`: lines read in pieces, words, commands | |
| `Store` | the registrations in memory and byte by byte in `domain2token.data` | |
| `Registry` | `register` from the keyboard to the file and back | `Console`, `Store` |
| `Journal` | the abstract journal an operator can rely on; `Registry` implements it | |
| `RegistryProofs` | theorems about `Registry`, and that it implements `Journal` | `Registry`, `TLAPS` |
| `Session` | the binding client and the binding thread across their connections | |
| `SessionProofs` | theorems about `Session` | `Session`, `TLAPS` |
| `Codec` | `codec.c` as operators: sizes, writing, reading, flags | |
| `CodecProofs` | the codec read, measured and written, for any message | `Codec`, `TLAPS` |
| `Datagram` | what the DNS thread does with a datagram, heap blocks included | `Codec` |
| `DatagramProofs` | theorems about `Datagram` | `Datagram`, `CodecProofs` |
| `MC*` | constants of the instances TLC checks | |

**HashMap.** A step is one store to shared memory with the loads right before it
that decide it, or one load when another thread can overtake the caller after it
(`Index` reads `m->size`, `Base` reads `m->entries`, `HeadOf` the bucket). The
call of `hash_map_rehash` loads `m->size` for its argument (`Check`, kept in
`ask`), then `m->entries` (`Save`, kept in `saved`), then `m->size` once more
(`Grow`), and another writer may store in between. A bucket's head is loaded to be
tested and again to be used; a put that finds NULL the second time reads through
it (`Faulty`). The stack of a writer holds the activations of `hash_map_put_entry`, because
`hash_map_rehash` calls it for every entry it moves. Memory is explicit: blocks
for entries and arrays are allocated and freed and never given out twice, so that
a stale pointer is always recognised. A slot outside its array or an array that
was freed or not yet zeroed may yield `NULL`, the stale content or `Junk`; a step
that follows `Junk` or a freed entry stops the run (`Fault`): after that anything
is possible and nothing is claimed. Loads and stores are sequentially consistent
and `nentries++` is one store. Keys are numbers ordered as `strcmp` orders the
strings; the hash is any function.

**HashMapWalk.** `Others` is a step of `HashMap`. The iterator tests a pointer and
loads it again to use it, so a slot is `Peek` and then `Take`, a chain `HasNext`
and then `Follow`; in between a rehash may have emptied the slot or moved the
entry, and the walk then skips entries, prints some twice, or follows NULL
(`WalkFault`). `met` remembers that a put was in progress during the walk:
only of the other walks is the output claimed to be the table. `Destroy` is what
main does after the joins. It frees the keys and the values of the entries as two
flags say (`frees`, any of the four combinations); which values malloc never gave
is up to the caller, and any may be (`stray`): those of `token_to_ip` point into
the binding thread's stack, and main has them freed. Such a `free` may bring the
process down (`DestroyFault`) or go unnoticed.

**Server.** `pc[t]` is where each thread is between two operations on shared
state; one put or get is one step. What two of them do to each other is
`HashMap`'s and `TokensMap`'s subject; here it is a choice. A look-up while
another thread puts in the same table may miss what is there. The console puts
tokens at `add_token` and the binding thread at `renew`; once both have done so at
one time (`raced`), any token may be missing for good, and `dns_map_has_token` may
say no (`MayFind`, `MayMiss`). `Create` and `CreateFails` are the three
`pthread_create`s, whose failure ends the process with the threads that run
already. `cell` is `client_addr.sin_addr`, to which every value in
`token_to_ip` points. `buf` and `disk` are the stdio buffer and the file of
`domain2token.data`, as sequences of the strings of the records; `Flush` moves a
prefix at any time; a process that does not reach `exit` may leave a string cut
off (`Torn`), and one that reaches it in another thread while the console is
between the length and the bytes of a string leaves half of that (`WithHalf`).
Ends of the process: main returns or fails to create a thread, `exit(1)` in the
DNS thread, `free` aborts on a stack address, a look-up follows a pointer that is
not there yet, a signal (SIGPIPE from a `send` included).
`Restart` is `create_dns_map` reading the file. `alen` of `accept` is not
initialised, so `accept` may store no address (`AlenMayBeSmall`). Addresses read
through the pointer after the binding thread is gone may be anything (`Junk`).

**Console, Store and Registry.** Here a string is its bytes. `Console` types a
line and reads it as `fgets` does, at most `BufferSize - 1` bytes at a time, so
that a long line becomes several commands; `Store` writes a record as its four
`fwrite`s, into a buffer that reaches the file when a write fails, at `fclose`, or
in part when the process ends. `Registry` joins them with the steps of
`register_func` and `dns_map_put_token`: the link in memory, the four writes each
of which may fail, then the token, reported whatever became of the writes. A new
process reads the file up to the first record that is not complete and appends
behind all of it. `tail` says what the file ends in: whole records, half a one
(`torn`), or half a one with more behind (`mixed`). In a mixed file a length may
be read that is negative (`Negative`): `malloc` then gives nothing, or a block of
no size, and `fread` puts there what follows. The process that reads it ends
(`StartFails`, with the file as it was) or takes the string for one that is not
all there.

**Session.** The client program (`cpc`) and the binding thread (`bpc`) with their
connections: the queue of `listen`, one value each way, descriptors that are
never closed (`fds`). A client may be killed or give up; the process may be
stopped, end anywhere, which resets every connection and may lose a response
under way, and be started again knowing fewer tokens. `accept` may fail at any
time; of `errno` the model knows the two codes the thread goes on after and that
EMFILE comes when descriptors are used up, every other code is "other". A thread
that leaves its loop by a failed `accept` does not shut its socket down: it is
`deaf`, and clients go on connecting to it. The console's put of a token begins
and ends (`BeginRegister`, `EndRegister`); `tokens` says whether one is going on,
or has overlapped the binding thread's own (`torn`), and then `dns_map_has_token`
may miss a token that is known. A `send` may fail (`RespondFails`).

**Datagram.** `Receive` takes a message of a set, cut anywhere or with bytes
behind it. `ReadQuestions` is `interpret_question` and the header checks;
`LookupToken` and `LookupIp` are the two look-ups of `get_ip`, with the console
and the binding thread free to store in between (`Register`, `Bind`), so that each
may also miss what is there. The domain looked up is the C string that
`labels_to_domain` makes (`DomainOf`): a dot in a label is a dot of the domain, a
NUL ends it, and for the root it is whatever the block held. `MakeReply`
assembles the reply and drops failed answers; `WriteReply` is
`serialize_message`; then question and reply are freed and the reply sent. `heap`
holds the blocks of the datagram by name; freeing or reading one that is not
there sets `misuse`; `heap` after the reply is what the datagram leaves behind.
That is the domain of each question looked up, the data of each record received,
and blocks of no element (those of empty sections, and what `malloc(0)` gives for
the answers to no question). Nothing in the code reaches them any more, although
`message.c:19` speaks of freeing everything inside a message and `message.c:45`
takes the data for that of a global hash map (`codec.c:90` allocates it): the code
leaks them, `LeavesNoList` does not excuse it, and it claims what remains, that
every list of elements and of labels is freed. A data pointer is where it leads:
an address, `NULL`, unset.

## 3. The runs

| run | question | bounds |
|---|---|---|
| `HashMap_walk` | Is the table well formed between any two puts of one thread; is a list that meets no put exact, and does any list end, on entries only unless it met a put; does the destruction free each entry, and keys and values as it was told? | 3 keys that share a bucket at size 2, 4 entry blocks, 3 arrays, one writer, one walk at a time |
| `HashMap_racing` | Do chains stay ordered and gets finite with two writers? | 2 keys, 3 entries, both threads put, one rehash |
| `HashMapLookups` | Does the table implement `RegularMap` with one writer and one reader, and is no freed entry in reach? | 3 keys, 2 values, 3 puts, 2 rehashes |
| `TokensMap` | *violated*: an inserted token is found once no put is in progress | console and binding thread, 3 tokens |
| `Server` | Safety of the process with every way to end it and a restart | 2 domains, 2 tokens, 1 client, 1 restart |
| `Server_live` | Does a question get its answer, a stop its end? | 1 domain, 1 token, 1 client |
| `Server_address` | *violated*: the address answered is that of the client that bound the token | 1 domain, 2 tokens, 2 clients |
| `Server_stop` | *violated*: a reported link survives a stop | 1 domain, 1 token, 1 client |
| `Registry` | Do the bytes in the file keep the promise of `Journal`, is a link what was typed, is a domain registered once? | buffer of 8 bytes, tokens of 2; 4 lines that fit the buffer, fill it, or go on behind it; 3 lines typed, 2 restarts |
| `Session` | What does a response mean, and does a client come to an end? | 2 clients, 2 tokens, 2 descriptors, a backlog of 1, 1 restart |
| `Datagram` | Reading, answering, writing and freeing of one datagram after another, and what it leaves behind | up to 2 questions out of 7, with labels that hold a dot or a NUL and the root among them, 5 headers, an additional record or none, every cut, one byte behind |
| `Datagram_address` | *violated*: the data of every answer written is an address | single questions |

Deadlock is not checked: a crashed or ended process, or a table that has used up
the blocks of the instance, does stop.

**Why the bounds are enough to see the cases.** Two rehashes let entries of one
bucket part, and part again, in different orders. With one writer the table grows
before a bucket of these instances has three entries, so an insertion between two
others is not seen there; `EveryEntryIsInPlace` proves it for chains of any
length. One rehash by each of two writers lets one replace the array the other has
computed an index for. One restart covers a file left by any end, including half a
record. What a second process appends to half a record completes
its string, so what is read later is a question of bytes: `Server` states
`OrderlyEndKeepsLinks` and `RestartFindsPrefix` for whole files, and `Registry`,
with its two restarts, goes on from there. Three lines give a registration that
is lost, one asked for again, and another domain between or after them; eight
bytes of buffer are the least in which a `register` with two arguments fills the
buffer and still leaves something behind it. Two descriptors are one client served
before the limit and one at it; a backlog of one lets a client wait while another
is served and connects before its predecessor is done.
Two questions are the least that share the error flag.

**What the passing runs do not say.** `RegularMap` and the properties of lists let
a look-up or list that met a put miss what is stored, or end the process: that is
what the code does, and only freed entries, wrong values and errors without a put
are excluded. `AckedIsUsable` and `ToldInvalidWasUnknown` except a token that is
looked up during a put of the console or after two puts of tokens have overlapped,
as `TokensMap` shows they must. `Journal` promises nothing behind the sure records
of a mixed file. `RunsWhatWasTyped` and `LinkedAsTyped` are about where the pieces
of a line are cut; what the words of a piece are is `ReadLine`'s own splitting.
`StopEnds` and `ClientReturns` assume that a client which has connected sends or
hangs up: with one that stays silent neither holds, since `recv` has no timeout.

**What the violated runs show.** They are disagreements between the code and what
its own comments or messages say; `findings` in `PROJECT.json` quotes both.

1. Two unsynchronised writers of `tokens` lose an insertion for good.
2. The address of a domain is the last client accepted, not the one that bound it.
3. `main` frees stack addresses before it closes the file of registrations; if
   `free` aborts, links reported as made are gone.
4. A message with a bad header asking for an unknown domain gets an answer whose
   data pointer was never set, and the serializer follows it.

**Abstract specifications.** `RegularMap` promises what a shared table with one
writer gives: puts take effect at one moment; a look-up answers a value the key
had while it ran, and only one that met a put may miss a key or bring the process
down. `ImplementsRegularMap` maps the table to it: the dictionary is every entry
except the one whose put has not yet made it reachable. That a look-up can miss a
key stored all the time, while a rehash empties and refills the table, is part of
what `RegularMap` says.

`Journal` promises what a file that is only appended to gives: the first `sure`
registrations are found by every later process, an orderly end makes all of them
sure, a crash loses some of the last. A process that follows a crash finds those
and nothing else, half a record notwithstanding; once something has been appended
behind half a record, nothing after the sure ones is promised, since the bytes
may be read as any entries. `ImplementsJournal` shows that the bytes of `Registry`
keep it.

**Fairness.** `HashMap!FairSpec`: a thread that is never descheduled for ever
takes its steps; nobody has to call. `Server!FairSpec`: each thread takes the
steps that need no input; no client, resolver or operator has to do anything, so
`recvfrom`, `accept`, `recv` and `fgets` may block for ever. `StopEnds` shows what
a stop needs in addition, as its premise `TrafficComes`: one more datagram, one
more connection, and a client that sends something or hangs up. Without that
premise a stop need not end the process, which the comments of `dns_thread.c:94`
admit. `HashMapWalk!WSpec`: a list that was begun goes on. `Session!FairSpec`: the
binding thread and each client take the steps their calls allow; a `recv` or an
`accept` that waits for the other side is not enabled, and nobody has to call,
stop, die or restart anything. `ClientReturns` excepts the deaf thread, whose
waiting clients nothing wakes.

## 4. The proofs

*HashMapProofs* holds for any number of threads and writers, any keys, values and
hash, from the assumptions of `HashMap` about its constants. `TypeOK` is not
inductive: that an index is a number, say, depends on the key of an entry that a
pointer in some local leads to. `IInv` adds `Allocated` (every entry pointer in
the heap, a local or a stack leads to a block malloc has returned, which has a
key), `Placed` (what a thread's program counter says of its stack and locals,
in particular that the entry it inserts lies between `previous` and `current`,
and that a size asked for a rehash is one, `Asked`) and `ChainsAscend`. `Placed` survives the steps of other threads because the key
of an allocated entry never changes (`KeysKept`, `OtherThread`). One lemma per
action, then `Invariance`, `TypeCorrect` and `Ascending`. `Ascending` is why no
walk goes round in a circle even where unsynchronised writers lose entries.

Its second half has the hypothesis `Writer = {w}`: one thread puts, any number
get. (With two writers these statements are false: `TokensMap`.) `TInv(w)` says
what the table is in the middle of a put or rehash of `w`: no pointer leads to an
entry that is not stored (`Reach`), how many activations there are and what each
is at (`Phase`), which arrays are in use and how large they are (`Memory`), the
list in every slot of them (`Shape`), where in its list the writer stands
(`Place`), and how `nentries` counts while entries are off the table
(`Counting`). Chains are characterised without recursion or reachability: the
entries that belong in a slot are a set given by their hash and by how far the
rehash is (`Left`, `Hung`, `Bucket`, `OldBucket`), the chain starts at the least
of them (`First`), and each one's `next` is the next greater (`Listed`), the
pointer a put still owes included (`Links`). `ChainIs` connects that to the
recursive `Chain`, by the number of entries up to one (`UpTo`): that the function
exists is shown by exhibiting one, and that it enumerates the set by a least
counterexample. This is where entries have to be finitely many
(`IsFiniteSet(Entry)`, in the theorems that need it). `Looking` adds where a get
of the writer itself stands. From `TableInvariance` follow `NoNestedRehash`,
`NoFreedEntryReached`, `CountIsExact` and `EveryEntryIsInPlace`.

*HashMapLookupsProofs* shows, step by step, that such a table implements
`RegularMap`. The dictionary is a function of the set of stored entries with
their keys and values (`DictOf`). No load changes that set or what the put in
progress still owes, and of the steps of a put all but three leave them alone
(`MovesNothing`). The three are the store that makes the entry reachable
(`PublishDict`) and the one that replaces a value (`ReplaceDict`), with which the
put takes effect, and its return (`CountDict`). Of the look-ups it needs an invariant (`LookInv`, checked by TLC
first): what the key is mapped to now is among the values seen, a put in progress
makes every look-up torn, and one that is not torn is in the bucket of its key and
not past the entry it looks for (`Sighted`). Therefore it finds the entry if there
is one, and follows no bad pointer; that the writer follows none either is
`WriterSafe`.

*HashMapWalkProofs* carries that invariant through the steps of a list and of the
destruction, again with one writer. The entry the iterator stands on stays one of
the table's, because no step takes an entry away (`StoredGrows`), so a list stands
on entries. A list that has met no put runs while the writer is at rest and
nothing moves (`QuietStep`); what it has printed is then exactly what lies before
it, slot by slot (`Done`), and at the end everything (`WalkListExact`). Once the
table is being destroyed, what is left is the buckets not yet come to and the rest
of the one being freed (`Freeing`, `Remaining`); each entry is in the list of one
bucket, so none is freed twice and none is left, and the keys and values freed so
far are those of the entries freed so far. What can still bring the process down
is a value that is no block of malloc (`WalkFreesAll`). `WalkInPlace`
and `WalkCount` are the properties of `HashMap_walk`.

*ServerProofs* holds for any sets of domains, tokens and clients and any number
of restarts. Its invariant is inductive in three parts, each using those before.
`ThreadsInv`: which joins main has passed and which threads are done; a service
thread that has taken a request since the stop is not waiting for another one.
`ConsoleInv`: the console is the one writer of `domain_to_token`, so the check of
`register_func` still holds at its put and a link never changes. `BindingInv`:
bound tokens have owners, and what `get_ip` has found of a domain stays true until
the reply is sent, because links and bindings are never taken back in the life of
a process. From it follow `Teardown`, `OneMore`, `Usable` and `OnlyBound`.
`Usable` says no more than the code does: a reported token is missed only while
the console puts one or after `raced`.

Its second part adds to that invariant the types and what the file holds.
`ServerTypes` needs that the strings in the file alternate between domains and
tokens up to a half one, which is why the records `create_dns_map` makes of them
are pairs (`PairsAreRecords`). `RecordInv` is the heart of the rest: while the file
is whole, file and buffer together are the registrations one after another, up to
the string the console has come to (`FileInv`); the registrations have each domain
once and agree with the map (`LogInv`); and those reported are in the part written
down (`AckedInv`). An end of the process moves a prefix of the buffer to the file,
so what a new process reads is a prefix of the registrations
(`ReadableIsPrefix`, `FoundIsPrefix`, hence `RestartPrefix`); an orderly one moves
all of it (`OrderlyEnd`). `Linked`, the map made of a list of records, takes the
last record of a domain; `Greatest` gives that there is one.

*RegistryProofs* holds for any lines, any size of the buffer and of the words
kept, and any number of lines and restarts. The assumptions are those of
`Console` and `Registry`: a line is bytes with a newline at its end and nowhere
else, and the buffer is small enough for the length of a word to fit the four
bytes of an `int32_t`. Reading a file is a recursion over its bytes. That
the function exists (`ReadFromEquation`) follows from every record taking bytes,
by a least counterexample; the prover has no use for the library's induction
theorems. On it rest the lemmas the proof is made of: a string or record written
is the one read (`StringBack`, `RecordBack`), so a record written behind whole
records is read behind them (`AppendRecord`), and reading goes on where it
stopped (`Resume`, `EntriesGrow`). The invariants come one after the other: the
types; `Records`, that while the file is whole it reads, with the buffer and the
bytes the four writes still owe it (`Owed`), as the log, and that what is sure is
read from the file whatever it ends in (`Settled`); `Distinct`, each domain once;
`Reading`, that what is left to read is the end of a line, from a place where the
buffer was full (`RestOf`); `Heard`, that what is in the log was asked for in the
words of a piece of a line. From them follow the invariants of the run, and from
the first two that each step of `Registry` is one of `Journal` or none
(`RegistryImplementsJournal`): the link in memory is the registration, and
records become sure with the bytes that reach the file.

*CodecProofs* and *DatagramProofs* hold for any messages that are well formed
before they are cut or extended, any names, any address of four bytes and any
number of questions. Names and sections are read and written by recursive
functions of the position; that they exist is shown upwards from the first, or
downwards from the last byte, by least counterexamples (`Least`, `Upward`,
`Downward`). What is proved of them: a message is read as it was written and a
message cut anywhere is found to be cut (`WholeBack`, `PartKnown`), and
`message_size` is the number of bytes that `serialize_message` writes
(`SizeIs`). The invariant of `Datagram` has four parts. `Types` and `Replying`:
the reply has the questions of the message read and answers to the first of them,
in their order. `Blocks`: which blocks are there at each point of the handler,
those of the question and those of the answers (`Own`), less what either
`free_message` reaches (`OwnReached`, `Left`), hence `FreedOnce` and
`LeavesNoList`. `Answered`: as long as no flag is raised every answer has an
address that was bound under the domain its labels spell, or any domain for the
root (`LookedUp`), hence `NoErrorMeansAnswered`. `Understood`: what was sent
is what is read, answered and written, hence `ReadsWhatWasSent`, `RepliesParse`
and `SizeExact`.

*SessionProofs* holds for any number of clients, tokens, descriptors and restarts,
in two parts. `PlaceInv` is the types, and that a client is in one place: served, queued once,
or neither, and nothing has been sent either way before it has connected.
`PromiseInv` follows a token from the client through the connection to the map:
what the thread holds is the word of the client it serves, an "ok" under way has
been put, and an "invalid" under way, or about to be sent, is about a token that
was not known at the connect, or may be missed: `knew` is withdrawn when the
console begins a put while the client waits, so a client for which it stands has
met neither a put nor, since two can overlap only then, a table that is torn.
A connection does not outlive the process.

Only model-checked: liveness (`GetReturns`, `QuestionAnswered`, `StopEnds`,
`ListEnds`, `ClientReturns`), which needs fairness and ENABLED; and that the
violated properties are violated. Of a table with two
writers only the types and the order of the chains are proved, because little
else is true of it.

## 5. Bounds and simplifications

* `Entry`, `Array`: blocks an instance can allocate; a put or rehash without one
  left does not happen. `MaxRestarts`: restarts. `late` counts to 2. `Spare`,
  `Message`: what may arrive.
* `OrderlyEndKeepsLinks` and `RestartFindsPrefix` are stated in `Server`, where
  writes to the file succeed; `Registry` lets them fail.
* `MaxLines`, `BufferSize`, `TokenSize`, `Line` (`Registry`), `MaxFds`, `Backlog`
  (`Session`): what is typed and what there is of buffers and descriptors.
* `Registry`: every string written is shorter than 2^31, and the allocation for a
  huge but positive length in a damaged file succeeds. A process that reads a
  negative length ends there or reads on as if the file had ended; what else it
  may overwrite of its heap is left out. A failing
  `fwrite` writes any part of the buffer and its bytes and loses the rest. A
  line that starts with a NUL makes the code look at the byte before its buffer;
  whatever is there, the string is empty.
* `Session`: each member of `Client` is one run of the client program; the four
  bytes of a token and the one of a response come at once, or not at all.
* `Datagram`: 32-bit values stay below 2^31; the operands in `pop_int16` are
  evaluated from the left, as gcc does (C leaves it open); a reply is too small
  to pass 512 bytes, which the code does not check.
* `HashMapWalk`: a key is a block of malloc, as in all three tables; keys and
  values of different entries are different blocks.
* Five hazards have no property: a reply of more than 512 bytes; increments of
  `nentries` lost between two writers, which only delay a rehash; the end of
  input, after which the console spins (`ReadNothing`) and nothing in the
  repository says that it should not; the address that stays when `accept` stores
  none, wrong already by the shared variable (`AnswerIsOwners`); and the client
  that connects and stays silent.
* A domain, token or address is a model value in `Server`; `token2ip.data` is
  opened and read but never written by any caller, so it holds nothing.

## 6. Not modelled

* `print_message` and `print_ipv4`: they only print, and the Makefile never
  defines DEBUG (its `ifeq` compares the word `DEBUG` with 1).
* `write_token_ip_entry`: the callers of `dns_map_put_ipv4` pass no flag that
  reaches it, so `token2ip.data` is empty and reading it finds nothing.
* The codec test, which does not compile against the present `codec.h`; Makefiles.
* Weak memory: the compiler and the processor may reorder the unsynchronised
  accesses further than `HashMap` does.

## 7. Plan

1. Done: `HashMap` with its refinement and its walks; `Server`; `Codec` and
   `Datagram`; `Console`, `Store` and `Registry` with `Journal`; `Session`; all
   with proofs of their safety properties and of both refinements.
2. Models left: a message large enough for its reply to pass 512 bytes;
   `nentries++` as a load and a store, and what is left to prove of a table with
   two writers then.
