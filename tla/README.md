# interxim in TLA+

interxim is an X input method server: applications connect to it over the XIM
protocol, forward their key events to it, and get back the strings those keys
produce (dead key sequences, or text typed into a converter window that turns
key sequences into Unicode). This directory holds TLA+ models of the server,
the TLC configurations that check them, and proofs checked by TLAPS. The
reference is the code in `src/src` (the server) and `src/IMdkit` (the protocol
library it is built with).

## 1. The system

One process, one thread. `IxmMainLoop` takes X events one after the other; an
event on a connection's accept window goes through `WaitXIMProtocol` to
`_Xi18nMessageHandler`, which runs the handler of the message to its end and
calls back into `IxmProtoHandler`. What interleaves is therefore not the code
but the messages: several clients, each with a channel in both directions, each
reading, acknowledging, closing or dying when it likes; and, while a server
takes its name, the requests of several processes to the X server.

| component | state | operations | hard part | what makes it correct | modelled |
|---|---|---|---|---|---|
| key event synchronisation (`i18nPtHdr.c`, `i18nMethod.c`) | `Xi18nClient.sync`, `pending` | forward back, commit, add to queue, sync reply, process queue | replies that answer another message, a queue refilled while it is emptied, clients that vanish | keys handled once, in order; nothing stranded | yes |
| server (`interxim.cpp`, `interface.cpp`) | `is_dead_key`, `gui`, IC_SHOW, text | trigger, key, focus, destroy handlers | one dead key and one window for all clients, masks in flight | a client blocked is released; keys come back; a window that was closed stays closed | partly |
| client records (`i18nUtil.c`, `i18nX.c`) | `clients`, `free_clients`, counter, accept windows | connect, find, handshake, disconnect | reuse of records, 16-bit ids, the dead | answers go to the sender, in its byte order | yes |
| X transport (`i18nX.c`) | atoms, properties | send, read, wait | atoms used again, properties appended | messages arrive whole, once, in order | partly |
| input contexts (`IC.c`) | `ic_list`, `free_list`, counter, the records | create, set, get, destroy, find | reuse of records, 16-bit ids, no clean-up on disconnect | an application reads back what it set | yes |
| attribute lists (`i18nIc.c`) | the message being read or written | change, get | nested lists in a flat list of ids, swapping by type, lengths | what was asked is answered, and as it was set | yes |
| frames (`FrameMgr.c`, `i18nIMProto.c`) | frame iterators | counts, sizes, tokens, loop ends | counters and padding, lists of lists | sizes agree with what is written; lists end where they end | yes |
| negotiation (`i18nPtHdr.c`) | — | open, extensions, encodings, IM values | matching two lists, answers with two lists | the index answered names what both know; answers are whole | yes |
| values and arguments (`i18nMethod.c`, `IMValues.c`, `IMConn.c`) | `imvalue_mask`, address | open, set, get, close | values that may be set only once, calls left in the middle | a call does what it returns; an open service is complete | yes |
| server name (`i18nMethod.c`) | selection, XIM_SERVERS | open, close, selection requests | several servers, partial failure | an open server is listed and keeps its name | yes |
| converter (`gui.cpp`) | text, start, maps | key, convert, matches | partial and multi-part matches | the text is the greedy translation of the keys | yes |
| keyboard maps (`kmap.c`) | buffer, file offset, static arrays | load | buffer boundary, line end | every line read, once; it ends | yes |
| window, setup, preferences (`gui.cpp`, `font_selector.cpp`) | widgets | menus, mouse, files | nested event loops | — | no |
| callbacks (`i18nClbk.c`), TCP and local transport (`i18nTr.c`), test client | — | — | — | — | no |

Components interact in three ways: by calls (handler to IMdkit and back, inside
one event), through state shared by all clients (`is_dead_key`, `gui`, the two
tables, the counter of atoms), and through the X messages to and from the
clients.

## 2. Modules

| module | models | kind |
|---|---|---|
| `KeyStream` | the promise about key events | abstract |
| `SyncQueue` | sync, pending, ProcessQueue, for any handler | detailed, implements `KeyStream` |
| `Interxim` | the server's handlers on top of the queue | composed, implements `SyncQueue` |
| `ClientTable` | connection records, ids, accept windows, byte order | component |
| `Transport` | messages to the libraries, over `ClientTable` | composed |
| `Contexts` | the promise about input contexts | abstract |
| `ICTable` | context records and ids | detailed, implements `Contexts` |
| `ICAttributes` | one context's attributes, on the wire and in the record | component |
| `FrameMgr`, `Frames` | the frame manager and the templates of all messages | operators |
| `FrameUse` | a message written and read, against the protocol | component |
| `Negotiation` | the handlers before the first context, through the frame manager | component |
| `IMValues` | the values of a service | component |
| `ServerName` | selection, XIM_SERVERS, servers and libraries | component |
| `KmapFile`, `Converter` | loading a keyboard map; translating with it | components |
| `Keyboard` | from the file to the text | composed |
| `Selection` | the entries of a sequence at given positions, for the refinement mappings and for answers without their separators | operators |
| `Counting` | lemmas about lists, queues and folds that all proofs use | TLAPS |
| `SyncQueue_proofs`, `Interxim_proofs`, `ServerName_proofs`, `Keyboard_proofs` | theorems about the module of that name, section 5 | TLAPS |
| `Transport_proofs` | theorems about `ClientTable` and `Transport` | TLAPS |
| `Contexts_proofs` | theorems about `ICTable`, and about `ICAttributes` as `MCContexts` runs it | TLAPS |
| `Startup_proofs` | theorems about `IMValues` and about `MCStartup`, the sum with `ServerName` | TLAPS |
| `MC...` | what TLC needs: inputs, symmetry, sums of components | model checking |

A few operators are marked "Mutant". No specification uses them: each is a
plausible mistake in the definition that follows it, and putting it in that
definition's place makes TLC report the property it is listed with in
`PROJECT.json`. They are there to show that the properties can fail.

### SyncQueue

`Xi18nClient.sync` and `pending` are functions of the connect id. The two
channels of a connection are sequences (X delivers client messages in order).
A message carries the serial number of the key it is about and nothing else.

* `HandleForwardEvent` / `AddQueue`: the two branches of `XIM_FORWARD_EVENT` in
  `_Xi18nMessageHandler`, which looks at `sync` only.
* `Handle`: `ForwardEventMessageProc` with its handler: `n` commits, or a hand-back
  (`xi18n_forwardEvent`) that sets `sync`. Any handler is allowed here.
* `HandleSyncReply`, then `ProcessQueue`: `SyncReplyMessageProc` and the loop.
  Each iteration is a step of its own, because it sends messages a client can
  read while the loop goes on; `draining` keeps the server from taking another
  message meanwhile, as the single thread does.
* `NewClient`, `HandleDisconnect`: the record is cleared when it is given out, not when
  it is given back.
* Client actions (external): forwarding, reading, acknowledging, XCloseIM, death.
  Commits and hand-backs both carry the synchronous flag. One acknowledgement
  may stand for several messages, which covers libraries that collect them.

### Interxim

A key is what the handlers tell apart: a conversion key (`return`), the real trigger
(`space`), a key of Forward_Keys or one with keycode 0 (`tab`), any other
(`letter`), an event that is not KeyPress (`release`). The text is its length.
`forwarding[c]` is the mask the client last read; the server keeps no copy.
`Crash` is the dereference of `gui` in `IxmGetUnicodeBuffer` before `IxmShow` has
ever made a window; the server takes no step after it.

Each client is one connection with one context; records and ids are the business
of the tables. `contexts` is what `FindIC` finds: `HandleDestroyIC` takes a context
out and answers, and nothing else, so the window, a dead key and queued keys stay; a
trigger or a focus change after it would find no context. `icShow[c]` is IC_SHOW of the
record, which keeps it when it is unlinked, and after a disconnect, which unlinks none.
`waiting` covers the two requests that block an application here, XIM_TRIGGER_NOTIFY and
XIM_DESTROY_IC. `raisedFor` is history: for whom `IxmShow` was called last.
The refinement mapping to `SyncQueue` drops trigger, focus, destroy, mask and reply
messages from the channels (`SelectAt`, which is SelectSeq told the positions and
defined without recursion, so that it can be reasoned about).

### ClientTable, Transport

The table is a list searched from the newest record, with a free list and a
wrapping counter. A message is attributed by window and then by id, as the code
does, so that a shared id misdirects what it would misdirect. `peer` is the
byte order of the library an accept window was created for.

`Transport` adds `Xi18nXSend`: a message of up to XCM_DATA_LIMIT bytes travels in
an event (`PutShort`), a longer one is appended to a property named by
`MakeNewAtom` and announced by an event (`PutLong`). A library reads what the
property holds, deletes it and takes it for one message, as `ReadXIMMessage` does
in the other direction. `unread`, `clashed` and `misread` are history: what is
still to be read, whether a property ever held two messages, whether an event
ever gave another message than the oldest one.

### ICTable, ICAttributes

`ICTable` is about which record a context is served with; a request and its
handler are one step (the application blocks on the reply). `contexts` remembers
which ids were given out and whether a context is held, destroyed or left behind.

`ICAttributes` is about what goes into a record and comes out of it. A datum is a
value and whether its bytes stand in the other order than the server's, so
`Token` (a value through the frame manager) flips the flag for a client of the
other byte order, and code that copies bytes does not. `_Xi18nChangeIC` reads the
lists of a message (`Sent`, in the order of the application) and gathers each group
(`Together`, `Gathered`), and `StoreIC` keeps them one value after the other (`Put`);
`_Xi18nGetIC` walks the flat list of ids (`Ids`: each nested list between its heading and
its separator; `Place`, one id at a time), `Told` is `GetIC`, `Nested` what
`CreateNestedList` makes of it, by type and length. `sizeof(long)` is a constant
of the build, 4 or 8: some attributes take their length from it. The lists are collected
in arrays of `IC_SIZE` entries whose ends nobody looks at; `HasRoom` and `HasRoomForIds` say
that a message fits them, and no other message is sent.

### FrameMgr, Frames, FrameUse, Negotiation

A `FrameMgr` is a value, an operation takes one and returns the next. A template is a
sequence of slots; the buffer is the set of fields written, each at its offset,
so that a field at a wrong offset is read as `Garbage`. `Frames` is
`i18nIMProto.c`. `FrameUse` makes the calls in the order all handlers use (counts and
sizes, total size, buffer, tokens; then tokens, sizes and ends of lists). Its
reference is `Wire`, which lays the contents out by the protocol without any frame
manager. `Negotiation` runs the real handlers through the same operators and is
compared with what the protocol puts into the answer.

### IMValues, ServerName

In `IMValues` a call gives a list of names and values, taken one by one
(`SetArg`, `GetArg`), and left at the first that is refused; `Mandatory` is the check
at the end of an opening. `out` holds the variables of a caller that gets values: what
`ParseArgs` copies into its own list of arguments does not reach them. In `ServerName` every X request of a server is a step, and
a server may end between two of them: read the list, query the owner, claim the
selection, register, verify. The selections and the property live in the X
server, which forgets the selections of a process that ends and keeps the
property. Libraries are modelled from what `i18nMethod.c` expects of them.

### KmapFile, Converter, Keyboard

`KmapFile` writes a file out as text from what its author meant, and then reads
it as `load_kmap` does: a buffer, whole lines out of it, `lseek` back for the rest.
`get_line` is a fold over characters with the state bits of the code; `before` and
`after` are static arrays and keep what an earlier line left. `Converter` has the
field, the cursor, `start`, and `get_matches` in full; `typed` and `earlier` are history,
from which the greedy translation is defined; `IsTranslation` is a translation in parts. In `Keyboard` the lines that were
loaded are the ones that are typed with.

## 3. Runs

| run | bounds | shows |
|---|---|---|
| `sync_queue` | 1 connection at a time, 4 keys, 2 commits; fair | types; no stranded key, no lost reply, order; every key of a live client is handled; refinement of `KeyStream`, over successive connections of one id |
| `interxim` | 1 client, 3 keys, 2 trigger or focus messages, text of 2; fair | triggers and destroyed contexts answered, preediting with a reason, keys come back, a blocked client is released; refinement of `SyncQueue` |
| `interxim_two` | 2 clients, 1 key, 2 messages, text of 1 | a dead key can be completed, a window that was closed is not brought back, with both shared |
| `dead_key_race` | 2 clients | violation, section 4 |
| `flush_without_window` | 1 client | violation, section 4 |
| `contexts` | 2 ids, 4 contexts, 2 attributes; messages of up to two lists, both byte orders, both sizes of long | refinement of `Contexts` while ids come round; answers are about what was asked, and areas, spots and colours read back where the code handles them |
| `byte_order` | the same | violation, section 4 |
| `transport` | 3 windows, 2 ids, 3 records, 4 messages, atoms 0 and 1 | windows have records, none lost, answers go to the sender in its byte order; messages are read once and in order unless two met in a property, and when that can be |
| `wire` | 23 templates with every list of 0 to 2 rounds and every string of 0 to 3 bytes; up to 3 names asked for, for each setting of the service | messages are written inside their buffers, as the protocol has them, and read back; the answers before the first context are whole |
| `keyboard` | files of up to two lines of every kind and files in parts; three files typed with, one in parts with digits of one and of two keys, text of 4 | files mean what their author meant; the text is the greedy translation, its parts each behind the one before, through movements, commits and reloads |
| `kmap_end` | a file without a last newline | violation, section 4 |
| `startup` | lists of up to 3 of 6 names; twice 3 servers, 2 of one name, and a library, with 4 openings, or 3 where servers are also closed | calls do what they return, except for the values that get lost, an open service is complete, listed and owns its name; no library sleeps while its server is there |

All runs say `CHECK_DEADLOCK FALSE`: clients and servers may leave or die, nobody
has to type, and the bounds end every behaviour.

**Sums.** `MCContexts`, `MCWire` and `MCStartup` hold components that share no state
(what `StoreIC` is given is the record that was found; a frame manager lives within
one handler; a value and a selection never meet). An interleaving of two such
components adds nothing to what each can do, so the specification lets each run
with the others in their initial states, and properties of both are checked
over one state graph. `Keyboard`, `Transport` and `Interxim` are compositions that do
share state.

**Bounds.** Four keys suffice for a key that is handed back, two that queue behind it
of which the first is handed back again, and one that arrives while the loop has
stopped. Two clients are enough for the window because a step reads the state of
one client and the globals; liveness and refinement are checked with one client,
where the shared state of others cannot help or hinder (`dead_key_race` is what
goes wrong with two). A table needs one more record or context than there are
ids for the counter to wrap; two ids stand for 65536. Two atoms and four
messages let the counter of `MakeNewAtom` go past its limit and give 0 twice. In `wire`
lists of two rounds are the smallest in which a padding or a counter of one
round can be taken for another's; all remainders modulo four occur. Its names
have every length modulo 5. In `keyboard` the buffer has 40 characters in place of
1024, shorter than two lines together, so that lines are cut at every place.
Arrow keys are typed with the maps of one part; Shift, with a map in three parts.
In `startup` two servers compete for a name and a third changes the list.

**Fairness.** `FairSpec` of `SyncQueue` and `Interxim` asks for strong fairness of the
server's step for each client and weak fairness of reading and acknowledging.
The event loop takes X events in the order they arrive, so a message never waits
behind an unbounded number of others; strong rather than weak, because the loop
for one client disables the others' steps again and again. Xlib reads and
acknowledges what it gets as long as the application dispatches events; a client
that stops doing so is the one that dies. In `Interxim` acknowledging is asked for only
while the client has its context. Nothing makes a user type, trigger,
destroy a context, leave or die. `KeyboardSpec` asks for weak fairness of loading, a loop in one call.

**Preconditions.** `AnswersSender` speaks of at most `IdLimit` allocated records, and the
run goes beyond. `FreshNext` creates no context with an id that an application still
holds (`IdIsFree`): `FreshSpec` is `Spec` with that condition, and the refinement of
`Contexts` is checked and proved of it. Contexts left behind by clients that died do not count, since
the newer record is found first, and the run includes them. What lists an application
or a caller gives is said by `ContextsAssumption` (only preediting has a spot; an attribute
in no nested list is a list of its own; a list that asks may lack its separator only if
it is all that is asked for; a message fits the arrays of `IC_SIZE` entries) and `StartupAssumption` (what
stands for no value is none). `ConverterAssumption` and `TextAssumption` say that what
stands in memory and what a file holds are characters. `FrameUse` reads no
message with an empty list: the frame manager hands out a first round all the
same. `Negotiation` runs the handlers that can meet one (section 4).

## 4. Where code and documents disagree

With a run that shows it:

* `dead_key_race`: "otherwise, the end of preediting must be notified from the
  IMserver to the IMlibrary" (`interxim.cpp:381-383`). `is_dead_key` is global. Client 1
  triggers with a dead key, client 2 triggers before client 1's next key arrives:
  `IxmTriggerNotifyHandler` opens the window for client 2 and clears the dead
  key, and client 1 is left forwarding its keys, with neither window nor dead key, and
  without an IMPreeditEnd. With one client alone the property holds (`interxim`).
* `flush_without_window`: "Use <CTRL>k or <RETURN> to flush the string buffer."
  (`README:24`). If the first trigger is a dead key, no window exists. A client that
  types on has the next two keys forwarded before it reads the mask that ends
  preediting; the first is combined, and the second, a conversion key, makes
  `IxmGetUnicodeBuffer` (`interface.cpp:101`) use `gui`, which is NULL.
* `byte_order`: "IMservers using IMdkit can serve both little endian clients and Big
  endian clients at the same time, without taking care of the difference for
  themselves" (`IMdkit/doc/README:44-47`). `SetPointAttribute` (`i18nIc.c:136-142`) reads a
  point through the frame manager and then copies the bytes of the message over
  it; on the way out the point is swapped. With clients of the server's order
  nothing is wrong (`ReadsBack`).
* `kmap_end`: "One line can contain only a single map. The map starts and ends with a
  quotation mark." (`doc/HOWTO-keymap.txt:17-18`). The last line of
  `kmap/VietnameseTelex.kmap` has no newline: `get_line` refuses it, `lseek` gives it
  back, and `load_kmap` reads it for ever. So it does with a line that is longer than
  the buffer.

Met while modelling; the models have the behaviour, and their properties are
stated with the exception where it matters:

* `gui.cpp:366`: which line is taken depends on the order of the lines, as a
  shorter one counts only while no candidate was met, and more than ten
  candidates end the search; "a greedy algorithm is used" (`HOWTO:53`) holds for files
  in which each line comes after those that it continues.
* `interxim.cpp:419-421`, `IC.c:73-95`: a context that is destroyed with IC_SHOW set leaves the
  window on the screen, and one that triggered a dead key leaves `is_dead_key` set, so
  that the next dead key of any client opens the window instead; so it is when a client
  disconnects or dies. No document promises otherwise. `WindowIsWanted` therefore speaks of
  IC_SHOW in the record for which the window was raised, also after the context is gone.
* `gui.cpp:386`: with one candidate and no match in the first part, `matches[mat - 1]` is read
  with `mat` at 0; in later parts the length added is that of an earlier part, so the
  next one is looked for in the wrong place; and in the last part one candidate is
  enough for the sum to be made without it. "If the translation can be broken down to
  (maximum 5) sub-translations" (`HOWTO:39`) promises the sum for any file. It
  holds for the files that are typed with, where the keys that begin a line of a part without
  being one begin at least two: `PartsAreFound` says of every key that may come next that what it translates is
  one line of each part, each behind the one before, and that their sum is put.
* `gui.cpp:324`: Shift and other keys that insert nothing run the conversion too; with
  nothing between `start` and a cursor in the middle of the text, nothing matches
  and `start` moves past the cursor. Shift is typed only where the cursor stays at
  the end.
* `kmap.c:128`: "A string segment that starts with a number is considered a unicode
  character code" (`HOWTO:22-24`), but a digit anywhere begins a code: the "1" of
  `A1=0x0100` (`Chinese-Pinyin.kmap:4`) is the character 1, which no key types. The files
  of the model have codes where the HOWTO puts them.
* `i18nMethod.c:338-369`: the locale, the transport and the server's name are copied, but into
  the entry of the list of arguments, which `IMGetIMValues` frees; the caller's variables are
  not written and NULL is returned, although it "returns NULL if it succeeds to
  get all the IMValues" (`API.text:86-88`). `GetReadsRegistered` states what is
  and is not written. interxim asks for none of the three.
* `i18nMethod.c:329`: to get the values a caller gives addresses for copies; the name
  returned is that of the first that was never set, and those after it are not
  obtained either (`API.text:88-90`). interxim asks for the off keys, which it never
  sets, before others.
* `i18nPtHdr.c:452` against `347`: a library that names no extension is to be told all,
  but a list of no names is read as one name, so it is told none.
* `i18nPtHdr.c:1348`: the fallback "COMPOUND_TEXT" of `API.text:470-471` is compiled out; the
  index answered when nothing is in common is 0, whatever stands there.
* `i18nPtHdr.c:1404`: the list of details clears the first list (`encoding`, not
  `encodinginfo`), or a null pointer if there was none, before the choice is made from it.
* `i18nMethod.c:636`: `DeleteXi18nAtom` writes back a list that another server may have
  changed since it was read, so an open server can vanish from XIM_SERVERS
  (`API.text:39-41`).
* `i18nX.c:259`: after 20 the counter gives 0 and then 0 again: two long messages in a
  row share a property, and a client that has not read the first takes both for
  one. If the second was a forwarded key, `sync` stays set.
* `i18nIc.c`, `IC.c`: filter events are copied unswapped to clients of either order;
  colours and line space have the length of a long, and 8 bytes of zeros are
  answered where a long has 8; a font is answered with its length twice, 2 bytes more
  than its room; separators come back as empty attributes; asking for a font set that
  was never set uses a null pointer (`HasNoFont`); `GetICValue` is given the number of all
  ids rather than of those left, so a list without a separator that is not the
  only one reads past the ids.

## 5. Proofs

TLAPS checks the theorems for every value of the constants: any number of
clients, keys, windows, records, contexts, servers and messages. Each `*_proofs`
module assumes only the named ASSUME of the module it is about (bounds are
naturals, the value that stands for nobody is nobody, lists are lists of names and
values), which TLC evaluates in every run, and what is named below. Lemmas on lists and
queues come from `Counting`: how many entries lie in a set when one is appended, taken,
removed or put in front; that SelectInSeq finds the first position; what a selection of
the entries, or a function applied to each, becomes when the queue behind it changes;
and folds.

A fold over a list of any length is taken apart by `FoldRun`: it ends in the last of a
sequence of states, one after each entry, each of which the step makes of the one
before. The step goes in as a function, one for each position, and the induction over
the positions is carried by a set of them (`Induction`, from its least counterexample,
`MinFacts`), since no operator can be handed to a theorem here. What the fold of a
particular module yields is then an invariant of those states, proved with `Induction`
again.

| module | theorems | of properties |
|---|---|---|
| `SyncQueue_proofs` | `TypeCorrect`, `NoStrandedKey`, `NoLostReply`, `OrderCorrect`, `Implements` | `TypeOK`, `QueueWaitsForSync`, `SyncIsOwed`, `KeysInOrder`, `ImplementsKeyStream` |
| `Interxim_proofs` | `TypeCorrect`, `RequestsAnswered`, `DeadKeyConsumable`, `WindowWanted`, `PreeditReason`, `Implements` | `TypeOK`, `RequestIsAnswered`, `DeadKeyIsConsumable`, `WindowIsWanted`, `PreeditHasReason`, `ImplementsSyncQueue` |
| `Transport_proofs` | `TypeCorrect`, `OneRecordPerWindow`, `NoRecordLost`, `OwnByteOrder`, `AnswersReachSender` | of `ClientTable`: `TypeOK` (checked by no run), `WindowsHaveRecords`, `RecordsAreKept`, `ByteOrderIsPeers`, `AnswersSender` |
| | `ImplementsClientTable`, `MailRead`, `PropertiesApart` | `Spec` of `ClientTable`, `MailIsRead`, `PropertiesAreApart` |
| `Contexts_proofs` | `Inductive`, `Implements` | the invariant below, `ImplementsContexts` |
| | `SetIsReadBack`, `AskedAreAnswered`, `TableRuns` | `ReadsBack`, `AttributesAreAnswered`, `FreshSpec` of `ICTable` |
| `ServerName_proofs` | `TypeCorrect`, `NoServerMissed`, `OpenServersAreListed`, `OpenServersKeepNames` | `TypeOK`, `NoMissedServer`, `AvailableIsListed`, `OpenServerKeepsName` |
| `Startup_proofs` | `ServicesAreComplete`, `GettingReadsRegistered`, `SettingStopsAtRefused`, `NoServerIsEverMissed` | `ServiceIsComplete`, `GetReadsRegistered`, `SetStopsAtRefused`, `NoServerIsMissed` |
| | `StartsByItsParts` | `Spec` of `IMValues`, and of `ServerName` on both displays |
| `Keyboard_proofs` | `StartIsNotBehind` | `TypeOK` of `Converter`, under the condition below |
| | `StaysInTheText`, `KeysKeepTheRest` | no property of a run: what holds of `Keyboard` without that condition |

### SyncQueue

None of the three invariants is inductive alone. `IInv` is their conjunction with `TypeOK`
and `LeaveIsLast`:

* A key handled at once must be the next in order. That follows from
  `KeysInOrder` only if `pending` is empty, which `QueueWaitsForSync` gives, as
  `sync` is clear and no loop is running.
* `QueueWaitsForSync` is about connections that are up; when a record is given
  out again it must not find messages of the previous connection, which
  `LeaveIsLast` gives: DISCONNECT is the last message of its channel, so the
  channel is empty when it has been handled.
* `SyncIsOwed` survives a SYNC_REPLY, which may have been sent for a commit,
  because that reply clears `sync`, and survives reading, because reading turns a
  message on its way into one the client owes an acknowledgement for.

`Implements` shows each step to be a step of `KeyStream`. `KeysInOrder` says that the queue
and the channel hold the numbers after `handled[c]`, each once and in order, so the
abstract queue `waiting` is that interval (`OrderIsWaiting`). After that the steps are
arithmetic: queueing and draining move the boundary between queue and channel,
which `KeyStream` does not see, and handling takes the first number.

### Interxim

`IInv` is `TypeOK`, `RequestIsAnswered` for all clients (`Answered`), `DeadKeyIsConsumable`,
`WindowIsWanted`, `DrainsAKey` (the loop of ProcessQueue has a packet, without which
`Head` is no key) and `TriggersFound`: a trigger on its way finds its context, since a library
that waits for the answer to it does not destroy the context, and only a context that is found
gets the IC_SHOW for which the window is raised. `DeadKeyIsConsumable` and `WindowIsWanted` stand together because one
step of one client can change the shared state in favour of another; what makes
them inductive is that every handler that ends preediting for its client also
clears the dead key or that client's IC_SHOW (`HandleFacts`, one case per path of
`IxmForwardEventHandler`), and that the mask in force after a channel is the last in it
(`MaskAppend`, `MaskTail`).

`PreeditReason` is proved under `OneClient` (any two clients are the same). That is no
convenience: with two clients the property is false, which `dead_key_race` shows.

`Implements` first maps the channels (`QueuedFacts`, `KeyedFacts`, `NumberedFacts`: appending and
taking commute with the mapping, or do not show in it), then proves that a step
changes one client only (`OthersKept`, `MapOthers`), then takes each step to its
counterpart in `SyncQueue` (`ClientMaps`, `ServerMaps`). Two facts are needed besides `IInv`: the
handler never commits more than the text or a dead key (`HandleMaps`), and a client
that has not connected has nothing anywhere (`Fresh`), since `NewClient` of `SyncQueue`
clears what `NewClient` here finds clear. With `SyncQueue_proofs` it follows that the keys
of a connection to the whole server are handled once and in order.

### ClientTable and Transport

`WindowsHaveRecords` is inductive when taken apart: no two records share a window, every
record has a window with a peer, every such window has a record. `RecordsAreKept`
counts the records of each id in both lists against the ids given out. `CounterCounts`
(the counter is the number of allocated records modulo 2^16) is what a new record
needs to be counted. `AnswersSender` is a consequence, not a part, of the invariant: with
as many records as ids at most, each id was given out once at most, so two
positions with the same id are the same.

`ImplementsClientTable` lets everything be used under the transport. `MailInv` says where the
numbers of `MakeNewAtom` stand: `HeldSince` keeps, for each message still lying in a
property, how many long messages have been sent since, so that the number just
given out differs from all of them until a round is over or the number is 0
(`SinceNext`); `AsMany`, `InTurn` and `HeldApart` tie the properties to the events that announce
them, in order, unless two have met.

### ICTable

`IInv` is `TypeOK`, `HeldIsFound` (`FindIC` finds a record for every held context) and
`HeldDiffer` (no two held contexts share an id). The theorems are about `FreshSpec`.
Contexts left behind keep their records and may share ids with held ones; the
proof that they do no harm is that a new record is put in front, so that the
first one found is the newest (`FoundFacts`), and that `DestroyIC` unlinks the first.
`Implements` follows, as a request on one context changes the record found for no other.

### ICAttributes

The theorems are about `ContextsSpec`; `TableRuns` shows that the table runs under it as it
does alone. What makes `ReadsBack` true is not in an answer but in the record:

* `FieldsInv` says that the record and the history of what was set agree (`Agree`), group by
  group, on every attribute that is read back: a field is there if and only if a value
  was given, and holds the last one, in the server's byte order, except for the spot,
  which is kept as it came. It also says that an answer is what `Answers` makes of the
  record as it now is.
* One list of attributes is taken by two folds at once, `Store` into the record and `Give`
  into the history, and `Agree` holds after each attribute (`OneStored`, `GroupStored`). A
  group leaves the fields of the others alone (`SameBut`), which matters since
  `area` is a field of two groups. `ToldAsSet` then follows an attribute out again,
  through `Told`, `Nested` and `Token`, once for each kind of it.

`AskedAreAnswered` takes the flat list of ids apart. Sorting a list that was put together
from two is sorting the second from where the first ended (`SortConcat`). A heading
opens its list, each plain name goes into the open one, the separator closes it and
stays behind in the group "ic" (`HeadingPlaced`, `KinPlain`, `EndingPlaced`), so that a whole
list adds its names to its own group and nothing but separators elsewhere
(`ListPlaced`). With that, going through the lists one by one, the groups hold what
`Together` gathers from the message (`SortedIs`). `Answers` keeps places and names, and
leaving out the separators of an answer is leaving out those of the names
(`NamesAnswered`). Only a list that is all that is asked for may lack its separator: no list
comes after it that would be taken for a part of it, and none before it, whose ids would be
counted among its own. This is where the assumption is used. What an attribute goes
through does not depend on how many there are; that the arrays have room for them is
what makes the sequences of the model what the arrays hold.

### ServerName

`TypeCorrect` and `NoServerMissed` hold with any `Closer`. The invariant for the second is
`NoneMissed`: `NoMissedServer` from the registration on, and not only from the opening. It is
inductive because a server gets there only by `Register`, which notifies every library
after the selection was taken, even when it does not change the list.

`OpenServersAreListed` and `OpenServersKeepNames` are proved from `NoClose` (no server calls
IMCloseIM; interxim never does, and with it an open server can vanish from the
list, section 4). `IInv` adds four parts to `TypeOK`:

* `Phases`: no server is closing or closed.
* `ReadIsListed`: what a server has read in the list is still there when it acts on
  it, because without IMCloseIM no request removes a name.
* `RegisteredIsListed`: once it has registered, its name is there; this gives `AvailableIsListed`.
* `MetIsOpen`: a server that began to open while another was open has seen the
  name listed, asks for the owner, and claims the selection only when the open
  one is not the owner; this gives `OpenServerKeepsName`.

### IMValues and the start

`StartsByItsParts` shows that a start of the service is a behaviour of the values, of the
display whose servers only end, and of the one whose servers may be closed. The last is
an instance of `ServerName` with constants of its own, so `NoServerIsEverMissed` is the theorem
`NoServerMissed` of `ServerName_proofs`, instantiated.

For the values the invariant is `ValuesIInv`: the types, an open service is complete, the
variables of the caller are empty except after a call to get, and what such a call
wrote is right. The weight is in what one call does with its list:

* `SetArgsState`: as long as nothing was refused, everything up to here is registered;
  once something was, it is the name of an entry that is refused, and exactly what stood
  before that entry is registered. What counts as refused depends on entries of
  the same list before it (`RefusedIs`), so each step has to show that the names
  registered now are those known before and those of the entries so far (`UptoNext`).
  `SetArgsStops` turns this into the first refused position, of which the property
  speaks.
* `GetArgsState`: as long as no value that is guarded by the mask was missing, a variable holds
  what is registered if its name came before and is none of the three that are copied,
  and nothing otherwise; once one is missing its name is returned, and no variable is
  written from there on. The copies are lost, which section 4 reports.

### Keyboard

The theorems are about `KeyboardSpec`, for any files, any length of the buffer, any keys
and anything that may stand in memory behind the text. `NotBoth` is the one condition
of one of them: with no file that is typed with are both Shift and the arrow keys
pressed. It is not a convenience, since without it `start` does come one character
behind the cursor (`gui.cpp:324`, section 4); `StaysInTheText` says what holds then, and
the files of the run `keyboard` satisfy it. `KeyboardInv` has three parts:

* `FileInv`: what was read. Every character of a line is stored in one of the static
  arrays or just behind it (`StoreType`), so `get_line`, a fold over the characters, leaves
  arrays (`ScanSteps`, `GetLineType`); the offset of a part is the number of lines loaded
  when it began, and that number only grows (`TakeType`); what `lseek` takes back was read.
* `FieldInv`: the cursor and `start` are in the text, and each map has its parts within its
  lines. The conversion replaces what stands from `start` to the cursor less what is left
  over, so the lines taken must not be longer together than what was typed. For one part
  this is `TakenFits`: an exact line is as long as what was typed, and one that the text
  continues is shorter, although it is compared with all that stands in memory, because
  were it as long, what was typed would be its beginning and it a candidate. `OneMore` adds
  up the parts; their search is a fold too (`SearchStep`, `MatchType`).
* `Ordered`: under `NotBoth`, `start` is not behind the cursor, and with a file that Shift is
  typed with the cursor is at the end of the text, where `convert` keeps it (`ConvertType`).

`KeysKeepTheRest` is about a step: `ConvertKeeps` follows each character of the text before
`start` and behind the cursor through the three pieces that the new text is put together
from.

In all modules there is one lemma per action (or group of actions) and a last theorem
that joins them; the temporal steps are single applications of PTL.

### Only model-checked

* Liveness (`KeyHandled`, `RequestReleased`, `KeysComeBack`, `Loaded`): proofs under fairness need
  ENABLED, which is out of the prover's reach.
* What the frame manager and the negotiation compute (`WritesTheMessage`, `ReadsTheMessage`,
  `ChosenIsCommon`, `AnswersAreWhole`). `FrameMgr` goes through templates in templates, and
  with it `Frames`, `FrameUse` and `Negotiation` are recursive over data: the provers
  refuse modules with recursive operators, and the depth of the recursion is that of
  the data, not of a list, so that a fold does not replace it.
* What the converter and the keyboard files compute (`TextIsGreedy` and `NotStuck` of
  `Converter`, `LoadedIsMeant` and `PartsAreFound` of `Keyboard`). `Greedy`, its reference, and
  `Text`, the file, are defined by recursion over data, and comparing with them needs an
  induction over data. Besides, `TextIsGreedy` and `NotStuck` depend on how the lines of a
  file stand to each other (section 4), and `PartsAreFound` is about the files that are
  typed with; they are not true of every map.
* The violations of section 4 are runs by nature.

## 6. Not modelled

* Events of the converter window itself (mouse, menus, setup, moving it) and the
  FLTK loops that `IxmLower` and dragging run: they touch no protocol state. FLTK's
  field and cursor are modelled as far as `gui.cpp` relies on them.
* Failing allocations (`malloc` returning NULL), errors of the X server other than
  those that `i18nMethod.c` asks about. A library that died is sent messages to no
  window, whose errors the server ignores.
* OFF keys and the static event flow in `Interxim`: the server registers ON keys only.
* Requests on contexts or connections that are not the client's own. In `Interxim` a client
  has one context on a connection and creates no other after it has destroyed it, and the
  record of a context that is gone keeps its IC_SHOW: `ICTable` has the reuse of records.
* `XIM_CONNECT` sent in a property (more than 20 bytes); ordinary libraries send it
  in the event.
* XIM_CLOSE, XIM_RESET_IC, XIM_SYNC: answered, or ignored, without a change of state.
* `FrameMgr`: `SkipToken`, `SetTotalSize` and `InitWithData`, which nobody calls; byte
  swapping, which both sides do alike; `xpcs_fr`, which has no end, in a message.
* `ICAttributes`: hot keys, compiled out; nested lists in nested lists; ids that were
  never announced; a list without its separator unless it is all that is asked
  for; messages with more attributes or ids than the arrays have room for, 64 (`IC_SIZE`,
  `i18nIc.c:38`): the code writes past their ends.
* `IMValues`: calls without any name; the TCP transports. `Negotiation`: more than ten
  names, for which there is no room; an encoding negotiation with details but no names, of
  whose list of details a byte is taken for a counter.
* `Converter`: a character is one unit; Unicode beyond what `Keyboard` loads.
* Callbacks (`i18nClbk.c`) and `Xi18nXWait`, which only they use: the server supports
  XIMPreeditNothing | XIMStatusNothing and never calls them. The TCP transport
  (`i18nTr.c`, compiled out), `sampleIM.c` and `interface.x11.cpp` (not built).

## 7. What is left

1. What `TextIsGreedy` and `PartsAreFound` ask of the lines of a keyboard map, as an
   assumption on the map, and with it a proof for every map that satisfies it.
2. Preedit and status callbacks (`i18nClbk.c`) with `Xi18nXWait`, and the TCP transport, if the
   server is ever built to use them.
