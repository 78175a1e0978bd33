# luaufusion in TLA+

luaufusion runs a JavaScript module in a V8 isolate that lives in a child
process, and gives the Luau program that started it a userdata (`LangBridge`)
to exchange text and binary messages with that module. This directory models
the parts of it in which order, concurrency or failure matter, checks the models
with TLC on small instances, and proves all safety properties of the passing runs with TLAPS
for every instance.

Line numbers refer to the files under `src/`. The sections are: what the system
consists of, the modules, the runs, the fairness, the proofs, the assumptions,
what is not modelled, and what comes next.

## 1. The system

```
 host process                                 child process
 ------------                                 -------------
 Luau coroutines                              JavaScript module
   sendtext / sendbinary                        EventBridge.sendText / sendBinary
   receive                                      receiveText / receiveBinary
      |            ^                               |  msg_tx         ^  textQ
      v            |                               v                 |  binaryQ
 ConcurrentlyExecuteServer  ==== IPC ====  run_v8_client (select loop)
      |  shutdown, fire_shutdown                   |
      v                                            v
 ConcurrentExecutor (crate)  -- kill -->      the process
```

### Components

| component | source | state | operations |
|---|---|---|---|
| Host end of the bridge | `transport/concurrentlyexec.rs`, `base/mod.rs` | sender to the child, receiver behind a tokio `Mutex`, the executor and its cancel token | `new`, `send_to_foreign`, `receive_from_foreign`, `shutdown`, `fire_shutdown`, `is_shutdown` |
| Luau userdata | `luau/langbridge.rs` | one `ServerTransport` | `sendtext`, `sendbinary`, `receive`, `shutdown`, `isshutdown`, `Drop` |
| Child process entry | `transport/concurrentlyexec.rs` | global `CONCURRENT_EXECUTE_CB` behind a `Mutex` | `set_concurrently_execute_callback`, `run`, `send_to_host`, `receive_from_host` |
| V8 select loop | `denobridge/bridge.rs` | `msg_rx`, the senders of the two queues, the module's evaluation | load, five `select!` branches, end |
| Isolate set-up | `denobridge/inner.rs` | `heap_exhausted_token` | near-heap-limit callback |
| EventBridge of JavaScript | `denobridge/event.rs`, `bridge/cls.ts` | `msg_tx`, two receivers behind tokio `Mutex`es | `sendText`, `sendBinary`, `receiveText`, `receiveBinary` |
| Payload conversion | `luau/event.rs`, `luau/embedder_api.rs`, `denobridge/event.rs` | `EmbedderData` (limit, converters) | `from_lua_text`, `from_lua_binary`, the size checks |
| DOM events | `base_deno/web/02_events.js` | the listener lists of every target, the flags of every event, the wrappers of on-handlers, `reportExceptionStackedCalls` | `addEventListener`, `removeEventListener`, `dispatchEvent`, `dispatch` with its event path, `composedPath`, `preventDefault`, `stopPropagation`, `defineEventHandler`, `reportError`, `reportException` |
| URL, URLSearchParams | `base_deno/url/00_url.js`, `url.rs` | serialization and component offsets of each URL, the pair list of a URLSearchParams; `componentsBuf` and `UrlSerialization`, shared by all | `constructor`, `parse`, `canParse`, all setters and getters, every method of URLSearchParams, walks by its iterators |
| URLPattern | `base_deno/url/01_urlpattern.js`, `urlpattern.rs` | the components of a pattern, `#reusedResult`; `matchInputCache`, shared by all | `constructor`, `test`, `exec`, `getOrInsert` |
| Text encoding | `base_deno/web/00_text_encoding.js`, `web/mod.rs` | options and native decoder (`#handle`) of each TextDecoder | `decode`, `encodeInto` |
| WebIDL | `base_deno/webidl/00_webidl.js` | none | conversions of numbers, strings, buffers, dictionaries, enumerations, sequences, records, callbacks |
| console | `base_deno/console/01_console.js`, `denoexts/console.js` | `countMap`, `timerMap`, `indentLevel` of the console; `seen`, `circular`, the depth of an inspection | every method of `Console`, `inspectArgs`, `inspect` (`formatValue`, `formatRaw`) |
| Timers | `denoexts/structuredclone.js` | the current async context; the queue is deno_core's | `setTimeout`, `setInterval`, `clearTimeout`, `clearInterval` |
| Module loader, structuredClone, base64, DOMException, globals, snapshot | `denobridge/modloader.rs`, `denoexts/...` | little or none | see section 7 |
| parallelluau | `parallelluau/` | - | commented out in `src/lib.rs` |

### How they interact, and what is hard about it

* A receive call takes two steps, `try_lock` and `lock().await`
  (concurrentlyexec.rs:70,73; event.rs:79,94). The test gives an early error
  "already in use" but is no guard: two calls may both pass it. A receive is a
  future that may be dropped in between, while it waits, or inside `recv()`.
* The select loop multiplexes the module, the heap token, the messages of the
  host and those of JavaScript (bridge.rs:60-96). Each turn drops the futures
  that were not taken. One IPC channel from the host is split into two queues
  by kind, which are read independently.
* Everything in the child's memory goes with the child: a completed module, the
  heap limit, a failed load, a crash and a kill all end it, and each can fall
  between any two steps of a message.
* The host gets its sender before the child has loaded its module
  (concurrentlyexec.rs:110 precedes the callback).
* `Drop` of the userdata reads `is_shutdown()`, a token that the executor
  updates on its own schedule, and only then decides to ask for a shutdown
  (langbridge.rs:70-77).
* The length of a payload is measured in different units and at different
  moments on each side, and text is made valid UTF-8 on its way.
* An event listener may do anything before it returns: register or remove
  listeners of the list being walked, dispatch other events on the same target,
  stop propagation of any event in flight, report errors, or throw, which
  dispatches an error event whose listeners may do the same.
* A URL keeps a text, offsets into it and, through `searchParams`, a list, and
  refreshes each by hand. The offsets and a changed text reach it through a buffer and
  a slot that all URLs share; `URL.parse` runs a constructor before it reads them. A walk
  over the pairs goes on while they change. The list is filled from `this.search`, which
  slices the text with the offsets the object holds.
* The results of processing an input of a URLPattern are cached by key for all
  patterns, inserted and moved at random (`#sampleRate`); the result of an exec without a
  match is kept and filled in by the next one.
* WebIDL converts values in layers (a number inside an optional member of a dictionary
  inside a record), and properties of the value may change the order or make it throw.
* Turning an argument of a console method into text runs code of the user (`toString`, an
  inspector), which may throw and may call the console again, before or after the method
  has touched its maps and its indentation.
* `inspect` walks a graph that may be circular with a mutable list of the objects it
  is inside of, and inspectors of users cut that walk short by throwing.
* A callback of a timer runs in the async context its timer was set in, may enter another
  one, set and clear timers, and throw.

### What makes each component correct

* Receiving ends: one call inside `recv()` at a time; no call waits for a lock
  nobody holds; each message is returned exactly once, in order, whatever calls
  were dropped; `closed` is reported only after the last message; a pending
  call does not outlive the channel.
* Life of the child: every wait of the host ends; a dropped userdata, a hit heap
  limit and a `shutdown()` end the child.
* Bridge: each direction is an ordered link (per kind towards JavaScript) that
  may lose a suffix when the child ends and nothing else, but for a message towards the host
  whose `send_to_host` fails; no branch of the loop starves another.
* Payload: text that arrives is UTF-8, binary data is not touched, the limit
  holds for the bytes that travel.
* Events: no listener is called twice by one dispatch, skipped, or called after
  it was removed; `once` means once under re-entrance; the flags of an event
  describe exactly the dispatch it is in; reporting errors does not recurse and loses no
  error; a listener outside of a closed shadow tree sees nothing of it in `composedPath`;
  an on-handler has one listener however often it is assigned.
* URL: whatever setters and parameter changes came before, the getters give the components of
  the serialization, and `searchParams` holds the pairs of its query. A walk over pairs that do
  not change visits each of them once.
* URLPattern: the cache answers as the op would; a result that was handed out does not
  change when the pattern is used again.
* WebIDL: an integer is wrapped, clamped or refused as its type says, up to the bounds; objects are
  converted as a whole or refused.
* console: each call has its effect once, at one moment, or none if code it runs throws, however
  calls are nested in it.
* inspect: an inspection goes down through no object of the user twice, and marks as circular
  exactly what refers to an object it is inside of.
* Timers: a callback runs in the context its timer was set in, never after a clear, and leaves no
  context behind.
* Text encoding: a text decodes the same in one call and in any chunks, whatever was
  decoded before it; `encodeInto` writes whole characters, as many as fit, and counts them right.

`PROJECT.json` lists the hazards behind these properties at their lines.

## 2. The modules

| module | models | how |
|---|---|---|
| `ExclusiveReceiver` | `receive_from_foreign`, `receive_from_host`, `receiveText`, `receiveBinary`: a receiver behind a `Mutex` | The state of a call says which `.await` it is at: `checked` (passed `try_lock`), `queued` (in `lock().await`), `holding` (in `recv().await`); `idle`, `busy`, `closed` are results. tokio's `Mutex` is fair, so `waiters` is a queue and `Release` hands the lock to its head. `Cancel` is the drop of the future at any of the three. |
| `BridgeLifecycle` | one child from spawn to exit, and the host's `new`, `shutdown`, `Drop` | `phase` is the program counter of the child, `conn` that of the host's connection. `Dies` and `CancelToken` are the executor crate. `Shutdown` may be called again while a call of it waits: both ask the same executor, and `ShutdownReturns` is the return of all that wait. |
| `FusionBridge` | both processes with their messages | Composes `BridgeLifecycle` (as `L`) and three `ExclusiveReceiver`s (`Host`, `Text`, `Binary`) by INSTANCE: their actions are conjoined with what happens to the queues. `EndOfChild` empties what was in the child's memory; `up`, the pipe to the host, survives. `ForwardToHost` succeeds or fails: `send_to_host` may return an error at any time, which the loop ignores (bridge.rs:77); the history `unsent` keeps the messages that were dropped so, and `Accepted` is what JavaScript sent without them. |
| `OrderedLink` | nothing of the code: the abstract specification of one direction | What was received grows towards what was sent, one message at a time. Only a link that is `Lossy` may lose a message in the middle. `FusionBridge` implements it three times, the direction to the host as a lossy link. |
| `Payload` | one payload on its way | A payload is a sequence of units of five classes (ASCII, three-byte scalar, invalid byte, unpaired surrogate, U+FFFD); `Lossy` and `Size` are what `to_string_lossy` and the byte length do to them. The embedder may install each of the two converters of userdata or not, and a converter may return an error (`refused`). |
| `EventDispatch` | `EventTarget`, `Event` and `reportException` | The dispatches in progress are a stack of frames; a frame's `step`, `pass`, `k`, `i` are the program counter, the loop, the path index and the listener index. User code acts when the stack is empty or its top frame is `calling`. Registrations carry a number, so that re-adding the same callback is a new registration. `Path` is `appendToEventPath` over the tree of targets; `SetHandler` is the setter that `defineEventHandler` defines. |
| `Url` | URL and URLSearchParams | A serialization is a record of components (`authority` says whether it has one, which a network scheme always does); `Text` makes a sequence of tokens of it and `Offsets` the component offsets into that. Getters slice `Text` with the offsets the object holds, whatever they are; the list is refilled from what `search` gives (`SearchLists`): if the offsets are another URL's and the slice is not the query, any list of pairs may come of it. `BeginParse` and `EndParse` are the two halves of `URL.parse`; a walk keeps its index while the list changes. |
| `UrlPattern` | URLPattern and its cache | `map` is the LRU map in insertion order; whether an entry is put or moved is nondeterministic, as `MathRandom` decides it. What the crate makes of an input (`Process`) and what an expression captures (`Component`) are constants. |
| `TextEncoding` | TextDecoder and `encodeInto`, for UTF-8 | The native decoder of encoding_rs takes the bytes one by one (`TakeByte`); V8's decoder, behind `op_encoding_decode_utf8`, splits the bytes as a whole (`Characters`), which is also the reference. `DecodeOnce` and `DecodeChunk` are the two paths of `decode`. `NextText` only restarts the history. |
| `WebIdl` | the converters | A number is counted in quarters, so that rounding and the two halves are visible, and the 64 and 53 bits are scaled down (`LongBits`, `SafeBits`). A finite number is a double of `SafeBits` significant bits (`IsDouble`), and `NumberOf` rounds a BigInt to one, as `Number(xBigInt)` does at the end of the conversion to `long long` (00_webidl.js:305). A behaviour makes one conversion: `call` is which, with its arguments, and `outcome` the value or the error. Converters are operators, the loop over the members of a dictionary is a recursive function; the converter of a record's keys is chosen with the call (`typedKey`), so that keys may be refused and may become equal; what they give is compared with the definition of the conversion in the standard's terms. |
| `Console` | the methods of `Console` | `calls` is the stack of calls that wait for code of the user, each with its program counter; a method is split where it runs such code. |
| `AtomicConsole` | nothing of the code: the abstract specification of a console | One action per call, with its whole effect. `Console` implements it. |
| `Inspect` | `formatValue` and `formatRaw` | A stack of formatters with `seen`; the graph of objects is chosen at the start and does not change. |
| `Timers` | the timers | `Fire` is deno_core calling a timer; `EnterContext` is code entering an async context and not leaving it. |
| `MCEventDispatch`, `MCUrl`, `MCData`, `MCConsole` | instances for TLC | The last three each hold systems that share nothing; `scene` chooses at the start which one a behaviour follows, so that one run of TLC covers them. In `MCEventDispatch`, `scene` chooses one of four worlds: a part of the targets, events and options, with bounds of its own (`InWorld`). |
| `SeqFunctions` | nothing of the code: `Select` and `Sums` | Selecting from a sequence and summing one up, as recursive functions, about which proofs can reason. |
| `SequenceLemmas`, `ExclusiveReceiver_proofs`, `FusionBridge_proofs`, `EventDispatch_proofs`, `Url_proofs`, `UrlPattern_proofs`, `Data_proofs`, `Script_proofs` | the proofs | section 5. `Data_proofs` is about `TextEncoding`, `Payload` and `WebIdl`, `Script_proofs` about `Timers`, `Console` and `Inspect`. |

The actions follow the source's functions; names of local queues are those of
the diagram. `down` and `up` are the two IPC channels, `outQ` is
`msg_tx`/`msg_rx`, `textQ` and `binaryQ` are the channels the loop fills for the
EventBridge. Variables `sent`, `delivered`, `hostSent`, `jsSent`, `unsent`, `hostGot`,
`textGot`, `binaryGot`, `count`, `removed`, `fired`, `entered` and `canceled` are history: no guard
that models code reads them, except `count` and the lengths of the sent messages for
the bounds.

Operators whose comment begins with *Mutation of* are deliberately wrong variants
of the definition that follows them. No specification uses them; they exist so
that every property can be shown to fail when the code is broken in a plausible
way (`PROJECT.json`, `mutants`).

## 3. The runs

| run | instance | checks | shows |
|---|---|---|---|
| `exclusive_receiver` | 3 calls, 2 messages | `TypeOK`, `MutualExclusion`, `NoOrphanWaiter`, `Conservation`, `ClosedMeansDrained`, `CloseWakesAll`, `MessagesReachCallers` | The gap between `try_lock` and `lock` and the drop of futures lose neither wakeups nor messages. |
| `bridge_up` | 2 coroutines, 2 messages of either kind from JavaScript, any of whose sends by the loop may fail | `NoOrphanChild`, `UpInFlight`, `UpKeepsPrefix`, `UpIsOrderedLink`, `HostEndIsExclusiveReceiver`, `SentIsForwarded`, `ReceiveReturnsAfterExit`, `ConnectReturns`, `ShutdownCompletes`, `DropStopsChild`, `HeapLimitEndsChild` | While the child lives nothing is lost, doubled or reordered but a message whose own send failed, which moves none behind a later one; besides these, a suffix at most is lost when it ends. The loop gives every message to `send_to_host`; no coroutine hangs on a dead child; every wait of the host ends, and what should end the child does, in every phase. The last four are properties of `BridgeLifecycle`, checked here in the composition. |
| `bridge_down` | 2 text and 1 binary receive calls, 2 messages from the host | `DownInFlight`, `DownAreOrderedLinks`, `DownReachesJs` | Splitting one channel by kind keeps the order within a kind, spans the loading of the module, and one kind cannot block the other. |
| `bridge_completion` | 1 coroutine, 1 message | `CompletionDeliversAll`: **violated** | See *Divergences*. |
| `events` | four worlds: a child below a parent, 3 registrations, 1 dispatch; a leaf in a closed shadow tree, its host and `globalThis`, 2 registrations; another target and `globalThis`, 2 events, 2 registrations, 3 frames; on-handlers of `globalThis`, 2 handlers, 2 registrations, 3 frames | `ListsAreSets`, `NoListenerSkipped`, `InFlight`, `ErrorsAreReported`, `ComposedPathHidesClosedTrees`, `CallsAreDue` | Capture and bubble walks while listeners change the lists they walk; dispatches inside dispatches, throwing listeners, error listeners that throw; event paths through shadow trees; handlers that are replaced, set to null and cancel. |
| `url` | one URL and one URLSearchParams of up to 2 pairs; three valid texts and an invalid one; three queries, four ways to make parameters. Three patterns (one invalid) of three components, two strings, a dictionary, a base URL, a cache of capacity 1 | `GettersAgree`, `SearchParamsInSync`, `WalkIsComplete`, `CacheIsTransparent`, `ResultsAreFinal` | No sequence of setters and parameter changes leaves stale offsets or a stale list; no sequence of matches makes the cache lie or changes a result handed out. |
| `pattern_capacity` | the patterns of `url` alone | `MapWithinCapacity`: **violated** | See *Divergences*. |
| `url_subclass` | the URL of `url`, with a subclass given to `URL.parse` | `OwnSerialization`: **violated** | See *Divergences*. |
| `data` | payloads of up to 3 units, limits 0, 1, 3, 4, 6 and none; texts of up to 5 bytes of six classes, all chunkings, all options, sources of up to 3 characters, targets of 0 bytes to all; integer types of 1, 3 and 4 bits and the long ones of 8, doubles of 6 bits, every double up to one and a half times 2^8; objects with 2 keys (`MaxKey`) and up to 2 own properties (`MaxProperties`), all ways to convert the keys; iterators of up to 3 results | `PayloadIntact`, `ChunksDecodeAsWhole`, `EncodeIntoFits`, `IntegersConvert`, `ObjectsConvert` | What arrives of a payload and which limit holds, for both sides; the paths of `decode` agree and calls of different texts do not meet; conversions are right up to the bounds. |
| `payload_limit` | payloads of up to 2 units, limit 2 | `PayloadWithinLimit`: **violated** (by one invalid byte, which is sent as three) | See *Divergences*. |
| `console` | every graph of 3 objects with 2 references each, `depth` 1 and none; one label, four formats with up to 2 further arguments, 2 nested calls, counts up to 2, 1 group; 3 contexts and 3 timers | `InspectionIsExact`, `CallsAreAtomic`, `TimersKeepContexts` | No inspection goes round a cycle, and what it marks as circular is; nested and throwing calls of the console are as if one after the other; contexts of timers do not leak. |
| `inspect_seen` | the same graphs | `SeenIsDepth`: **violated** | See *Divergences*. |

**Why the bounds are enough.** In `ExclusiveReceiver` the interesting states have
a holder, a waiter and a call between its two tests; three calls give all of
them at once, and a second message tells a redelivery from a delivery. In
`FusionBridge` two messages show an inversion, one that fails beside one that does not, and one that is
received while the next is in a queue. Two calls per receiver are
needed for a handover and the third kind of caller for independence of the kinds. The two directions
share no queue and no variable but those of the life of the child, so each has a run of its own. A unit of a
payload is converted independently of the others, so what length three cannot
show, a longer one cannot either; the limits are chosen on both sides of the
widths 1 and 3. For events, three registrations allow one that is being called,
one that is removed and one that is added, and a removed callback that is
registered again uses two; three frames hold a dispatch, the report of an error
in it, and the dispatch of the error event, whose listener may throw again. (A
`Throw` is enabled only if there is room for what it leads to, so no run is cut
off in the middle of a report.) A URL's operations involve no other URL except through the
buffer and the slot, which `CanParse` and `BlobOrigin` overwrite at any time, so one object is enough;
the texts have and lack each optional component, the queries hold empty and unusually spelled
pairs, and a list of two shows an order and a repeated name. A cache of capacity 1 holds two
entries, so that of three keys one is always evicted. Five bytes are a BOM
with something behind it, and every way to break off a three-byte character and begin another;
three characters are one before, at and after the boundary of a target. An integer conversion
looks at a number, its type's width and whether it is safe: with 6 safe bits of 8, as with 53 of 64, the short types
are narrower than the safe range and the long ones wider, and doubles are tried that have halves and quarters, that
have none, that are spaced by more than one, and that are past every bound; a long result has up to two bits
more than a double, so that it is rounded down, up and to the even of two. A cycle of three objects with two references each has every way to come back to an
object on the path, and to reach one twice without a cycle. Two nested console calls are one
inside the other; whatever a third one does to the maps, one of the two could do. Two timers, a third set
by a callback, and a context that neither was set in show a context that leaks. The proofs of
section 5 do not depend on any of these bounds for the parts they cover.

`CHECK_DEADLOCK FALSE` appears where the system really stops: a bridge
that is closed and drained, a payload that has arrived, an inspection that has ended. An event system and a
receiver can always be called again, so their runs check for deadlock
(`ExclusiveReceiver`'s calls may always begin).

### Divergences from the documentation

* `embedder_api.rs:8` calls `max_payload_size` the maximum number of bytes of a
  payload. `from_lua_text` (luau/event.rs:76) compares the length of the Luau
  string and converts it with `to_string_lossy` afterwards, which makes
  three bytes of each invalid one. `payload_limit` shows a text of one invalid byte that passes a limit of 2
  and is sent with 3 bytes; `PayloadIntact` states what does hold.
* `01_urlpattern.js:75-76` says that the first item of the cache is deleted if the map is at capacity
  when one is inserted, and line 124 says so again. The code deletes when `size > capacity` (line 125), so that
  a map at capacity grows by one entry. `pattern_capacity` shows it; that it never holds two more is
  the theorem `MapHoldsOneMore`, and that the cache answers right all the same is `CacheIsTransparent`.
* `cls.ts:6` says that `sendText` sends a message over the bridge. It returns
  once the message is in `msg_tx`; the loop may take the branch of the completed
  module (bridge.rs:90) before it has forwarded it, and then drops it.
  `bridge_completion` shows it. `UpKeepsPrefix` states what does hold.
* `url.rs:61-63` says that a caller who gets `OkSerialization` should use
  `op_url_get_serialization` to get the serialized URL. `URL.parse` (00_url.js:426-428) runs the
  constructor of a subclass in between. If that makes another URL, the slot is empty (the
  op then panics, since `OpState::take` finds nothing) or holds another serialization.
  `url_subclass` shows it; the properties of `url` hold for callers that pass `URL` itself.
* `01_console.js:528-529` says that `seen` only checks for the depth and never grows too large.
  The catch of `formatRaw` (lines 966-972), which is taken when an inspector inside throws, returns
  without the pop of line 986, so the object stays in `seen` for the rest of the inspection, and a later
  reference to it is printed as circular although it is not. `inspect_seen` shows it;
  `InspectionIsExact` states what does hold: no object is gone through twice in any case, and as long
  as no inspector has thrown, the list is what the inspection is inside of.

More observations that no document of the repository contradicts: when the
host is gone, `receive_from_host` fails at once in every turn of the loop, which
goes on (bridge.rs:70); an error of `send_to_host` is ignored there too, so that JavaScript is not told which of
its messages was lost (bridge.rs:77); -1 as an `unsigned long long` becomes 2^64, which is no value of that type
(00_webidl.js:305, where the largest numbers of 64 bits are rounded to a double); and `dispatchEvent` on a target that has no list for the
type returns before it looks at the dispatched flag, after it has set `target` of
an event that may be in another dispatch (02_events.js:1057-1061, modelled in
`DispatchEvent`).

## 4. Fairness

Liveness is checked under weak fairness of steps that a runtime is obliged to
take, and never of a step that a user chooses:

* `tokio::select!` polls its branches in random order, so a branch that stays
  ready is taken with probability one: `RouteFromHost`, `ForwardToHost`, `LoopModuleDone`,
  `LoopCancelled` each have their own weak fairness. Strong fairness is not needed:
  each stays enabled until it is taken or the child ends.
* An executor polls a task that was woken: `Acquire`, `Deliver`, `RecvClosed`,
  `Connected`, `ConnectFails`, `ShutdownReturns`. `receive` may be dropped at any
  time, so the fairness of a call excludes `Cancel` and `Begin`.
* The operating system and the executor crate kill a process they were asked to
  kill (`WF(stopping /\ Dies)`) and notice its end (`CancelToken`). A child that was
  not asked to stop may live for ever: a crash is never fair.
* `LoadDone \/ LoadFails \/ LoadCancelled` together: the load ends, in one of the
  ways. Which one is not constrained. A module that is loaded need not settle.
* JavaScript's turns end. A module that loops for ever would block the child's
  single thread and every one of the statements above; that is also what the
  code does.

`MessagesReachCallers` assumes in its own statement that calls are eventually no longer
dropped: without that, a caller could always withdraw in time.

Nobody is obliged to send, receive, settle, shut down or drop.

## 5. The proofs

TLAPS checks these for all values of the constants: any sets of callers and bounds of
messages; any tree of targets, any events, listeners and depth of dispatches; any texts, queries and
lists of parameters; any inputs, patterns and capacity of the cache; payloads and texts of any length; any
formats, arguments and calls of the console inside each other; any graph of objects; any contexts
and number of timers.

**Receiving ends and bridge.** `ExclusiveReceiver_proofs` proves the five safety properties of
`ExclusiveReceiver`: `TypeCorrect`, `AtMostOneReceiver`, `NoLostWakeup`,
`ExactlyOnceInOrder`, `DrainBeforeError`. None of them is inductive. `MutualExclusion`
needs that the head of `waiters` is a call that waits and occurs there
once (`WaitersAreQueued`), because `Release` makes it the holder; and `waiters` being
nonempty only while the lock is held, because `Begin` and `Acquire` take a free lock
without looking at the queue. Together these are `LockInv`. `ChannelInv` is
`Conservation` with `ClosedMeansDrained`, which support each other: a call may fail with
`closed` only since the queue was empty, and it stays right because nothing is sent
after the close. `IInv == LockInv /\ ChannelInv` is proved action by action, the lock half
through four lemmas, one for each way a step can touch lock and queue: `ReleaseLock`,
`JoinQueue`, `LeaveQueue`, `UninvolvedStep`.

`FusionBridge_proofs` proves, about the composition:

* `NoOrphan`, from `StopInv`. It holds although `Drop` may skip `fire_shutdown`: the
  invariant says that the cancel token is set only if the child was asked to stop
  or has exited.
* `NothingLostUp` and `PrefixUp`, from `UpInv`: while the child runs the accepted messages of
  JavaScript are `hostGot \o up \o outQ`; after it, `hostGot \o up` is a prefix of them. The
  prefix alone is not inductive: that forwarding extends a prefix correctly
  follows only from where the rest is. That a failed send takes one message out of `Accepted` and no other
  rests on the messages being numbered as they are sent (`Numbered`), so that no two are equal, and on
  `SplitHead` of `SequenceLemmas`.
* `UpRefinement`: the direction from JavaScript to the host implements
  a lossy `OrderedLink`. With `UpInv`, a step that extends `hostGot` extends it by the next
  message of `Accepted`, a failed send loses one that was not received, and all others are stutters or sends.
* `NothingLostDown` and `DownRefinement`, from `DownInv`: of each kind, what the host sent is what
  JavaScript got, then what is in the queue of the kind, then a rest; while the child runs, the rest is
  what `down` holds of the kind. The two queues are filled from one channel, so that each
  step that moves a message must leave the other kind's sequence alone: `OfKindSteps` says
  what appending a message does to the messages of a kind, and `OfKindHead` what removing the first does.
* `OneCallPerReceiver`: the three receiving ends inside the composition are
  exclusive (`LocksInv` is `LockInv` for each, reused from `ExclusiveReceiver_proofs`
  through instances; the end of the child resets the two ends that are inside it).
* `HostEndRefinement`: the host's end implements `ExclusiveReceiver`, with the messages
  that were forwarded as the sent ones and the exit of the child as the close.
* `ReceiveFailsLast`, from that and `DrainBeforeError`: `receive` fails with `closed`
  only when the child has gone and every forwarded message was received.

**Events.** `EventDispatch_proofs` proves all the properties of dispatch that a run checks:

* `ListsStaySets`: `ListsInv` says that a registration is in one list once, that a listed one was
  not removed, and that a listed `once` listener was not called; `Wrapped` that an on-handler has its
  wrapper in the list from its first handler on. The second is needed because `SetHandler` registers
  the wrapper without the search for a duplicate that `AddEventListener` makes.
* `EventsAreReset`, from `FlightInv`: an event is in at most one dispatch, and its flags
  (`dispatched`, phase, `currentTarget`, the passive flag) are those of that dispatch's frame
  wherever the frame is in the stack. The property speaks of events that are in no dispatch; that the end
  of a dispatch resets the right flags follows only from what they were during it.
* `NoErrorIsLost`, from `ReportInv`: the dispatch of an error event stands on the report that
  began it, and a report that dispatched, or that its event canceled, is the outermost one.
  That there is one error event in flight is thus a consequence of how reports nest, and
  not of the flag alone.
* `NoListenerIsMissed` and `OnlyDueCalls`, from `WalkInv`: what a walk, at any depth of the stack,
  may rely on while listeners change the lists. `PlaceInv` and `PhaseInv` say where it is;
  `StartInv` that a registration of the copied list is still where it was, as it was, or was removed;
  `MissInv` that what the walk is past was called, removed, stopped or not for this phase;
  `CalledInv` that what was called belongs to a part of the path that the walk does not
  visit again, or to the part of the copied list that it is past. Only the last one excludes a second
  call, since a slot is walked in both passes.
* `ClosedTreesAreHidden`: `composedPath` leaves out exactly the targets of closed trees that the current
  target is not in, and keeps the order. Induction over the tree (`TreeInduction`) shows that the path of
  every target leads from parent to parent to where the tree ends (`Climbs`), and so visits no target twice
  (`ClimbsOnce`) and that the inclusive ancestors of a target on the path are what follows it there
  (`AncestorsFollow`); with it, what `composedPath` hides and what the current target may know of are
  complements (`ShownIsVisible`).

A stack of any depth is treated by classifying steps rather than actions: `StepHasAKind` shows that every
step leaves the stack alone, changes its top, begins, ends or reports (`QuietStep`, `WalkStep`, `BeginStep`,
`EndStep`, `ReportStep`), and each invariant is proved once for each kind. `ListStep` says what any
step may do to the lists: add registrations with new numbers and remove ones. With it `WalkIsStable` settles
all the frames below the top at once, and one lemma for each way a walk goes on
(`EntersAWalk`, `SkipsInAWalk`, `CallsInAWalk`, `ReturnsInAWalk`, `LeavesAWalk`) settles the top.

**URLs.** `Url_proofs` proves:

* `SearchParamsAgree` and `WalksAreComplete`, from `UrlInv`. That the list is what the query means is
  half of it, and proved under `~Subclass`, because the list is made of a slice: it needs that the
  offsets are the object's own. The other half is that the slot, if it is set, and the texts of the calls of `URL.parse` in progress are
  texts of URLs, since an object may be made of them later, and that a walk that has not been told of a move has visited
  the names before its index. `WalkKeeps` shows that a list which only grows cannot disturb a walk.
* `GettersGiveComponents`, from `OffsetsInv`: the offsets of an object measure its serialization. It is proved
  under `~Subclass`, that is for callers which give `URL` itself to `URL.parse`; for others the run
  `url_subclass` shows that the offsets may be those of another URL. The invariant adds that at most one
  `URL.parse` is in progress and that the buffer then measures what the slot or the argument holds. The pure half is
  longer: `IsLaid` says what text is laid out where, and for each getter a lemma that its
  slice is the component, for instance that a colon after the user name can only begin a password (`CutUser`),
  because no token is a delimiter.
* `ParseTakesItsOwn`, in the same case: `URL.parse` takes the serialization its op left, and does not panic.

`UrlPattern_proofs` proves `CacheAnswersAsOp`: `CacheInv` says that the keys in the map are unique,
that each value is what the op gives for its key, and that the map exceeds its capacity by one entry at
most. Uniqueness is needed because `getOrInsert` moves an entry by removing one occurrence of its key and
appending it. From the same invariant, `MapHoldsOneMore` bounds the map. `ResultsStayFinal` rests on `ResultInv`: a kept object belongs to one pattern and was not returned,
and what failed matches left in it names no groups but those of its pattern's components (`Fits`), so that a
match overwrites all of it (`FilledByMatch`).

**Values.** `Data_proofs` proves `EncodesWhatFits`: the loop that goes back from the size of the target finds the
last boundary of a character, since a character has four bytes at most. `PayloadsStayIntact`: the result of
the conversion is text again, and what is measured is what travels, for all payloads and limits.
`ChunksAreOneText` proves `ChunksDecodeAsWhole` for texts and chunks of any length. The decoders are compared with a third
one that the code does not have, the *scan* (`Scanned`): it reads all bytes, goes on after errors and keeps the
byte order mark. (a) What the scan writes are the characters of all bytes at once (`ScanParses`): after
each byte, the text is what is written, followed by the text from the first pending byte on (`Reached`). (b) What is pending
is the longest beginning of a character at the end, and only that is undecided (`PartialSuffix`, `DecidedIs`). (c) The native decoder
follows the scan (`Follows`), but for the mark at the beginning and for what comes after an error that is fatal, where it only has
to know that there was one. (d) V8, which takes the mark off the bytes before it decodes, writes the
same as the decoder that takes it off the characters (`StripIsWhole`). The inductive invariant `TextInv` says that
the decoder in `#handle` is where the scan of all bytes of this text is; that the fast path finds no handle
and the next text no remainder of the last one is part of it.

`IntegersAreConverted` proves `IntegersConvert` for types of any width and doubles of any size and precision. What a
conversion gives is defined there by what it must be (nearest, congruent, in the range, and where the result may be
rounded), and the proof goes through
the operators of the code one at a time: `EvenRoundIs` (a whole number at most a half away, the even one of two such), `ClampIs`
(rounding after clamping is the nearest of the range, because the bounds are whole numbers), `ModuloIs` (the remainder of
JavaScript, which has the sign of the dividend, corrected to that of the divisor), `WrapIs` (one subtraction brings
a remainder into the range of a signed type), `AsBigIntNIs` (the number `CHOOSE` looks for exists). That `Number` rounds the long results only where a negative number
becomes an unsigned one rests on `LongLongIsDouble`: a double outside the range of 64 bits is a multiple of so large
a power of two (`LastBitsAreDouble`) that its last 64 bits are a double again. For negative numbers taken without their sign
they are not, and `NumberIsNearest` shows that no double is nearer than the result. That a power of
two doubles with its exponent is `PowersDouble`, derived from the library's count of the subsets of a set, since `^` itself
is known to no prover; products with powers are bounded by lemmas of their own (`ProductIsLarge`).
`ObjectsAreConverted` proves `ObjectsConvert` for any number of keys and properties. `ReadUpTo` is the invariant
of the loop over the members of a dictionary: as long as nothing was refused, what is in the dictionary is what was given among
the keys passed, over the defaults; once something was, the keys read are those up to the first refused one. For records,
`SelectValues` says which properties the fast path and the slow one look at, whatever the converter makes of their
keys. The theorems are about one step each, as
a conversion starts from nothing and is made in one call.

**Scripts.** `Script_proofs` proves:

* `ContextsAreKept`: `TimersInv` says that a timer in the queue holds the context it was
  set in and was not cleared, and that, while a callback runs, the context of the event
  loop is in `oldContext`. Without the second part `Finally` could restore anything.
* `ConsoleIsAtomic`: `Console` implements `AtomicConsole`. A step of the code is the whole call or a
  stutter, and that the printed line is complete, however many calls happened inside, is the
  invariant: a call that waits holds a complete line. Why the line is complete is the pure
  half: the loop over a format string keeps that what it has written so far has the arguments before the current one
  once and in order, except those of styles (`RoundKeeps`).
* `InspectionKeepsTrack`, from `InspectInv`: the formatters at work are embedded in `seen`, in order, and are different;
  the proxies among them made the contexts that follow the first, and each level of indentation belongs to
  one of them; as long as nothing has thrown, `seen` is exactly the formatters' values and the maps of circular
  references hold values at work. A thrown error leaves `seen` too long, so that only the
  embedding stays true, and it is what excludes a second visit. `DistinctPush` shows that a value which `seen` does not
  contain is also none of the formatters', and `MarksKeeps` that a number given to a value in the map is
  never given to another one.

**Assumptions of the proofs.** They are stated as `ASSUME`s or as hypotheses of the theorem, and TLC evaluates each of
them in the runs: `BoundsAssumption`, `MaxSendsAssumption`, `TextEncodingAssumption` and `TimersAssumption`
(bounds are naturals, the first context is one of the contexts); `EventDispatchAssumption` (which sets the
constants are in; `globalThis` is a target, an on-handler is for a type of its target) and `TreeAssumption` (going from
target to parent ends); `UrlAssumption` (what is parsed, assigned and passed to `URLSearchParams` is what the url crate and
WebIDL let through: `IsUrl`, `IsQuery`; a token is no delimiter, as the crate percent-encodes delimiters in components; bounds are naturals);
`UrlPatternAssumption` (what the op makes of an input is given for every input and base, with a value for
each component of a pattern); `PayloadAssumption`; `WebIdlAssumption` (widths of types are positive, the short ones at most that of a safe integer and the long one
more, bounds are naturals); `ConsoleAssumption` (formats are sequences of characters);
`InspectAssumption` (objects are numbers, limits are naturals).

**How induction is done.** The installed provers cannot use the library's induction theorems, which take an operator. The
proofs use sets instead: `SetInduction` of `SequenceLemmas` is about a set of numbers that contains 0 and successors,
and follows from the least element of its complement; `SeqInduction` and `TreeInduction` are made the same way. A
recursive function is defined by `CHOOSE`, so that its equation holds only if such a function
exists: `RecursionExists` proves it for functions of numbers, and `TreeRecursion` for
functions of the tree. For this reason `Select` and `Sums` of `SeqFunctions` are recursive functions and not
`SelectSeq` and folds, which take operators.

**Only model-checked:** everything temporal with `~>`, as the prover has no rule for fairness. Of the converters of
`WebIdl`, those for floating-point numbers, strings, sequences, promises, callbacks and interfaces are modelled, without
a property of their own: each is its own definition.

## 6. Assumptions about code outside the repository

* concurrentlyexec: an IPC channel keeps order and loses nothing while both
  ends live, except messages whose send returns an error; `recv()` is cancel safe (the select loop drops the future of
  `receive_from_host` in every turn, bridge.rs:62; since a dropped `recv()` has taken nothing, `RouteFromHost`
  takes a message and routes it in one step); after the death of the sender it yields what is
  still in the pipe before it fails; `shutdown()` kills the process and `wait()`
  returns when it has gone; the cancel token is set at some time after a shutdown
  was asked for or the process ended, and not before.
* tokio: `Mutex` is first come first served; `mpsc` channels are ordered.
* url: `internal_components` gives the offsets of the serialization that `String::from` gives, and
  parsing a serialization yields the same URL.
* V8: numbers are doubles of IEEE 754, and `Number` of a BigInt is the nearest one, the even one of two.
* encoding_rs and V8 decode UTF-8 as `TakeByte` and `Characters` say: one replacement for each longest
  beginning of a character; a BOM is removed only at the start, also when it comes in parts. A `str` that
  an op borrows from V8 is ASCII.
* deno_core: an op's future is dropped only with the runtime; dropping the runtime
  drops the EventBridge; `reportUnhandledException` returns; the timer queue calls a callback only
  from the event loop, so never inside another one, and a cleared timer never.
* urlpattern and V8's regular expressions: what they make of an input depends on the input alone.
* Luau: a coroutine inside a call keeps its userdata alive, so `Drop` runs when no
  call of it is in progress.

## 7. What is not modelled

* The death of the host process, and an error of `executor.shutdown()`: what follows is decided
  by the concurrentlyexec crate.
* Construction of the runtime, snapshot and frozen global (`inner.rs` outside of the
  heap-limit callback): one sequence of calls before any message.
* The module loader is a lookup in a constant map; its outcome is `LoadDone` or
  `LoadFails`.
* Of events: `relatedTarget` and the touch targets, which no event of this runtime has; the `signal` option; the
  attributes of the subclasses of `Event`, which are set once.
* Of URLs: the percent-encoding of components, and the serialization of a URL without a host whose path
  begins with `//`: the url crate does both. `origin` of a blob URL is modelled by its effect on the buffer.
* Of URLPattern: the compilation of a pattern, which is in a crate.
* Encodings other than UTF-8 (tables of encoding_rs), `TextDecoderStream` and `TextEncoderStream`: their
  constructors use `TransformStream` (00_text_encoding.js:292,393), which nothing in this runtime defines.
* Of WebIDL: the definition of properties on prototypes (`configureInterface`, `setlike`) and async
  iterables, which nothing in this runtime converts.
* Of console and inspect: the layout of the text (width, colours, grouping), the kinds of built-in objects
  whose text has no references in it, the causes of errors, aggregate errors, and more than one `Console`.
* base64, DOMException and globals (stateless), structuredClone (one op), `parallelluau` (not
  compiled), the examples.

## 8. Plan

Done, in this order:

1. `ExclusiveReceiver`, with its proofs: the same pattern is used at three places.
2. `BridgeLifecycle`, `FusionBridge`, `OrderedLink`: the composition, its refinements and
   the proofs about the direction to the host.
3. `Payload`, `EventDispatch`, `Url`, `TextEncoding`.
4. `EventDispatch`: the event path with retargeting, cancellation, on-handlers; `Url`: stand-alone parameters,
   all setters, walks; `WebIdl`; `UrlPattern`; `Inspect`, `Console`, `AtomicConsole`; `Timers`.
5. The proofs of every safety property of the bridge, events, URLs, URLPattern, console, inspect, timers, payloads,
   text encoding and WebIDL; for this, recursive functions (`Select`, `Sums`, those of `Run`, `Characters` and `Dictionary`) instead of
   `SelectSeq` and folds, and the tree of targets assumed to be a tree rather than a path to visit no target twice.

Left:

1. The death of the host process, once it is settled what the concurrentlyexec crate does then.
2. Layout of the console, where it depends on the values (grouping of long arrays, the width).
