# cosmic-voice in TLA+

cosmic-voice is push-to-talk dictation for a Wayland desktop: a trigger key (or
a command on a socket) opens the microphone, two speech models work on the
audio, and the text lands in the focused field, through the input-method
protocol where there is one and through a virtual keyboard where there is not.
The process also stands in for IBus while it holds the input-method role.

This directory holds TLA+ modules of its concurrent parts, TLC configurations
that check them on small instances, and TLAPS proofs of the main results for
every value of the constants. Paths below are relative to the repository.

## Inventory

### Components

| Component | Source | State | Operations | Here |
|---|---|---|---|---|
| Engine | `src/engine.rs` | `State`, armed flag, `rebinding`, `utt_seq`, `seg_*`, `last_hyp`, segment bounds, sequence and cursor in the audio ring | `on_key`, `on_command`, `on_tick`, `on_asr`, `on_rebound`, `start_recording`, `finish_recording`, `cut_segment`, `cancel`, `set_enabled`, `start_rebind`, `on_segment`, `commit`, `emit` | Engine, Utterances |
| Recogniser threads | `src/asr.rs` | two models, two command channels, one event channel | load, `Reset`, `Feed`, `Transcribe` | Engine |
| Listening | `src/vad.rs`, `engine.rs` | speech detector, silence gate, segment gate | `push`, `reset`, `listen` | Segments, Listening |
| Hotkey watcher | `src/hotkey.rs` | mode, held, trigger, open descriptors, pending request | rebuild, poll, capture, time out, report | Trigger |
| Audio | `src/audio.rs` | ring of 131 s, write position, the stream's connection | `write`, `read`, `mark_preroll`, reconnect | Ring; Segments (as windows) |
| Sink and injector | `src/sink.rs`, `src/inject.rs` | which path is open, characters typed | `begin`, `preedit`, `commit`, `cancel`, `type_text` | Delivery, Typing |
| Input-method frontend | `src/im/frontend.rs`, `dictation.rs`, `command.rs` | pending and applied protocol state, turn, preedit on screen, held preedit, keyboard session, repeat | `on_done`, `on_key`, `on_upstream`, `on_command`, `apply_dictation`, `apply_records`, timers | Delivery, Keyboard, Field, Upstream |
| Key routing | `src/im/router.rs`, `keyboard.rs`, `content_type.rs` | pressed-key records | `route`, `forget`, `from_wayland` | Keyboard, Field |
| IBus connections | `src/im/link.rs`, `src/ibus/*` | connection, context, retry time, signal thread | `ensure`, `connect`, `lost`, `process_key` | Upstream, Field (drains) |
| Engine switcher | `src/im/switcher.rs`, `properties.rs` | cycle, current engine, menu, held activations | `on_trigger`, `on_engine_changed`, `update`, `lost` | Upstream |
| Supervisor | `src/im/supervisor.rs`, `mod.rs` | restart backoff, attachment | `run_supervised` | Delivery, Upstream, Mirrors |
| Candidate popup | `src/im/popup.rs` | two buffers, frame callback, active, dirty | `on_signal`, `set_active`, `flush`, `paint`, `unmap`, `on_frame`, `on_release` | Popup |
| Control socket and mirrors | `src/ipc.rs`, `engine.rs` `run_mirror`, `app.rs` | lock, snapshot, broadcast, subscriber's copy | `spawn`, `serve`, `emit`, `apply` | Mirrors, Engine (the snapshot) |
| Config file | `src/config.rs` | the trigger | `load`, `persist_trigger` | Mirrors |
| Presentation, rendering, codecs, logs, entry points | `src/app.rs`, `im/render.rs`, `im/theme.rs`, `ibus/text.rs`, ... | none that a protocol depends on | - | not modelled |

### How they interact

```
 keyboard --evdev--> hotkey watcher --channel(16)--> +--------+ --events--> mirrors
                        ^ capture request            |        |
                        +--------(flag, eventfd)-----| engine |
 socket, applet ---------commands------------------> |        | --dictation--> frontend --> field
 PipeWire --ring--------read by position-----------> |        |  <--status---     |
                                                     |        | --keys (fallback)---------> field
 streaming thread <--Reset/Feed----------------------|        |                   +--> IBus
 offline thread   <--Transcribe----------------------|        |
        both      ---Partial/Final/Ready/LoadFailed->+--------+
```

The engine is one thread with one select loop. Each recogniser, the watcher,
PipeWire, the frontend, IBus's signal reader and each socket client is a thread
or task of its own. Everything between them is a FIFO channel except the audio
ring (positions, no locks), the watcher's pending request (mutex and eventfd)
and the frontend's status (atomics).

### What is hard

- Answers from the models come back long after the question, across a cancel,
  a disarm or a new utterance; only a sequence number tells them apart, and a
  hypothesis carries none.
- An utterance is transcribed in segments cut while the user still speaks; it
  ends on a count of answers, and one that never comes leaves the engine in
  `Transcribing`.
- A rebind crosses a mutex, an eventfd, a poll loop with a deadline, and a
  bounded channel shared with key edges, and its answer has to arrive exactly
  once; the watcher may be rebuilding, capturing, blocked, or dead.
- What `listen` decides depends on where a tick happens to split the audio, on
  a detector that lags, and on an early return.
- Focus, activation and credentials change under an utterance, on another
  thread.
- What is known of the IBus daemon comes over two sockets, read by two threads,
  in no order between them, and the daemon may restart under both.
- The audio ring has no lock: the realtime thread writes while the engine copies.
- Application, compositor and engine each hold a copy of the field's text, one
  step apart, two of them in bytes and one in characters.
- Any applet process may have to take over the engine, and its view is fed by
  channels that drop events.

`PROJECT.json` lists each hazard at its line, with the properties that cover it.

### What makes each component correct

| Component | Properties |
|---|---|
| Engine | one utterance at a time, each ends once; a commit is whole, in spoken order, and from this utterance only; the count of answers is exact; the engine comes to rest; mirrors are told when it does |
| Recognisers | hypotheses of two utterances never mix; answers in the order of the questions |
| Listening | a cut never splits a word; no word is lost; no silence is decoded |
| Trigger | one answer per rebind; watcher and engine agree on the trigger; the choosing press is no dictation; a rebind ends |
| Sink and frontend | a commit lands once, in the field it was spoken for, or is typed; the preedit on screen belongs to whoever has the turn |
| Keyboard | grabbed exactly while a field is active and not secret; no key of a secret field goes to IBus; no key stays down in the window; no repeat after release |
| Field | the frontend describes the field as it is and nothing of the last one; a deletion takes whole characters, at least those asked for |
| Typing | what was said reaches applications once and in order, whatever the keymaps |
| Upstream | a late loss of an old connection does not cost the new one; engine and menu on show are those in effect; a field gets a context again |
| Mirrors | an applet that is caught up shows what the engine is in; one process owns the engine as long as one can |
| Popup | a buffer taken for free is not with the compositor; what is asked to be shown is shown eventually |
| Ring | a read gives what was captured, and skips only what is gone |

## Modules

| Module | Models | Lines it stands for |
|---|---|---|
| `Utterances` | the abstract promise: capture, transcribe, land at most once, in order | - |
| `Listening` | what one call of `listen` may conclude, as the engine sees it | `engine.rs` `listen` |
| `Engine` | the engine's handlers, the two recogniser threads and their channels; implements `Utterances` | `engine.rs`, `asr.rs` |
| `Segments` | `listen` itself, window by window, with the detector and both gates; shown to conclude nothing `Listening` leaves out | `engine.rs`, `vad.rs` |
| `Trigger` | keyboard, watcher thread, channel, and the engine as far as it reacts to them | `hotkey.rs`, `engine.rs` |
| `Delivery` | sink, link, the frontend's turns and activation, its restarts; compositor and IBus as the code sees them | `sink.rs`, `im/command.rs`, `im/dictation.rs`, `im/frontend.rs`, `im/supervisor.rs` |
| `Keyboard` | grab, credential fields, routing, repeat, the trigger swallowed, IBus coming and going | `im/frontend.rs`, `im/router.rs`, `im/keyboard.rs` |
| `Mirrors` | applet processes, lock, socket, broadcasts, snapshot, the applet's fold, the config file | `engine.rs` `spawn`, `run_mirror`, `emit`; `ipc.rs`, `app.rs`, `config.rs` |
| `Upstream` | context and panel connection, their threads and backoff, switcher, menu, what the applet is told | `im/link.rs`, `im/switcher.rs`, `im/properties.rs`, `im/frontend.rs`, `ibus/*` |
| `Popup` | the candidate window and the wire to the compositor | `im/popup.rs` |
| `Field` | surrounding text, content type, drained effects | `im/frontend.rs`, `im/content_type.rs`, `ibus/context.rs` |
| `Typing` | live typing: stable prefix, segments, keymaps, keys | `engine.rs`, `inject.rs` |
| `Ring` | the lock-free ring, its writer and its reader | `audio.rs`, `engine.rs` |
| `Periphery` | the six above, one at a time, for one run | - |
| `EngineProofs`, `KeyboardProofs`, `TriggerProofs`, `SegmentsProofs`, `DeliveryProofs`, `InputProofs` (Field and Typing), `UpstreamProofs`, `PeripheryProofs` (Ring, Mirrors, Popup, and the whole) | theorems and proofs | - |

### Engine

`state` is `State`: `Held` and `Open` are `Recording` with `held` true and
false. `utt` gathers what belongs to one utterance: `seq` (`utt_seq`), `wait`
(`seg_wait`), `last` (`seg_last`), `error`, `heard`, `texts`. Every handler of
the loop is one action; those that depend on the state are split by the branch
they take (`PressStarts`, `PressStops`, `ReleaseStops` are `on_key`;
`DropAnswer`, `FileAnswer`, `SettleUtterance` are `on_segment`). `Finish` is
`finish_recording` and all it calls. A tick takes one of two ways: `Listen`,
which goes on, or `TickFinishes`, where silence or the cap ends the recording;
`elapsed` is the clock in whole seconds, so a tick is a `Tick` in the same second
or a `Second` later.

The audio between two calls of `listen` is a choice from `Outcomes`
(`Listening`): the cuts made, whether each carries speech, whether the silence
gate spoke, whether the streaming model was fed. `Segments` proves that choice
large enough on bounded audio: its property `ConcludesAsAssumed` compares every
conclusion of the real loop with `Outcomes`.

The offline thread's queue and its part of the event channel are one sequence,
`segments`: an entry is pending, then carries an answer, and the engine takes
answers from the head; it is exactly a FIFO queue through one thread. Texts are
numbers (the segment they came from), a hypothesis is the set of utterances
whose audio it was made from: this is all the properties can tell apart.

### Segments

Time is counted in windows of `TICK_MS` (60 ms). A window is spoken or not, the
detector believes a change after two windows that agree. `Judge` is one turn of
the loop in `listen`, in its order: silence gate first, and its verdict returns
at once, also when the segment gate has just reported a cut. Positions are in
half windows because a cut lands half a pause back.

### Trigger

`down` is the physical keyboard, `unread` what the open descriptors hold for
the watcher; a rebuild of the descriptor set empties it. `held` is one flag for
all descriptors, as in the code. `TakeRequest`, `CaptureTimesOut`, `CaptureKey`,
`ReadEdge` are the branches of the poll loop, `Rebuild` a hotplug or a
descriptor that fails, `Die` an error that ends the thread. `SendKey` blocks
while the channel is full. All keyboards are one queue of events: the code reads
one descriptor after the other (hotkey.rs:311), and nothing checked here depends
on the order between two keyboards.

### Delivery

Three threads' worth of state: the engine as far as its sink goes (`phase`),
the link (`loop`, `active`, `commands`), and the frontend (`here`, `turn`,
`held`). `TextSink::preedit` and `commit` read the published flag and then send;
the two halves are steps of their own (`LookCommit`, `SendCommit`), because the
frontend runs between them. `loop` is the frontend's life: `attached` (channel
there, flag not), `up`, `over`, `unbound` (flag withdrawn, channel still there),
`down`; only an `up` frontend handles anything.

The compositor and IBus are external and modelled from what the frontend does
with them. The compositor moves the focus first and tells the frontend in
`events`, which it reads later; a commit or preedit goes to whoever has focus
when it arrives (the comment at frontend.rs:1045). IBus holds at most one
conversion, shown by keys or by a signal read later. The fallback is the default
one, `WaitForFinal`; what `StreamOnly` types is in `Typing`.

`moved`, `gap`, `dropped`, `begun`, `landed`, `committed` are histories for the
properties: utterances in whose time focus or frontend changed, those where it
changed between the engine's look at the flag and the handling of the commit,
and what became of texts. No guard reads them.

### Keyboard

The frontend's keyboard: `session` is `session.is_some()` (grab and virtual
keyboard together), `keymap` whether the session's keymap has come and compiled,
`repeat`, `generation` and the `timers` still in the event loop. `OnDone` is
`on_done` with its branches (`Activate`, `Deactivate`, `BecomesSecret`,
`NoLongerSecret`, `StaysAsItIs`), `OnKey` is `on_key` down to `route`.

What the compositor sends waits on `wire`; what the frontend asks takes effect at
once. Events of a grab that was released may still be read, as they are when one
batch from the socket holds them: the code's guards (`no virtual keyboard`, no
keymap) are what makes them harmless, and they are in the model. There is one
window, so that what it believes of the keys (`appDown`) survives a change of
field; a change of window would reset it. A key is a latch or not; whether a
press is printable text depends on modifiers too and is a choice.

One assumption about IBus: it takes no release of a key whose press it left to
the application. docs/multiplexer.md:616 measured an exception, the release that
ends a switch of engines, and calls it harmless.

`strayed`, `leaked`, `overtaken` are histories for the properties.

### Mirrors

`role` is where a process is in `spawn`: contending for the lock, primary,
mirror, stopped. An event has a facet (capture state, logging, trigger, input
method); the snapshot is the newest of each. `live` and `feed` are the two
broadcast receivers between engine and applet, each of capacity `Cap`, dropping
the oldest; `missed` records the facets whose newest event was dropped, which
`CaughtUp` excepts. The engine is reduced to what it emits. `disk` is the config
file: read once when a process starts, replaced as a whole by a rebind or not at
all.

### Upstream

`ctx` is the context in `Link` with its thread: `live`, `deaf` (its thread has
ended and said so, or will), `dead` (its daemon is gone). `threads` are all
signal threads there are, those of dropped contexts too, which is what a late
`Lost` comes from. `ctxOut` and `panelOut` are the two threads' channels; the
frontend takes from either. `joining` is the time inside `Switcher::connect`,
when signals are subscribed and not yet handled. The panel can be `deaf` too: a
signal that cannot be decoded ends its thread while the daemon is up
(`PanelSignalGarbled`), and engines can still be set through it until the
frontend reads that it ended. A press of the switch trigger,
a click in the popup, an engine's own mode change and another program's switch
are the user's and the daemon's (`MaxChanges`); the daemon, a thread or the
frontend may stop (`MaxFaults`). `unheard` is history, for `MenuIsTheEngines`:
the engine changed, or the daemon died with something of it still here (a menu, a
context, a signal not yet read), and no context of the field has said since
what is in effect.

### Popup

Requests and events pass each other on `wire` and `back`. `generation` is the
code's own; `life` numbers a slot's buffers, so that a late release can be of a
buffer that is gone. `flush` runs at the end of an event-loop pass (`inPass`). A
view is rows, cursor, page and whether there is an auxiliary text.

### Field

The application's text and caret, the events on their way (`inbox`), what is
pending and what is in effect after `done`, what the context was told, and what
was asked of the application (`requests`). A character has one byte or three
(`Wide`). `Key` is what an engine does with a key: its effects as the daemon's
tagged entries, decoded (`Decoded`) and applied in order.

### Typing

An utterance's hypotheses, what of them is typed (`vkTyped`), and the job of
`type_text`: segments of at most `Budget` distinct characters, each with its
keymap, its keys and a wait for the compositor. `Handle` is the compositor: a key
means what the keymap says that was installed before it.

### Ring

A sample is its position. The writer stores one sample a step and then publishes
the count; the reader loads the count, clamps, and copies one sample a step. The
engine's two cursors (`segStart`, `cursor`) and the order of its reads are those
of `listen` and `cut_segment`. A relaxed load may return anything the slot has
held since the count was loaded.

### Periphery

These six share no state with each other, so one run takes them in turn: an
initial state chooses the component that moves, and each property is that
component's. Exploring them together would only multiply the states.

## Runs

| Run | Checks | Shows |
|---|---|---|
| `engine_hold` | `TypeOK`, `WaitCountsOutstanding`, `WaitingForSomething`, `InSpokenOrder`, `RestingIsShown`, `HypothesesArePure`, `CommitsWholeUtterance`, `ImplementsPromise` | the bookkeeping of segments holds across cancels, disarms, rebinds, late answers and models that fail to load |
| `engine_toggle` | `ComesToRest` | every capture ends, by silence or by the cap |
| `segments` | `TypeOK`, `NoWordSplit`, `WordsAreDecoded`, `NoNoiseDecoded`, `ConcludesAsAssumed` | where audio is cut and which cuts are decoded, for every pattern of speech and every schedule of ticks |
| `trigger` | `TypeOK`, `OneAnswerPerRebind`, `TriggersAgree`, `ChoiceIsNoEdge`, `RebindEnds` | the rebind protocol |
| `delivery` | `TypeOK`, `LandsAtMostOnce`, `LostOnlyInTheGap`, `SteadyLeavesNothing`, `PartialsStayHome` | where a dictated text lands, with focus moving and the frontend restarting at any moment |
| `keyboard` | `TypeOK`, `GrabFollowsField`, `SecretsStayHome`, `RepeatOnlyHeld`, `NoKeyStuck` | who has the keyboard and who sees which key, while fields change, IBus goes and the trigger is rebound |
| `periphery` | `TypeOK`, `CaughtUp`, `SomebodyTakesOver` (Mirrors); `ShownIsInEffect`, `ContextComesBack` (Upstream); `BusyIsHonest`, `PopupSettles` (Popup); `KnowsTheField`, `DeletesWhatWasAsked` (Field); `TypesWhatWasSaid` (Typing); `ReadsWhatWasCaptured` (Ring) | the components around the core, each under its own faults |
| `engine_stale`, `segments_pause`, `segments_preroll`, `trigger_dead`, `delivery_midword` | one each | where the code departs from its own words: see below |

### Bounds, and why they are enough

- `engine_hold`: `MaxSeq = 3` gives a first utterance that is abandoned or ends
  and a second one with the first one's answers still out; a third adds no new
  relation, since an answer is either current or not. One cut and a tail give an
  utterance of two segments; one second and a backlog of one keep the clock and
  the streaming queue at the limits they can hit. The proofs do without the
  bounds.
- `engine_toggle`: two seconds, so that a tick may pass without reaching the cap.
- `segments`: nine windows hold a pre-roll, a word, a pause long enough to cut, a
  word and the silence that ends it. Silence (4 windows) and pause (3) are in the
  order of the shipped 700 and 500 ms; the speech a segment needs is 2 windows and
  not the shipped 3 s, so that an utterance of nine windows can be cut. The
  theorems are for all values.
- `trigger`: three keys (the trigger, another, Escape), a channel of two and two
  unread events: full channels, a press that outlives a capture, a second
  request behind a first.
- `delivery`: two fields and a plain window, so that focus can leave for nothing,
  for another field, and come back; two utterances, so that one's commands are
  still queued when the next begins; one conversion, two moves of the world
  (focus changes and restarts together). Partials and idle cancels wait while
  two commands are queued (`MaxCommands`); what ends an utterance never waits.
- `keyboard`: a letter, a latch and the trigger; two presses, each with its
  release, so that a second key can interrupt the first one's repeat; three
  changes of the field, so that a grab can end and another begin, or a field turn
  secret and back, with events of the first still unread; one loss of IBus.

- `periphery`. Mirrors: two processes, each of which can be primary, mirror and
  gone; channels of one event, so that lag is the rule; two events of the engine
  or ends of a process. Upstream: an engine with a menu and a layout without;
  three changes, so that two presses meet and a third program switches; one
  fault, at any moment. Popup: two buffers as in the code, a table of a full page
  and a short one, four signals (show, move, hide and show again). Field: plain,
  secret and terminal fields, narrow and wide characters, texts of two, deletions
  on either side of the caret and beyond both ends, four steps. Typing: a keymap
  of two characters, hypotheses that grow, change their mind and split words, two
  utterances of three hypotheses. Ring: four slots, chunks of two from buffers of
  three, a pre-roll of two, eight samples, so that the writer goes round twice.

### Fairness

The select loop polls every ready arm without preference, so a ready result is
taken eventually (`running /\ Results`), and the clock goes on (`running /\
Second`). The recognisers are threads with nothing else to do (`StreamStep`,
`OfflineStep`, loading). In `Trigger` the poll wakes for its eventfd and its
deadline (`TakeRequest`, `CaptureTimesOut`) and the engine reads its channel.
Nobody has to press, release or send anything, and nothing has to fail or not
fail: `ComesToRest` holds without a release because of the cap.

In `periphery` each component has its own. Mirrors: every process keeps polling,
so a free lock is taken, a socket read, an end of file noticed (`FairStep`);
no applet has to be started. Upstream: the frontend's tick, its channels and
the daemon's answers (`FairSteps`); nobody has to switch engines, and a daemon
that is down need not come back. Popup: the event loop flushes at the end of each
pass and reads what comes, and the compositor takes commits, answers them with
a frame callback and releases a buffer it has replaced; it does not have to
release one before.

## Proofs

`EngineProofs` proves, from `ConfigAssumption` alone (the constants have their
types and the cap is at least one second), for any number of utterances, cuts
and seconds:

| Theorem | Says |
|---|---|
| `TypeCorrect` | types, and no recording outlives its cap |
| `CountsOutstanding` | `seg_wait` is exactly the number of segments out for this utterance, and they are the last ones dispatched |
| `WaitsForSomething` | in `Transcribing` an answer is out; at rest none can commit |
| `SpokenOrder` | what is committed is in the order of speaking |
| `RestShown` | a mirror is not told of a capture that is over |
| `CommitsWhole` | a commit leaves no segment of its utterance out |
| `KeepsPromise` | `Engine` implements `Utterances`, step by step |
| `LandsInOrder` | what `Utterances` promises: utterances land once each, in the order of speaking |
| `NeverMixed` | no hypothesis is made from two utterances' audio |

None of the safety properties is inductive alone. `Inv` is: that the count is exact needs
answers to be numbered on end (`WaitCountsOutstanding`), none to be of an
utterance to come (`NoneFromTheFuture`: otherwise raising `utt_seq` would make
one current), and a dead thread's queue to be gone (`GoneWithItsQueue`). Order
needs the transcript to be ordered (`TextsInOrder`) and everything on it to have
been dispatched before all that is still out (`FiledBeforeOut`). Each action
that touches `utt` or `segments` has a lemma of its own; actions that touch
neither share one.

`NeverMixed` rests on what the channel of the streaming thread owes its decoder
(`Track`): chunks of different utterances have a `Reset` between them, a chunk
with no `Reset` before it goes on with what the decoder has heard, and while a
recording runs both hold of the chunk it would send next. Without the last, a
`feed` after a cancelled utterance could not be shown to find its decoder reset.

`KeyboardProofs` proves, from `KeysAssumption` alone, for any set of keys and
any number of presses, changes and losses:

| Theorem | Says |
|---|---|
| `TypeCorrect` | types; no timer or repeat of a generation to come |
| `GrabIsTheFields` | grab, popup, IBus focus, keymap and repeat follow the field |
| `SecretsKept` | no key pressed in a credential field goes to IBus |
| `OnlyHeldRepeats` | what repeats is held, and one timer beats for it |
| `NoneStuck` | the window believes no key to be down that is not |

The grab's relation is inductive with the types. `SecretsKept` is about the wire:
`KeysKnowTheirField` says that whatever key of a credential field is unread, the
last announcement before it is of a credential field, or there is none and the
frontend knows already. So when it is read there is no session, hence no keymap
(`Forget` in `release_keyboard`), and without a keymap a key is not given to IBus.
The last two share `Held`: as long as no grab reads keys of another, every press
on the wire of a grab is answered by a key that is down or by a release behind
it, so a key that repeats or that the window holds always has one or the other.

`TriggerProofs` proves, from `KeysAssumption` alone, for any keyboard, any
capacity of the channel and any number of rebinds, reconnections and deaths:

| Theorem | Says |
|---|---|
| `TypeCorrect` | types; the channel keeps to its capacity |
| `OneAnswer` | request, capture and answer are one while the engine waits, none otherwise |
| `Agreement` | watcher and engine agree on the trigger but for news in the channel |
| `NoEdgeFromAChoice` | the press that chooses is no edge |

`OneAtATime` is the count as relations, which is what a step preserves; the
count follows by cardinality. `LastNews` strengthens the agreement: of several
answers in the channel it is the last with a key that names the watcher's
trigger. For the choice, `ChosenIsSpent` says why its press cannot come again: a
key still down since has no press to be read, since the rebuild dropped what was
unread and a key that is down is not pressed.

`DeliveryProofs` proves, from `BoundsAssumption` alone, for any fields, any
length of the command channel and any number of utterances, conversions, focus
changes and restarts of the frontend:

| Theorem | Says |
|---|---|
| `TypeCorrect` | types; no field is published without a frontend |
| `LandOnce` | a text lands at most once, and never half of it |
| `GapOnly` | what is reported as injected is lost only in the gap after the engine's look |
| `StayHome` | a partial is shown only in the activation its utterance began in |
| `NothingLeft` | an utterance in whose time nothing moved gives the turn back |

All rest on `Base`: what is in the channel is in the order of the utterances and
ends with the current one (`Channel`), and the microphone has the turn only in an
active field, a recogniser's preedit only while it has (`Turns`). Each then has
an invariant that speaks of the channel, where the property speaks of it only
once it is drained. `Landing`: an utterance has landed, or its one commit is in
the channel, or neither. `Gapless`: a commit decided or underway finds the field
unless it is in `gap`. `Home`: whatever the frontend will have begun by the time
it reaches a partial is that partial's utterance; the order of the channel is
what excludes another `Begin` in between. `Tidy`: the end of the utterance is
behind its last `Begin`, or the keyboard has the turn and keeps it, because the
`Begin` still to come finds no field.

`SegmentsProofs` proves everything the run `segments` checks, from
`WindowsAssumption` (windows are positive, and a cut takes more than one window of
quiet), for any pre-roll, lengths of the pauses and of the speech a segment needs,
any audio and any schedule of calls of `listen`:

| Theorem | Says |
|---|---|
| `TypeCorrect` | types; no cut is ahead of the cursor |
| `WordsAreWhole` | `NoWordSplit`: no cut is inside a word |
| `WordsArrive` | `WordsAreDecoded`, with `PausesApart` |
| `NoiseStaysOut` | `NoNoiseDecoded`: a segment that is decoded has two spoken windows in it |
| `EngineIsRight` | `ConcludesAsAssumed`: a call concludes only what `Listening` lists, which is what `Engine` takes `listen` for |

`listen` is a recursive function of the windows judged (`Listen`). What it
computes is not proved by induction over data: the function is shown to exist, and
what holds of 0 and passes from each number to the next is shown to reach the last
(`Counting`, by least counterexample). What passes from window to window is
`Scan`:

- `Counters`: both gates count the same quiet as long as the segment has speech in
  it, no segment is ready to be cut before the next window is pushed, and the
  segment starts before the quiet.
- `Steady`: two spoken windows in a row cannot be in the quiet counted, since the
  detector believes the second. It holds while the silence gate has not spoken;
  afterwards the skipped windows may hold anything.
- `Clean`: no such pair lies across a cut. With `Steady` it follows from a cut
  being half the quiet back: the pair that ends the pause begins at the earliest in its
  last window, and the one before it is over when it starts, which takes a pause
  of at least two windows.
- `Linked` and `Voiced`: segments follow on each other, and what is counted as
  speech is in the segment that is counted for. The one window before the cut
  that the detector still remembers is why the count alone is not enough.
- `HeardTo`, for `WordsArrive`: a pair judged is in a segment sent with speech, or
  in the current one, which has speech counted.

The proof of `HeardTo` fails at one place: where the window that ends the utterance
also completes a pause that cuts. Hence `PausesApart`: `segment_pause_ms` is
neither as long as `silence_ms` nor a window longer (a longer one never fires
first, a shorter one fired before). The hypothesis is needed: `segments_pause` finds
the utterance that is lost. It is not the code that ensures it but the
configuration; the shipped one (500 and 700 ms) satisfies it.

The six components of `Periphery` are proved about in it, so that each theorem is
of the specification its run checks. All rest on `PeripheryAssumption`, which
says of the constants what the code relies on: channels have room for an event,
a table's highlight is on one of its rows, a drain asks for effects there are, the
shift of a keymap fits, the cycle of engines is not empty and no engine is
nameless. Each component there takes a step of its own or none, whichever moves.

| Theorem | Module | Says |
|---|---|---|
| `SaidIsTyped` | `InputProofs` | `TypesWhatWasSaid`: each character said is typed once, in order |
| `FieldIsKnown` | `InputProofs` | `KnowsTheField`: with all read, frontend and engine know the field |
| `DeletionsTake` | `InputProofs` | `DeletesWhatWasAsked`: whole characters, and at least those asked for |
| `EffectIsShown` | `UpstreamProofs` | `ShownIsInEffect`: once heard, engine and menu on show are those in effect |
| `AppletsCatchUp` | `PeripheryProofs` | `CaughtUp`: an applet that has read all shows what the engine last said |
| `FreeIsFree` | `PeripheryProofs` | `BusyIsHonest`: the buffer of a slot held to be free is not with the compositor |
| `CaptureIsRead` | `PeripheryProofs` | `ReadsWhatWasCaptured`: a read gives what was captured, or what has overwritten it |
| `TypeCorrect` | `PeripheryProofs` | `TypeOK` of all six |

- Typing (`TypingInv`). What has reached the application is what was typed before,
  and of the text being typed as much as has left it (`LandedInv`). A keymap on
  its way or installed is the current segment's, and the keys unhandled are the
  end of that segment's, by the keymap's codes (`SentInv`): a code means its
  character only as long as the map is not replaced under it. What is left to
  type is the end of the text, and a final text continues the prefix (`JobInv`).
- Field (`FieldInv`). The property speaks of an inbox that is drained; the
  invariant says that reading what is in it, from the pending state on, ends in a
  state that describes the application (`InboxInv`), and that a nonempty inbox
  ends in `done`. What reading is, a fold, is stated as a run of states: there is
  one, one reading for each place. `Tells` is the context's side: focus,
  content type and, if the engine wants it, text of the last `done`. For
  deletions, byte offsets are shown to grow with the character (`OffsetsGrow`),
  so that an offset that ends a character ends only that one.
- Upstream (`UpstreamInv`). Engine: the last change on the panel's wire is to the
  engine in effect, or there is none and a panel that has joined knows it
  (`Heard`); nothing follows the panel's end. Menu, unless `unheard` (`News`): if
  the menu is another engine's, then a registration or withdrawal that ends this,
  or the panel's news of the change, is on its way (`OwnerComes`); the last menu on
  its way, if it is an update, is of the engine in effect (`LastIsOf`); and a
  context with the focus is led to just the menu of that engine and its mode
  (`MenuComes`). Proving it found the history too narrow: a daemon that dies with a
  registration unread leaves a menu behind that need not be of any engine the next
  one runs, so its death now makes `unheard`.
- Mirrors (`MirrorsInv`). For each facet that was not dropped, the last event of
  it in replay and queue is what the engine last said, or there is none and the
  applet shows it (`NewsInv`). That needs one primary at a time (`OnePrimary`) and
  a socket to be a mirror's (`SocketInv`): else two engines would write one feed.
- Popup (`PopupInv`). Each incarnation of a buffer is at most once with the
  compositor, counting commits on their way to it, what it holds and releases on
  their way back (`OncePer`), and not at all if it is yet to be or its slot is free
  (`Unused`). Without the incarnations to come, a new buffer could be released by
  an old one's event.

- Ring (`RingInv`, `Course`). For any size of the ring, any blocks and pre-roll and
  however much is captured. The invariant says where each sample is (`LastLap`: the
  last `Capacity` positions written are in their slots, the slot of an older one
  holds a newer sample, counted from what is stored and not from what is
  published) and what a read in progress may have copied (`CallGoesWell`). That
  storing a sample keeps `LastLap` rests on two facts about remainders, `OneLap`
  and `SlotsApart`; the rest on the count only going up. `Course` has what the
  types need: the segment starts before what was judged, what was listened to is
  before the count, and a clamped read is of positions in order and no longer
  than the ring.

Queues are handled by their indices, and folds by a run; that such runs exist for
every length is proved by least counterexample, the induction theorems being out
of reach.

Only model-checked: `ComesToRest`, `RebindEnds`, `SomebodyTakesOver`,
`ContextComesBack` and `PopupSettles`, which are liveness under fairness and out of
the prover's reach. Every other property of a passing run is a theorem.

## Where code and words differ

Five runs check a sentence of the repository and find a counterexample.

- `engine_stale`: a `Partial` carries no utterance number. Cancel, start again,
  and a hypothesis still in the channel becomes the new utterance's `last_hyp`
  (engine.rs:286 calls it "The streaming model's latest hypothesis this
  utterance"), is shown as its preedit, and can win `choose_final`.
- `trigger_dead`: a rebind whose watcher has died is never answered, and
  `rebinding` blocks every capture command for good, although "A dead watcher
  leaves the socket-command path alive" (engine.rs:360).
- `segments_pause`: with `segment_pause_ms` as long as `silence_ms`, or one window
  longer, the window that ends the utterance also completes a cut. `SegmentGate`
  reports it and forgets the segment's speech; `listen` returns with the cut in
  hand; `finish_recording` then counts no speech and sends the tail out empty. What
  was said since the cut before is lost, although "Everything before the last
  pause is already decoded or decoding" (engine.rs:733). Nothing in config.rs
  excludes the setting. `WordsArrive` proves that no other pair of pauses, counted in
  windows, does it.
- `segments_preroll`: the pre-roll counts as silence. With the shipped defaults
  (750 ms of it, 700 ms of silence) a quiet moment before the trigger ends a
  press-once utterance on its first tick; config.rs:30 says "Trailing silence".
- `delivery_midword`: a conversion that the user types during an utterance is
  overwritten in the frontend's record by the next partial, commit or cancel. IBus
  still holds it, and the next `Begin` finds nothing to flush and resets it away.
  The doc of `advance` says a conversion in progress is committed and only then
  reset, "so entering dictation mid-word costs the user nothing".

Noticed while modelling, without a run: the early return of `listen` comes also with
a key held and also in `finish_recording`, so that after a long pause the rest of
that call's audio is never judged and a last word in it can be dropped, although
engine.rs:711 says both gates see every window and engine.rs:736 that the short
last word is what the call is for; an edge already in the
channel when a rebind starts is delivered during it and can start a recording;
the early return also feeds the streaming model nothing for that chunk; a failed
segment ends an utterance without `sink.cancel`, leaving its preedit; an offline
model that fails to load leaves an utterance in `Transcribing` until Cancel;
`Ready`, `Rebound` and `Enable` publish Idle over a recording that goes on; once
the watcher is gone its closed channel is always ready and the loop spins; a
commit whose field lost focus to another field lands in that other field, as
rule 3 of `advance` concedes, while README.md:130 says it is typed instead; the
sink is not told of a failed utterance, so its turn and preedit stay until the
next `Begin` (`SteadyLeavesNothing` excepts it); an `UpdatePreedit` during an
utterance replaces the recogniser's preedit; the trigger's release is swallowed
also when its press was not (pressed before the field had focus, or chosen in a
rebind while it was down), so the window keeps it down; a release read after its
grab has ended reaches nobody; a latch pressed without IBus and released with it
stays down; a dictated text goes to a credential field through the input method,
which content_type.rs:173 says is left entirely alone; the header of frontend.rs
says the context outlives activations so that a conversion survives a focus
change, but `deactivate` resets it.

Of the components in `periphery`, what their properties except and what was seen
on the way:

- Field. `delete_range` clamps the start to the text and then counts `nchars`
  from there: asked for two characters from two before a caret that has one
  before it, it also takes the one behind the caret. The comment
  (frontend.rs:1373) only promises at least what was asked. Deletions go by the
  text of the last `done`, also after a commit of the same drain
  (frontend.rs:1222), so `DeletesWhatWasAsked` is about a text that is up to
  date. One entry of a drain that cannot be decoded loses all of it, commits
  included (context.rs:788). The surrounding text of a credential field goes to an
  engine that has asked for it as soon as the field stays active over a `done`
  (frontend.rs:601), though neither its keys nor its focus do.
- Upstream. `MenuIsTheEngines` excepts an engine that changed unheard: in a secret
  field, while the link or the panel was down, or told just before a blur; and a
  daemon that died with its context, its menu or its signals still here, for what
  a lost context registered is read after the restart too, whatever engine the next
  daemon has. The
  menu stays the old engine's then until something registers again, for
  frontend.rs:1182 clears it only without an active field. Two presses before the
  daemon has answered count as one step (switcher.rs:764). A property picked while
  a secret field has focus is dropped, and a held one is forgotten with its
  context or by a change of engine. A menu that settles before the panel has
  connected is without its glyph until the next change; `RegistryChanged` drops
  the glyph too.
- Mirrors. A second process has the trigger its file said when it started, and
  becomes primary with it though it was rebound since (README.md:325); the file
  keeps the old one where it cannot be written. The frontend's slot stays taken
  after its process's engine has ended, because the supervisor is not stopped
  with it (README.md:331 and `start_input_method` have it follow the primary).
- Typing. With `StreamOnly`, a prefix that was typed before a field took focus is
  not taken off the commit, so the text is there twice (engine.rs:939).
- Popup. After unmapping and mapping again a slot's memory is filled anew while
  the compositor may still read the old buffer over it: `BusyIsHonest` is about
  buffers, not memory. A frame callback or a release paints at once, so a view
  between two signals of one pass can reach the screen.
- Ring. A sample at the very edge of the window may be overwritten while it is
  copied, by a newer one; audio.rs:25 says "a stale value". The ring is called
  longer than the utterance cap (audio.rs:41), which holds for the default of
  120 s, not for every `max_utterance_s`; what is lost then also moves the gates'
  position against the audio (`judged` behind `cursor`).

## Not modelled

Rendering and theming, widgets and the settings page, text attributes and the
address file of IBus, the transcript log, argument parsing and the developer
tools hold no protocol state: what they compute is a picture, a line of text or
a parsed value. The contents of texts, the choice between scripts in
`choose_final` and what a model makes of audio are left open: the model allows
every outcome. Not modelled either: negotiation of the audio format, the lengths
of backoffs, a keymap's memory file that cannot be made, pixels that cannot be
written or a buffer that is not made for them (popup.rs:594; `render` keeps every
picture within the size the pool has), a read of the global engine that fails with
the daemon up (switcher.rs:574 then goes on without a current engine until the
next change), framing of the socket's lines, and the cost of anything.

## Plan

What is left, most important first.

1. `Mirrors` and `Engine` composed: the snapshot as a refinement of the engine's
   own state, by the theorems there are of each (`RestShown`, `AppletsCatchUp`).
2. The queue lemmas of `UpstreamProofs` and `PeripheryProofs` in one module.
3. `Upstream` and `Keyboard` composed: keys of a drain that fails while the link
   is lost.
