# A model of atom-echo-phone

The repository is a SIP phone for the M5Stack Atom Echo: a speaker, a
microphone, one button and one LED, written in Rust. This directory models its
call control, its registration, its media path and its user interface in TLA+, checks the models
with TLC, and proves theorems about them with TLAPS. `PROJECT.json` lists every component,
run, finding, hazard and theorem, and maps each definition to the lines it
models.

## 1. The system

Four tasks (threads) talk through unbounded channels. `start_all` (app
`tasks/task.rs`) creates them and releases them together with a barrier.

| component | state | operations | talks to |
|---|---|---|---|
| **SIP task**, `app/src/tasks/sip.rs` | `call_ctx` (INVITE, remote SDP, ring deadline), `next_register`, `last_reg_state`, the `SipStack` | a loop every 10 ms: REGISTER if due, drain the socket, drain the commands, check the ring timeout, poll the core's timers | network (UDP); receives button events from the UI; commands UI, audio, RTP |
| **SIP stack**, `sip_core/src/stack.rs` | the three parts below | `on_message`, `poll_timers`, `record_outgoing_response` | called by the SIP task |
| **dialog**, `sip_core/src/dialog.rs` | Idle, Ringing, Established or Terminated; Call-ID and tags | INVITE, CANCEL, ACK, BYE, building responses | inside the stack |
| **INVITE server transactions**, `sip_core/src/transaction.rs` | a list of transactions with timers G, H, I | INVITE, ACK, outgoing response, poll | inside the stack |
| **registration**, `sip_core/src/registration.rs`, `auth.rs` | state, `last_expires`, the last challenge | build REGISTER, handle its response, reset | inside the stack; the registrar |
| **RTP task**, `app/src/tasks/rtp.rs` | active, peers, SSRC, sequence number, cadence | start, stop, receive, send every 20 ms | network; media channels to and from audio |
| **audio task**, `app/src/tasks/audio.rs` | phone state, mode, engine, jitter buffer, AGC | commands, engine transitions, playout, capture | the I2S device; RTP |
| **UI task**, `app/src/tasks/ui.rs` | phone state, registered, gesture state, LED | poll the button and the commands, update the LED | button events to the SIP task |
| **SDP, message parser, codec, resampler, hardware** | none, or the I2S driver | pure functions; driver calls | |

What is hard, and what makes each part correct:

- *Calls.* Requests arrive over UDP: lost, duplicated, late, in any order, from
  several callers. They race the user and the ring timeout. One call is
  recorded in four places (the dialog, the call context, the transactions, and
  what the other three tasks were last told), each updated by different
  handlers. Correct: these agree; a second caller disturbs nothing; every ring
  ends; every INVITE is answered; the stream runs only for the call in hand.
- *Transactions.* INVITE, response and ACK for a key in any order. Correct: one
  transaction per key, retransmissions on RFC 3261's schedule, no leak.
- *Registration.* Late, repeated and missing responses against timers. Correct:
  the UI shows what the core believes, the phone never gives up, the binding is
  refreshed before it lapses.
- *Button and LED.* Clicks go one way and news of the call the other, each
  through a queue: a gesture is decided on a state that may be over, an edge is
  heard in a call it was not meant for, news overtakes what the task is doing.
  Correct: two quick clicks are one double tap and nothing else, the microphone
  is on while the button is held, the LED shows the call that there is, a host
  answers every call.
- *Media.* Three tasks and four queues, none of which knows when another has
  caught up; frames and commands of one call that are still in a queue when the
  next begins; half-duplex hardware whose driver calls fail. Correct: the
  microphone is sent to the caller of the call, and not for longer than it
  should be; no frame of another call is played; the engine that runs has its
  driver, and is in the end the one wanted; the jitter buffer gets over whatever
  the network did to it; no gain makes a loud voice into noise. Two
  loops, one that captures and one that sends, each late for deadlines of its own:
  while one talks the backlog does not grow and silence does not creep in.
- *Offer and answer.* Each offer is read line by line, may be refused, repeated, or
  replace the last. Copies of old requests arrive late, and the phone may hang up without saying so. Correct: what is
  read is what was meant; once nothing is under
  way the RTP task sends and listens as the caller takes to be agreed, and sends nothing without a call.

## 2. The modules

| module | models | how |
|---|---|---|
| `InviteServerTx` | one transaction and the manager's operations | operators on a transaction and on a set of transactions |
| `TransactionManager` | the manager, called in any order | one action per method, `Tick` for time |
| `Dialog` | `Dialog`, the side that is called | operators on a dialog record |
| `SipCall` | the SIP task with dialog and transactions, the network, the button, the clock | one action per branch of a handler |
| `CallSlot` | what a single-line phone promises | abstract; `SipCall` implements it |
| `Registration` | `RegistrationTransaction`, its scheduling in the SIP task, registrar, network | one action per handler |
| `JitterBuffer` | the jitter buffer | operators on a buffer |
| `RtpStream` | the RTP task, the media side of the audio task, the channels from the SIP task to both | one action per step of a task's loop |
| `Playout` | the jitter buffer between a sender, a network and the playout | the network is at first anything, then steady |
| `AudioEngine` | the engine of the audio task, the I2S device, push-to-talk, the channel between | one action per step of the loop |
| `Agc` | the gain of the microphone and its limiter, in fixed point | operators on gains and samples |
| `Capture` | frame after frame through `Agc`, as the audio task does | one action per captured frame |
| `Cadence` | the microphone's frames on their way out: capture, `media_out`, the sending loop | time in units, each loop with its deadline |
| `Sdp` | the SDP parser and the renderer | operators on a sequence of lines |
| `Negotiation` | offers, answers, hold and re-INVITE of one caller, the ends of its calls, and the filters of the RTP task | one action per handler |
| `Ui` | the UI task: button, gestures, LED, auto-answer; device and host build | one action per step of its loop |
| `Phone` | `Ui` composed with what the SIP task does with the button and tells the UI, and the two channels | one action per event of the call, per command taken |
| `InviteServerTx_proofs`, `TransactionManager_proofs` | theorems about the transactions | |
| `SipCall_proofs` | theorems about the calls | |
| `Registration_proofs` | theorems about the registration, and about offer and answer (`Sdp`, `Negotiation`) | |
| `RtpStream_proofs` | theorems about the stream, and about the jitter buffer (`Playout`) | |
| `AudioEngine_proofs` | theorems about the engine, the AGC and the two clocks (`Cadence`) | |
| `Channel`, `Phone_proofs` | lemmas on what a channel still tells; theorems about button and LED | |
| `MCTransactionManager`, `MCSipCall`, `MCRtpStream` | the sets of callers, their offers and their symmetry for TLC | |

How the state corresponds to the code:

- A transaction is the struct of `transaction.rs`, a response being its status
  code. The `Vec` is a set, because "first match" is "the match" when keys are
  unique, which is checked and proved (`UniqueKeys`). The remote address is left
  out: the socket is connected to the registrar.
- An `Option<Instant>` is the number of ticks left, `None` being -1. The loops
  poll every 10 ms while the timers are of 500 ms and more, so `Tick` waits until
  nothing is due.
- A request is its Call-ID, CSeq number and To tag. A caller has one Call-ID and
  one From tag. `Untagged` callers have none; `CompactVia` callers write `v:` for
  `Via:`, which the parser does not find, so that no response can be built: the
  only way `build_response_for_request` fails for a message that came that far.
- `allocate_tag` is a counter. The tags that the code allocates and stores
  nowhere are one value, `OneOffTag`.
- The SDP of an INVITE is its outcome (`Offer`): none, refused (`bad`), `hold`
  (port 0) or `media`. It depends on the call and the CSeq number only, as a
  retransmission carries the same body.
- `phone` is the last `PhoneState` sent to the UI and the audio task, who are
  always told together; `rtp` says for whose media the RTP task was last started;
  `finals` is a history variable, the final responses to INVITEs put on the wire.
  It is also what the network may react to: an ACK, BYE or in-dialog INVITE is
  possible, at any later time and any number of times, once the response that
  enables it was sent. Loss is a message that is never delivered.
- A response of the stack to a CANCEL, BYE or OPTIONS changes no state and is left
  out, as is the resending of a stored response.
- An address in an SDP body that is no IP address, or is too long to be passed on,
  changes nothing in the RTP task: in `RtpStream` it is the command `Unparsable`.
  `SipCall`, whose `rtp` is what the RTP task was told, leaves this case out.
- In `RtpStream`, `line` is the call as the SIP task has it, with the two things
  it tells: the state to the audio task, the stream to the RTP task. It is a
  coarser `SipCall`, whose own properties say that it tells them in step. A
  caller has one media address; the IP comparison of `handle_rx_packet` is
  `p.from = rtp.signaled`. Packets dropped for their payload type or SSRC are
  packets that did not come (`Negotiation` has the filters). `turn` is where `AudioTask::run` is; the RTP task's
  loop is atomic per batch of commands, since nobody sees its state in between.
- A dialog may have no call context: an INVITE with no SDP, or with one that is
  refused, leaves it ringing, with the UI and the audio task not told. The ACK of the
  488 then matches the dialog (`dialog.rs:507`) and establishes it; that is told, and
  the audio task listens, but `start_rtp_streams_from_ctx` has nothing to start. Only a CANCEL
  (while it rings) or a BYE (once established) ends it; until then other callers are
  refused with 486. `SipCall` reaches this (an INVITE refused, `AckConfirms`), and
  `PhoneShowsDialog` says what is told then and that there is no stream. In
  `AudioEngine` any state may be told after any other, and the button is dropped
  in an idle phone and perhaps in an established call; in `RtpStream` such a call
  has no caller (`EstablishesWithoutContext`). As it does not ring, the jitter
  buffer is not reset when it begins, and what is left of the last call may be
  played: `JitterBelongsToCall` excepts it.
- In `AudioEngine`, `line` and `button` are what the SIP task last sent, `pressed`
  the button itself. `device` tells a speaker that is ready from one that is
  enabled, because `tx_enable` is a call of its own, and its failure leaves the
  driver. What is played or captured is left out.
- `overlap`, `tuned` (`RtpStream`) and `overrun` (`AudioEngine`) are history variables.
- In `Registration` a tick is one second and the CSeq number is left out, since the
  code never compares it. A 401 or 407 carries a `challenge` or not: the code stores
  none when the `WWW-Authenticate` header is missing or cannot be parsed. `prompt` says that registrar and network work from now
  on; before, requests and responses are lost, late, repeated or anything else.
- In `Ui` a turn of the loop (40 ms) is the unit of time, and an `Instant` the
  turns since it, cut off once it is over its limit. `led_pattern` is not a
  variable: it is `ForState` of the two things it is computed from. When a
  pattern blinks, whether this update is the one that switches it is a choice.
  `build` tells a device, whose LED may fail, from a host, whose button is never
  pressed and which answers by itself. `odd` and `since` are history: they count
  the clicks without looking at how the task tells a double tap.
- In `Phone` the call is that of `SipCall` without its messages: each event of the
  network is possible in every state in which `SipCall` can meet it. It leaves out
  the callers without a From tag, which are in `SipCall`, and the dialogs without a
  call context (below): what the LED and a gesture do in one is not modelled. The SIP task's loop is taken apart into its events, in any order.
  `audio_mode` is the last `SetMode` sent; `heard` is a history variable.
- In `Playout` a frame is a sequence number, and is `old` once that number was
  used again. Before `steady` the sender, the network and the listener (who may
  hold the button) do as they like; from then on a frame is sent, arrives and
  another is played, in turn.
- In `Cadence` deadlines are the time left until they come. A turn of the RTP task
  sleeps as long as the code says, or longer (`Overrun`); a frame is captured up to
  `Lateness` after its deadline, the 25 ms that reading one may take. That is a bound of
  the model: a microphone that times out at every read is later with each frame, and left out. `floor` is a
  history variable: the least backlog the stream had, and the ticks that stalls have
  skipped since. `silent` says that the last packet was sent for want of a frame.
- In `Sdp` a body is a sequence of lines, and a line is what `parse` tells apart:
  one it cannot accept is `Malformed` whatever its kind, as each refuses the body.
  The order of the errors is left out, since the task treats them alike.
- In `Negotiation` the caller's offers have an address for the
  session, the medium or both, PCMU under some payload type or not, another
  codec before or after it, or a second medium that is not audio. A second medium of
  audio, and PCMU without an rtpmap (which the parser refuses), are left out. `Meaning`
  says what SDP means by an offer; it is the reference, not the code. Of the commands to the RTP task only the last one
  matters, as it handles all of them at once and each sets all of its state.
- The caller of `Negotiation` asks for one thing at a time; what it asks is sent until
  it is answered. Copies come at any time: of the first INVITE, which the phone refuses with
  486 once it rings (`InitialWhileBusy`), and the ACK of that refusal establishes the call; of
  ACKs; and of re-INVITEs (`copies`), however old. The phone may end the call by
  itself (`CheckCallTimeouts`, `HandleHangup`, which sends no BYE). A dialog that
  is not the one of the caller's call, be it of another caller or of a late INVITE of this one, is
  `Other`: it does more than the code can, as it streams to whatever any offer describes and
  answers what it likes, but accepts nothing unacceptable. `late` and `outdated` are history
  variables.
- In `Agc` the product of a sample and a gain is computed without one, in parts
  that fit in 32 bits, and then wrapped as the code's product does when it is
  built for release. The loudness of a frame is an input, within what a frame of
  160 samples with that peak can have.

## 3. The runs

| run | instance | shows |
|---|---|---|
| `transactions` | 2 keys, T1 1, T2 4, H 12, I 3 | `TypeOK`, `UniqueKeys`, `TimersArmed`, `OnSchedule` (timer G is always at a firing time of RFC 3261, with that firing's interval), `AnsweredExpires` (no leak) |
| `callers` | two ordinary callers, who are alike (symmetry), one with a compact Via and one with neither a From tag nor a Via that is found; 2 dialog tags; CSeq 1 | `TagsIdentifyCalls`, `StrangersChangeNothing`; for the ordinary ones `StreamBelongsToDialog`, `ContextBelongsToDialog` |
| `offers` | 3 callers: media then hold, no SDP, refused SDP; 1 dialog tag | `AnsweredCallIsConfirmable`, `PhoneShowsDialog`, `ImplementsCallSlot` (the phone is a single line), `InviteIsAnswered`, `UnansweredRingEnds` |
| `registration` | a registrar that answers 100, 200 for 7 or 10 s, 401, 403 or nothing, in any order, and may recover | `UiShowsRegistration`, `NeverGivesUp`, `Recovers` (once all works the phone gets registered and its binding never lapses again) |
| `phone` | a device and a host; presses up to 3 turns, a window of 2, 3 turns to the auto-answer, 2 messages a channel, 1 failure of the LED | `LedShowsTheCall`, `TalkIsHeld`, `GesturesPairClicks`, `AutoAnswers` |
| `playout` | a buffer of 3, sequence numbers modulo 8, frames up to 2 behind | `SilenceEnds` (at most two periods of silence once frames come steadily), `SteadyPlayout` (then, in the end, in order at one distance) |
| `cadence` | units of 5 ms: a period of 4, turns of 2 (stream) or 10 (none), 4 longer at times, a frame 5 late at most; 4 frames before a stream | `CadenceTypeOK`, `BacklogIsBounded` (it grows by skipped ticks and nothing else), `VoiceIsSteady` (who talks on is not cut by silence for ever) |
| `negotiation` | 2 addresses, 2 ports (one of them 0, hold), payload type 0, a stream that begins anew once, 1 copy of a re-INVITE | `NegotiationTypeOK`, `ReadsWhatIsMeant`, `SendsAsAgreed` (with nothing under way the RTP task is silent outside of a call, and sends as agreed in one), `HearsAsAgreed` (and the caller is heard) |
| `stream` | 2 callers, a buffer of 2, sequence numbers modulo 3, 2 commands a channel, 1 packet in `media_in` | `SendsToTheCaller` (the microphone goes to the caller of the call), `JitterBelongsToCall` (the buffer holds and follows that caller's frames) |
| `engine` | 3 commands in the channel, 2 failures of the device | `EngineHasItsDriver`, `MicrophoneStops` (at most one frame after Talk is over), `EngineFollows` (the engine wanted runs in the end) |
| `deadline`, `yell` | as small | what the source says and does not do, see 5 |

**Bounds, and why they are enough.** `MaxTag` bounds how many dialogs get a
tag: two in `callers`, so that the messages of an old call meet a new one, of the
same or of another caller; one in `offers`, where only one of the callers ever gets
a 200 with media, and where the properties are about what becomes of one call.
Two ordinary callers are what it takes for a tag to be given to the wrong one, and each may get a
dialog, a refusal, or both; a compact Via and a missing From tag are the two ways of not being ordinary.
What the phone, with its one dialog, does for a stranger does not depend on how many there are.
Re-INVITE and hold (CSeq 2) are met in `offers` and, with other callers, in the theorems.
CSeq 1 opens a call and CSeq 2 modifies it. In the runs of `SipCall` the timers
have the least values their assumption allows (T1 = T2 = 1, H = 2, I = 1), since
there only the order of their expiries with the ring timeout (1 or 2) matters; in
`transactions` T2 = 4 T1 and H = 12 T1, so that timer G fires at T1, backs off
twice, reaches its cap and repeats before H. `MaxPending` is two messages each
way, which is what reordering takes; `REGISTER`'s timers keep their order
(timeout 2 < retry 4 < a refresh of 5 or more < expires). The lifetimes granted
are above 6 s: the code refreshes after 5 s at the earliest, and a shorter binding
lapses whatever the network does. In `phone` the window is shorter than the
longest press, as in the code, and both are long enough for a click inside the
window, one after it and one that is too long. Two messages a channel let the
end of a call and the start of the next be on their way together; gestures meet
both. In `playout` a buffer of three is the least where a frame is in the middle,
and eight sequence numbers leave room for a full buffer, frames behind it, and
the numbers before the wrap. In `stream` two callers are enough for "the last call and
this one", and they are symmetric. A buffer of two frames and a modulus of three
are the least with a full buffer, a duplicate, a gap and a wrap; a channel of two commands
holds the end of a call and the start of the next, and a channel of one packet
the frame that outlives its call, since packets come at any time. In `engine`
three commands let a release and a press, or the end of a call and the next one,
be in the channel together, and two failures let a retry fail. In `cadence` a
turn without a stream is longer than two periods, and the longest turn in one is
longer than a period, so that ticks are skipped and the backlog grows before a call;
captures without end would make it grow for ever, which `MaxQueue` stops. In `negotiation` two
addresses and two ports give four descriptions to mistake for one another, one of them
agreed, one copied and late, and one refused; a source that begins anew once has a packet of the old one come
late. With one payload type every caller offers PCMU as the phone does, and the case
that `HearsAsAgreed` excepts does not occur; the theorems have any number.
Deadlock is checked in every run.

**Fairness, and why the code justifies it.** `Tick` is weakly fair: time passes.
`PollTimers`/`Poll`, `CheckCallTimeouts` and `MaybeSendRegister` are weakly fair:
the loop of `SipTask::run` calls each on every turn and never blocks. No
fairness is assumed of the network, the callers or the user, except in
`Registration`: there a pending request is in the end answered or lost, and a
delivered response handled. `AnsweredExpires` has an escape for a key that is
used for ever, since each response or ACK restarts a timer.
`UnansweredRingEnds` and `InviteIsAnswered` have none. In `AudioEngine` the audio
loop (`AudioTurn`) is weakly fair: it never blocks for more than a frame, or 50 ms
while the engine is off. Nothing is assumed of the SIP task; `EngineFollows` is
about an end of its commands, because the loop drains the channel before it does
anything else, and commands without end would starve it. In `Phone` both loops are weakly
fair. `PollButton` is strongly fair: the UI task reads its channel until it is
empty, so news that comes again and again disables it again and again, but a
loop that finds the channel empty goes on to the button. `AutoAnswers` has the
premise that the channel is found empty again and again, without which the code
promises nothing. In `Registration`, `Recovers` has the premise that registrar and
network work for good at some time. In `Playout` only the steady part is fair:
frames come, and are played, every 20 ms. In `Cadence` time passes, and the loops of
the RTP task and of the audio task go on, as neither blocks for longer than its
sleep or its read; `VoiceIsSteady` has the premise that one talks for good.

## 4. Proofs

Every theorem holds for every set of calls and callers, whatever their INVITEs
offer, every timer value the assumptions allow, any number of dialogs, and
channels and buffers of any size.

*Transactions.* `InviteServerTx_proofs` has a lemma for each operation on one
transaction (it keeps the shape, the key, and the timers armed as the state
demands) and one for each operation on the list (`WellKept`: every transaction
good, no key twice). `TransactionManager_proofs` draws `TypeCorrect`,
`KeysAreUnique` and `TimersAreArmed` from it. The three need each other:
uniqueness is needed to know that `OnInvite` adds a key that is not there, and
the type to know that a timer that is set stays so when time passes.

`KeepsSchedule` compares the timers with a reference, `OnSchedule`: the firing times of RFC 3261
as two recursive functions, `Interval` and `Firing`. That such a function exists has to be
proved, and is: for each n there is one up to n, by the well-foundedness of `<` on the
naturals, applied to the set of the n without. The firings grow by T1 at least, so that
those before timer H have numbers the definition of `OnSchedule` ranges over. With the types and
the armed timers `OnSchedule` is inductive: a response begins at the first firing, time
brings the next one closer as it does timer H, and a retransmission goes on to the one after.
`RemovalIsNotPutOff` is about each transaction apart: the time left before its removal is what
it was, or less, unless the step is a response or an ACK with its key.

*Calls.* `SipCall_proofs`, in its first part, proves the inductive invariant `IInv`: the transactions
are `WellKept`, the records have their shapes, and `Bound` holds: each of the
context's INVITE, the context's SDP and the stream is about the dialog's call,
or about a caller that is not ordinary. The SDP is the strengthening that the two
properties need: an ACK starts the stream that the context describes. Also
needed is that a ringing dialog's INVITE is the dialog's own, since that decides
whether the response to a CANCEL can be built. From `IInv` follow `TypeCorrect`,
`StreamBelongs` and `ContextBelongs`.

The second part proves `TagsIdentify`. A tag is in the dialog, in the INVITEs
that the dialog and the context keep, and in what was sent; the invariant
(`TagInv`) is about all of these claims at once: no tag is claimed for two calls,
and none is as large as the next tag. A step may claim the next tag for one call,
and nothing else that was not claimed before.

The third part sorts the steps into kinds (a call seizes the line, is
confirmed, ends, or the line is as it was) and proves from them `PhoneShows` and
`SingleLine`, the refinement of `CallSlot`. `PhoneShows` needs of the kinds that a stream is
started only where there is a context. Both assume `OrdinaryCallers`: a CANCEL
that cannot be answered leaves a stream with no dialog. `StrangersAreHarmless` needs
no invariant.

The fourth part proves `AnswerIsConfirmable`. A call that rings from the INVITE that
opened its dialog has its tag from the 180 on; nothing changes it any more, and the
200 that answers takes its tag from the dialog because that INVITE has none.

The fifth part is about what is owed. `RingIsNotPutOff`: a retransmission is refused or ignored
while the context keeps its INVITE and its deadline, so that time alone moves it.
`EveryInviteIsOwed`: `OwedInv` says of an INVITE that opened a call that it has a final response, or
is the one that rings; and that a call for which anything else was answered, that is established, or
that rings from a later INVITE, has that response already. The latter is what a BYE, a CANCEL, a
hang-up and a re-INVITE need, which end a call or put another INVITE in the place of the first.

*Media.* `AudioEngine_proofs`: the invariant relates the channel to its two ends
(`ChannelTells`: the last command of a kind in the channel is what the SIP task
last told; without one, the audio task knows it). So when the channel is drained
the task knows whether Talk is wanted, and `OverrunEnds` can say that after a
frame too many the task is at the top of its loop, where it drains the channel and
stops the engine before the next one. `EngineKeepsDriver` follows the driver
through every failure. `RtpStream_proofs` proves `MicrophoneReachesCaller` from
`StreamInv`: the last command that the RTP task will not ignore is for the caller
of the line, or stops; where there is none, so is what the task does.
`JitterBelongs` says of a call that has a context and found the channels empty: the commands and the
packets on their way are of its caller, and either a command that resets the buffer
is still in the channel or the buffer and `tuned` are of the caller already. What the
buffer plays is one of its frames; where no expected frame is there that is the least,
which a nonempty set of sequence numbers has because `<` is well founded on them.
`EngineCatchesUp`: when a turn is over in which no call of the device failed, the engine is the one
for what was told last, and nothing but a command changes that.

*Playout.* `SilenceIsBounded` counts the frames that a silent listener must have in the buffer:
with every frame that comes while nothing is played, the buffer holds one more of the last ones, all
different because they are fewer than the modulus; before they are as many as its capacity it
is full, and `pop` plays one (`SilenceIsBuffered`, from any buffer that the network may have left). `DistanceIsKept`: a buffer with the last frames in order, the expected one
first, is such a buffer again after a frame has come and another was played.

*Cadence.* Two clocks run at one pace and each is late for itself. `Period` times the backlog,
plus the time to the next tick, less the time to the next capture, is the same after a capture and
after a tick that sends; a stall that skips ticks adds to it, and `floor` counts these. So the
lag between the clocks is bounded by the lateness of each (`LagIsBounded`), and with it the backlog
(`BacklogBounded`). Read from the other side the same sum is headroom: a silent packet is sent only
where there is less than the lateness of a capture, and leaves a period more, which nothing takes
away again (`SilenceIsPaid`). `ClocksTyped` is needed for both: no turn lasts longer than the sleep it
asked for and its overrun.
The AGC: `GainInRange`, and `NoOverflowTo16`, which says up to which gain the limiter
keeps its promise; the run `yell` shows what happens above.

*Registration.* `UiIsTold` needs that `last_reg_state`, the mirror that decides
whether the UI is told, is the state but for `Registering`, which it never sees. `StaysRegistered` is for a registrar
that grants more than 5 s and says so in an Expires header (`Refreshable`): a phone that rests, asks
or is answered, with nothing else on its way (`Settled`), goes from one of these to the next for
ever, and `next_register` is always less than what is left of the binding. `RefreshesInTime` is
the arithmetic of that, and says that 5 s is the exact limit.

*Offer and answer.* The parser is a fold of `Read` over the lines, and so are its lemmas: what a fold
gives for a body with one more line at its end, then for each part that an offer is put together of
(a session, a medium before, the audio medium, a medium after), then for the whole
(`OffersAreRead`, and `ReadsBackWhatIsWritten` for what the renderer writes). No induction is needed, since an offer has
a bounded number of parts. `NegotiationInv` says where the conversation stands
(`TalksInOrder`), that the context's SDP is the last description that was accepted (`remote_sdp = Current`) unless
it came in a copy that is out of date (`DescriptionIsCurrent`), and that
the stream does what that asks, or the command for it is on its way, and without a call there is none (`StreamFollows`).
From it follow `SentAsAgreed` and `HeardAsAgreed`. Both are about the time when nothing but copies is under way, and their
second part about a call that both sides take to be up. Three things the code does are so excepted, each
by a conjunct of the property: the time between a late copy of an older re-INVITE and the next that is
accepted (`outdated`); a call that the phone hung up, of which the caller is not told (the phone then
sends nothing, which the first part says); and a call whose 486 the caller took, where the phone streams to a caller that
thinks it was refused.

*Button and LED.* `Channel` says what a queue still tells: the last message of a
kind in it is what was told last, and without one the receiver knows it
(`Tells`). Append and take keep that. `Phone_proofs` uses it for three kinds: the
state of the call, that of the registration, and the edges of the button. From
it follow `LedShows` (with: the LED has the colour last set, unless setting it
failed, and that colour is the one of the state or off) and `TalkHeld`. For
`GesturesPaired` the history of the clicks and `last_short_release_at` are related
by an invariant: the window is open exactly after an odd click, and as old. `HostWillAnswer` adds to
`IInv` that on a host a ring whose news were read has its deadline running or its gesture in
the queue: the news that could cancel it would have to be in the channel, and there is none.

The assumptions are those the modules name: `TimerAssumption` (T1 positive, at
most T2, below H; I positive: the constants of `transaction.rs` with the order
they have there), `CallerAssumption`, and that CSeq numbers and status codes are
what they are in SIP.

Every invariant and every action property that a run finds true is a theorem. Only model-checked are the liveness
properties, since fairness and ENABLED are outside the prover's reach: `AnsweredExpires`,
`InviteIsAnswered`, `UnansweredRingEnds`, `EngineFollows`, `NeverGivesUp`, `Recovers`, `AutoAnswers`,
`SteadyPlayout` and `VoiceIsSteady`. Of each but `NeverGivesUp` the part that every step must
keep is proved; what is left to TLC is that the good state is reached:

| liveness property | what is proved of its steps |
|---|---|
| `AnsweredExpires` | `RemovalIsNotPutOff` |
| `UnansweredRingEnds` | `RingIsNotPutOff` |
| `InviteIsAnswered` | `EveryInviteIsOwed` |
| `EngineFollows` | `EngineCatchesUp` |
| `Recovers` | `StaysRegistered` |
| `AutoAnswers` | `HostWillAnswer` |
| `SteadyPlayout` | `DistanceIsKept` |
| `VoiceIsSteady` | `SilenceIsPaid` |

The branch of `on_incoming_reinvite` that refuses with
481, for want of a context, is not met in TLC's runs; the theorems about `SipCall`
include it.

## 5. What the source says and does not do

- `deadline`: "Handle an incoming INVITE request. If it is a retransmission, return
  the last response to be resent." (`transaction.rs:137-138`, of `on_invite`); but
  `stack.rs:158` hands the retransmission to the dialog too,
  which refuses it with 486 while it rings. The ACK of that 486 carries the dialog's
  tag and establishes the call, unanswered and with its ring deadline set, which the
  comment at `sip.rs:28` rules out. The stream starts, and a double tap cannot end the call.
- `yell`: the limiter is there to avoid "brutal hard clipping on yells"
  (`agc.rs:115`). After quiet speech the gain is above 16, and the product at
  `agc.rs:112` does not fit in an `i32`: the loudest samples change their sign.

Other behaviour the models show is under "hazards" in `PROJECT.json`, each with
the reason it has no property.

## 6. Not modelled, and why

The outgoing side of the dialog (`start_outgoing`, `build_bye`) is called by
nobody. String processing (message parser, renderer, digest) is reduced to the outcomes
that control depends on. Bring-up of hardware and Wi-Fi happens once, before any
task. The resampler, the mu-law codec and the integer square root carry no control
and no state, and a test can go through all of their inputs that matter. The task statistics are a log.
Start-up is a barrier, before which nothing interleaves. Of the RTP task, sequence
number and timestamp of the packets it sends (two counters), and packing and
unpacking, are left out. `SessionDescription::offer` and `answer` are called by
nobody. `Negotiation` has one caller whose messages are told apart: what others do to a call is in `SipCall`.

## 7. Plan

1. *(done)* Transactions, calls, single line, registration; the invariants of
   the transactions and of the calls, and the refinement, proved.
2. *(done, but for what is below)* `JitterBuffer`, `RtpStream`, `AudioEngine`:
   where the media goes, whose frames are played, which engine runs.
3. *(done)* `Playout`: the buffer recovers from any network. `Ui` and `Phone`, with the
   theorems about button and LED. `Agc` and `Capture`. `Recovers` of `Registration`.
4. *(done)* `Cadence`: `media_out` and the sending cadence. `Negotiation`: the filters by
   payload type and SSRC.
5. *(done)* `Sdp`: the parser's outcomes, against what an offer means.
6. *(done)* Theorems: `JitterBelongsToCall`; `AnsweredCallIsConfirmable`.
7. *(done)* Theorems: `OnSchedule`; `Negotiation`, `Playout` and `Cadence`; the safety half of the liveness
   properties.
8. A refinement of what the media path promises as `CallSlot` is of the calls: one abstract
   stream that `RtpStream` implements. The hazards that have no property yet.
