# A verification project for joint-server

joint-server is a message relay for workers: named processes that post to
channels and receive what others post there, in order, from a durable log with
a cursor per member. The repository holds two deployments of that one idea. The
**process relay** is one Python process with SQLite and websockets
(`relay/hub.py`, `store.py`, `app.py`) and a client library (`client.py`). The
**serverless relay** is any number of short-lived instances over one Postgres
(`relay/pgstore.py`, `serverless.py`, `notify.py`, `sender.py`, `hooks.py`),
reached by polling, with channels that hand each message to one taker, bots,
triggers and enrolment.

All line numbers below are of the files under `src/`. `PROJECT.json` gives, for
every definition that models code, the lines it stands for, and for every
property a mutant: a plausible bug that breaks it.

## 1. Inventory

### Channels of the serverless relay (`pgstore.py`, `serverless.py`)
- *State.* `messages` (`seq` from a sequence, unique `(workspace, sender,
  client_id)`), `members.cursor`, `redeliveries`, `muted`, `channels.keep`.
- *Operations.* `append` (1856: look for the job, INSERT, `_trim`, NOTIFY, one
  transaction), `waiting_for` (2033), `redelivered`, `ack` (1651), `join`,
  `leave`, `skip_to_now`, `resend_to`, `send_again`, `mute`, `set_keep`.
- *Interaction.* The publish and messages routes (`serverless.py` 336-410) call
  these for workers; the console's routes call the administrator's.
- *Hard.* READ COMMITTED transactions of many instances; a `seq` is taken long
  before its row is visible; operations that read in one statement and write in
  another; publishes repeated because an answer was lost; responses lost.
- *Correct when* an id is stored once; what a publisher is told is true; a
  cursor never passes a message its member was not given.

### Queue channels of the serverless relay (`pgstore.py`)
- *State.* `channels.queue_from`, `members.priority` (the turn) and
  `polling_until`, `claims` (worker, lease, `acked_at`).
- *Operations.* `_take`/`_take_from` (1330-1406, under an advisory lock),
  `polling`, `ack`, `set_priority` with `_release`, `leave`, `set_queue`,
  `set_keep`, `append`'s trimming of claims.
- *Hard.* Everything but taking runs without the lock: claims are acknowledged,
  released, trimmed and cleared while a take is open; a lease runs out under a
  taker that still works; hand-outs are lost; precedence depends on who polls.
- *Correct when* a message is with one taker at a time, done stays done, and
  nothing waits for ever while a taker lives.

### Hub and SQLite store of the process relay (`hub.py`, `app.py`, `store.py`)
- *State.* On disk: `messages`, `members.cursor`, workers' tokens. In memory:
  `Hub.sessions`, each session's socket, `sent` and `wake`; console watchers.
- *Operations.* `serve` (replace, register, loops, `finally`), `publish`,
  `_deliver`, `notify`, `kick`, the routes for membership, channels, workers and
  tokens, `_prune_loop`.
- *Interaction.* One event loop; a delivery loop and a read loop per socket;
  the admin routes notify or kick sessions.
- *Hard.* Every `await` lets another task in: between closing the old
  connection and registering the new one, between reading rows and sending
  them, between clearing `wake` and sleeping, between a token's look-up and the
  registration of its socket. A restart loses all sessions.
- *Correct when* the newest connection stays registered, no publish is
  forgotten by a sleeping loop, rows go out once and in order, and the cursor
  passes only what was received.

### Client library (`client.py`)
- *State.* `_outbox` and waiters, `_inbox`, `_handled`, `_acks`, the socket.
- *Operations.* `publish` (with a time-out), `run` (connect, read, back off),
  `_dispatch`, `_flush`, `_flush_acks`, `_settle`, `_handle_loop`.
- *Hard.* A connection breaks between a publish and its confirmation, or a
  handler's return and its acknowledgement; the handler may itself publish; the
  process dies; what is resent overlaps what is being handled.
- *Correct when* a request is stored once, a call returns, a message is handled
  in order and once per process, and nothing is acknowledged unhandled.

### Kinds, routes and identities of the serverless relay (`kinds.py`, `pgstore.py`)
- *State.* `workers.kind` and `may_repeat`, `members.priority`, `routes`,
  `bot_members.deaf_to`.
- *Operations.* `set_kind`, `join`, `leave`, each ending with `apply_kinds`
  (904), which reads kinds, members and chats and writes every switch from what
  it read; `reissue_id` (985), `remove_worker`, `set_route`, `set_repeats`,
  `bot_hears`.
- *Hard.* `apply_kinds` is a dozen statements that commit one by one; two
  requests run it at once, each with what it read before the other wrote; a
  person throws a switch in between; a server dies in the middle.
- *Correct when* the switches follow from the kinds once one request had the
  workspace to itself, no two takers have one turn, and what a person decided
  about a worker without a kind stands.

### Enrolment (`pgstore.py` 1076-1240, the routes, `proposal_bridge.py` 425-535)
- *State.* `registrations` (a request with its ticket, grant, refusal),
  `workers`; the asker's id and ticket, in memory and in a file.
- *Operations.* `request_worker`, `registration`, `approve_worker`,
  `reject_worker`; the asker's `enrol`, and its restarts.
- *Hard.* Each operation is several transactions; two people approve one
  request; an asker dies, loses its file, and returns as a stranger of its
  name; requests age, and refusals lapse.
- *Correct when* approving a request makes one worker, however often it is
  clicked, a name waits once in the console, a refusal is a refusal for a day, and an asker always works or waits where a
  person sees it.

### Bot and hook senders (`sender.py`, `hooks.py`)
- *State.* `bot_members` (cursor, `deaf_to`), `hooks` (cursor, `failed_at`); a
  loop's list, row and page.
- *Operations.* `run`, `once`, `deliver` and `fire`, `bot_ack`, `hook_fired`,
  `hook_failed`, and the routes that join, rewind, skip, silence.
- *Hard.* A message goes out, and only then a statement moves the cursor; every
  instance runs both loops over the same rows; one address fails for ever.
- *Correct when* no cursor passes what was not sent, a loop sends a thing once,
  and one bad address does not keep the others waiting.

### Proposal bridge (`examples/proposal_bridge.py` 536-772)
- *State.* The rows of a response, the last refusal and how often it was heard.
- *Operations.* `run`'s poll, `deliver`, `draft`, `report`, `ack`.
- *Hard.* One server takes what several channels bring; it is down, slow, or
  refuses, and a refusal is the job's fault or the set-up's; the bridge dies
  between handing over and acknowledging.
- *Correct when* a cursor passes only what was handed over or refused, and one
  bad job does not stop what is behind it.

### Not modelled
- **Notifier and long poll** (`notify.py`): a hint only. `Queue` and
  `ChannelLog` let a poll look again at any time, which covers every wake-up and
  every lost one; how long it takes is not modelled.
- **Console events** (`Hub.watch`, `emit`, `resync`) and `ui/app.js`: what a
  console makes of a resync is in its JavaScript.
- **Start-up** (`pgstore.SCHEMA`, `_find_job_channels`): statements that run once.
- `send_one` and `hooks.test`: they move no state.
- Left out for good: reading, replies and Telegram rendering (text), the command
  line, hosting, the Apps Script senders, the example mailer and worker
  (handlers over the client).

## 2. Modules

| module | models | composes / used by |
|---|---|---|
| `WorkQueue` | what a channel that hands each message to one taker promises | refined by `Queue` |
| `Queue` | polls, takes, leases, acknowledgements, turns, `set_queue`, `set_keep` | `Promise == INSTANCE WorkQueue WITH ...` |
| `QueueProofs` | theorems about `Queue`, and that it implements `WorkQueue` | extends it |
| `ChannelLog` | `append` step by step, polls, cursors, the administrator's requests | |
| `LogProofs` | theorems about `ChannelLog` | extends it |
| `Hub` | the hub, its routes and the SQLite store | |
| `HubProofs` | theorems about `Hub` | extends it |
| `Client` | the client library over one session of the relay | |
| `ClientProofs` | theorems about `Client` | extends it |
| `Push` | the loops of `BotSender` and `HookSender` on several instances, and what moves their rows | |
| `PushProofs` | theorems about `Push` | extends it |
| `Enrol` | requests to join, the console's answers, and the bridge that asks | |
| `EnrolProofs` | theorems about `Enrol` | extends it |
| `Kinds` | `apply_kinds` statement by statement, and the switches thrown by hand | |
| `KindsProofs` | theorems about `Kinds` | extends it |
| `Bridge` | the proposal bridge between the relay and proposal-writer | |
| `BridgeProofs` | theorems about `Bridge` | extends it |
| `MC...` | constants for TLC, one module per specification | extend the above |

`Queue`, `ChannelLog`, `Push` and `Kinds` are views of one set of tables, split
so that each stays checkable: `Queue` and `Push` treat a publish as one step that
may become visible in any order of `seq`; `ChannelLog` opens it into its
statements and has no queue; `Kinds` has the turns that `Queue` takes by hand.
`Enrol` and `Bridge` are one process before and after it has an id.

### How state and actions correspond to the code

**Queue.** A step is one committed statement, or one statement of the take
transaction. A poll `p` goes through `pc[p]`: `Open` (route, `polling(worker,
wait)`), `Enter` (`_take` asks which queues it takes from), `Look` (advisory
lock, purge of overdue claims, what is held already, idle takers ahead, the
`queue_from` it read), `Insert` (the `INSERT ... SELECT ... QUEUED`), `HandOver`
(commit), then `Answer`, `Again` or `Close`. `tx` is the open transaction: its
`purge` and `picks` reach `claims` at `HandOver`. `Lapse` and `AskLapse` are
time. `SetTurn`/`Leave` and `Release` are separate because `_release` is a
statement of its own; `SwitchRead` and `SwitchOn`/`SwitchOff` because
`set_queue` reads the head outside its transaction. `Fail` loses a request or an
instance, `Stop` a worker for good. The two UPDATEs of `ack` (the cursor, then the
claims) are one step: no hand-out to a taker depends on a cursor. `got` and `handed` are history.

**ChannelLog.** `pub[r]` is where `append` is for request `r`: `Check` (mute and
job), `Insert` (the sequence is advanced, whatever comes of it), `Place` (the
unique index waits for an open transaction with the same id, or raises; `_trim`
decides what to drop), `Commit`, `Confirm`, `Lookup` (after a `UniqueViolation`).
`Fail` rolls back, or only loses the answer; the request may then be repeated.
`Read`, `Spend`, `Receive`, `Lose` are a poll, `Ack` and `StrayAck` an
acknowledgement of what this membership was sent, and one that was not.
`plan[w]` is what `join`, `resend_to` or `skip_to_now` has read and not yet
written. `late` is history: messages whose transaction was open when a higher
`seq` was issued, or the head was read.

**Hub.** A step is the code between two awaits. `Arrive` (look up the token),
`Serve` (accepted; closes a predecessor), `Register`, `End` (`finally`), `Drop`,
`Restart`; `Look` (`wake.clear()`, cursors, first rows), `Send` (one row, then
the next rows or back to waiting), `Ack` (of any `seq` at any time: `hub.py` 157-160
and `store.py` 212-218 look at nothing but the head of the log); `Post`, `Leave`, `JoinNow`,
`JoinFromStart`, `RemoveChannel` with `Tell` and `Notified` (the frame that
`notify` awaits before it sets `wake`), `Rotate`, `RemoveWorker`, `AddWorker`,
`Prune`. `loop[s]` holds what `_deliver` keeps across its awaits: the snapshot
of cursors, the channels still to visit, the rows read, whether a batch was full.
`got`, `owed`, `newest`, `mixed` and `stray` are history: `got[w]` is what `w` was
sent, on whatever sockets, since it joined the channel, and `stray` the memberships
that acknowledged more than that.

**Client.** `up` and `down` are the frames on the wire, `Deliver`, `OnPublish`
and `OnAck` the relay's side. `Call` and `TimeOut` are `publish`, `Dispatch`,
`Flush` and `Flushed` the reader (`_flush` sends a snapshot of the outbox, then
`_flush_acks`), `Handle`, `PassOver`, `Return`, `Acknowledged` the handler loop.
`Connect`, `Break`, `Notice`, `Crash` are the connection and the process. `Leave`
does not touch what the relay remembers having sent on the connection; `Forget` is
`_deliver` finding the channel gone and dropping it (`hub.py` 219-221), which may
come after the worker has joined again, and then does not. `again` and `passed` are
history of the present membership: whether it was joined from the start while the
process knew the channel, and up to where the connection had been sent it by then.

**Push.** `loop[l]` is where one instance's `run` is: `waiting` (the nudge or the
timer), `looking` (`bots_with_work`, `hooks_with_work`), `round` (its list, the
row in hand, that chat's page) and `acking` (sent, the cursor not yet moved).
`Send`, `PassOver`, `Refuse`, `Fail` are what `deliver` does with a
message or `fire` with a trigger, `Abort` is what `run` catches, `Crash` an
instance. `Ack` is `bot_ack` and `hook_fired`. A row's list entry holds the
cursor, the head and the `deaf_to` of when it was listed, as in the code.
`told`, `passed` and `mine` are history.

**Enrol.** `call[r]` is where `request_worker` is for request `r` (`Check`,
`Clear`, `Insert`, `Expire`), `approval[a]` where `approve_worker` is (`Approve`,
`AddWorker`, `Grant`). `bridge[b]` holds the bridge's id and ticket as in memory
and as saved, and what it read; `Poll`, `Ask`, `AnswerGone`, `AnswerPending`,
`Collect`, `Told`, `Begin`, `Reply` are the answers of the relay and what `enrol`
does with each. `Crash` keeps the file, `Redeploy` does not. `made`, `twice` and
`raced` are history: requests a worker was made for, two were, and those that were
being approved twice at once, or whose approval a restart cut off between its worker
and its answer.

**Kinds.** `request[s].at` is the next statement of `apply_kinds` (`ReadKinds`,
`SetRepeat`, `ReadMembers`, `CountTurn` and `GiveTurn`, `Wipe`, `Wire`,
`ReadChat`, `WriteChat`), the rest of `request[s]` what it read. The UPDATE that
gives a turn is two steps: its subquery sees what was committed when it began,
its row is looked at again when it is locked. `line` holds the typed members that
`ReadMembers` found with their `joined_at`, and `Foremost` is the next of them.

**Bridge.** `Poll` is GET /messages, then for the first row in hand `PassOver`,
`Report`, `Draft`, `Refuse`, `Silent` or `TimeOut`, and `Ack`. `Turn` is what
becomes of proposal-writer.

### Main abstractions
- *Queue*: one channel; leases and polling marks are two facts (run out or not);
  who posts which `seq` and the routes are fixed per instance.
- *ChannelLog*: one channel, `keep` fixed, one poll per worker, a response to a
  membership that ended counts as lost.
- *Hub*: a socket is used once and channels are numbered in the order they are
  read. What was sent counts as received. A message posted by a worker is not owed to it.
- *Client*: one channel; a broken link swallows what is sent until the client
  notices; the back-off is any delay; a rejected token and `close()` are left
  out.
- *Push*: one channel; `join`'s read of the head and its insert, `resend_to` and
  `skip_to_now` are one step each (`ChannelLog` takes those apart); a chat's
  message goes out with all its parts or not at all.
- *Enrol*: a request and its ticket are one number, a week and the time a refusal
  stands are one length; workers that are added outright are left out.
- *Kinds*: one channel with one chat; turns set by hand are in `Queue`.
- *Bridge*: room channels; a sleep takes any time; proposal-writer is external,
  modelled by the answers the bridge tells apart.
- In each module `Histories` is a prefix-closed set of sequences of acts
  (administration, failures, lost connections). It bounds how often they happen
  and in which order, never when: they interleave with everything else.

## 3. What is checked

`Act` bounds the rare events; the other actions are bounded only by how many
messages, requests and sockets an instance has.

| run | bounds | shows |
|---|---|---|
| `queue` | 2 messages, takers a before b, a poll each, batch 1, one of: a lost poll, a leaves and comes back into its turn, the queue switched off, `keep` cut to 1 | `OneTaker`, `TxInv`, `ClaimInv`, and `KeepsPromise`: every step is one of `WorkQueue` |
| `queue_live` | 1 message, 5 longer histories (turn taken and given back, leave and rejoin, off and on, takers that die, two lost polls) | `TypeOK`, and `Served`: what is queued is worked in the end |
| `log_publish` | 3 publishes sharing an id or a job, 4 seqs, keep 1, up to 3 failures, mute and unmute | `StoredOnce`, `Confirmed`, `KeptPlusLate` |
| `log_read` | a reader, 2 publishers, 3 seqs, keep 2, one message per response, 7 histories of joins, rewinds, losses, stray acknowledgements | `TypeOK`, `MissedOnlyLate`, `Delivered` |
| `log_job_once` | 2 publishes of one job | the disagreement 1 of section 5 |
| `hub` | a worker in 2 channels, 2 sockets (symmetric), 2 messages, batch 2, 2 tokens, 8 histories | `TypeOK`, `Presence`, `NothingForgotten`, `MissedOnlyStray`, `InOrder` |
| `client` | a call of the application and one of the handler, an outbox of 1, 2 messages of others, 4 histories | `TypeOK`, `StoredOnce`, `Confirmed`, `HandledInOrder`, `AckedHandled`, `Returned`, `Acked` |
| `push` | 2 instances of one kind of loop, a chat or trigger that works and one that never does, 2 messages of 2 authors, batch and page 2, 9 histories | `TypeOK`, `NothingPassedOver`, `OnceEach`, `Served` |
| `enrol` | a bridge (redeployed, a stranger of its name), 2 administrators, 4 requests at once, 2 ids, 7 histories | `TypeOK`, `OneWorker`, `PendingOnce`, `StaysRefused`, `Arrives` |
| `enrol_refused` | the same, one rejection | the disagreement 2 of section 5 |
| `kinds` | 3 members and a spare id, 2 requests at once, up to 4 acts | `TypeOK`, `Follows`, `NextInLine`, `LeftAsTheyAre` |
| `bridge` | 6 messages in 3 channels (one not watched, two jobs refused for themselves), 2 per response, blame after 2, 6 histories | `TypeOK`, `Kept`, `Through` |

Why the bounds are enough for the cases they are meant for: two takers and two
polls give every pair of requests that can race for the lock or a claim; two
messages give "the one below" and "the one acknowledged", which is what every
cursor or batch acknowledgement confuses; a second socket is what replaces a
first, and the third case, a socket that outlives both, adds no new relation
between a session and `sessions`; two channels are what `_deliver` walks over;
an outbox of one is full with one call waiting. In `push`, two instances are the
pair that lists one row twice, and two messages the one sent and the one still to
come; chats and triggers share no state, so an instance of the model runs one
kind of loop. In `enrol`, four requests are one waiting, one being inserted and
one each left behind by a crash and a lost file. In `kinds`, three members are a
sender, its recipient and a bystander, or two takers and one more; two requests
are a pair of half-done ones. In `bridge`, the two bad jobs reach `Blame`, and the
two messages not watched fill a response. `queue` does not switch the queue on again
and changes no turn, which would take it past what is practical: for those acts
`KeepsPromise` rests on the theorem `QueueImplements` alone, while `queue_live` runs
them for `TypeOK` and `Served`. The safety properties of every run are
also proved for every size (section 4); the liveness properties are not.

Some properties are weaker than the documents, on purpose; each exception is what
the code does, and section 5 says which of them a document contradicts:
- `MissedOnlyLate`, `Delivered`, `Push`'s `NothingPassedOver` and `Bridge`'s `Kept`
  except messages that were *overtaken* (`late`), and so does `KeptPlusLate`.
  `MissedOnlyLate` and `Delivered` are about what is still owed: what a person's
  rewind written late jumps over, or an acknowledgement of what was never sent,
  is given up and no longer owed.
- `NothingPassedOver` excepts what was put back while a round had that row in
  hand (`InHand`); `Push`'s `Served` is about rows that are not `Broken`, of which
  there are fewer than `Batch`: a round lists the rows furthest behind, so a
  batch of dead addresses would be all it lists.
- `OneWorker` excepts a request that was being approved twice at once, or whose
  approval was cut off (`raced`); `PendingOnce` a name under which two requests
  were being served at once (`overlapped`); `Arrives` a bridge that shares its name, whose request the
  other's deletes, and one that was told no.
- `NextInLine` excepts a turn counted while another was given (`tied`), and
  `LeftAsTheyAre` a chat whose row changed between the read and the write of it
  (`stale`).
- `Through` excepts `Blame` bad jobs in a row with one answer (`Blaming`), and a
  response full of what the bridge does not watch (`Crowded`).
- `MissedOnlyStray` excepts a membership that acknowledged more than it was sent
  (`stray`): by mistake, or because the client kept an acknowledgement of an earlier
  membership over a disconnection and the worker joined again from the start.
- `NothingForgotten`, `InOrder` and `MissedOnlyStray` except a worker that left
  a channel and joined it again *from the start* while rows of the earlier
  membership were on its socket, or a delivery had not passed the channel
  (`mixed`). `Session.sent` and the snapshot of cursors survive such a rejoin
  when both notifications fall into one look, so history below what was sent is
  not sent, or is acknowledged unsent. The model keeps that behaviour.

- `Client`'s `AckedHandled` excepts a membership joined from the start while the
  process knew the channel (`again`), and `Acked` what the connection was sent before
  such a rejoin that `_deliver` did not see (`passed`), until there is another
  connection. The next membership, or the next connection, is under the properties again.

### Fairness
- *Queue.* Weak fairness of each poll's next step and strong fairness of `Look`:
  a live worker polls in a loop, an instance runs the request it has, Postgres
  grants an advisory lock to waiters in turn. Weak fairness of `Lapse` and
  `AskLapse`: clocks advance. Strong fairness of a live taker's acknowledgement:
  it handles what it is given, within the lease sooner or later; without that a
  message goes round for ever, as the code intends. Nothing is assumed of
  publishes, administration, failures or `_release`. A stopped worker is
  not assumed to do anything.
- *ChannelLog.* Weak fairness of a member's poll and of its acknowledgements.
  Nothing makes a publish go on.
- *Client.* Weak fairness of the relay's delivery and of its reading, of
  connecting and noticing a broken link (`run` retries for ever, pings end a
  dead link), of the reader and the handler task, and of a handler making the
  request it is to make. Breaks, crashes and time-outs are bounded by the
  histories: a connection that always breaks gets nothing through.
- *Hub* is checked for safety only: `NothingForgotten` says that a loop that
  sleeps has nothing to do, which is the safety part of delivery.

- *Push.* Weak fairness of a loop's own steps (`asyncio.wait_for` ends every wait,
  and calls outside have time-outs), and of a trigger's rest running out.
- *Enrol.* Weak fairness of the bridge's steps (its loop goes on and its container
  starts it again), of the statements of a request that arrived, and of an
  approval that began. Nobody is assumed to look at the console.
- *Bridge.* Weak fairness of `Step`: every request it makes has a time-out.
- *Kinds* is checked for safety only: each of its operations ends by itself.

`CHECK_DEADLOCK FALSE` is set for all but `Queue`: an instance ends once its bounded
messages, sockets, requests and acts are used up. `Queue` never stops, since a
poll can always be opened and closed, and is checked for deadlock.

## 4. What is proved

Each theorem holds for every value of the constants that satisfies the module's
named assumption (`ConstantsAssumption`, `LogAssumption`, `HubAssumption`,
`ClientAssumption`, `PushAssumption`, `EnrolAssumption`, `BridgeAssumption`,
`KindsAssumption`, `NoKindAssumption`: types of the parameters, distinct ranks, a
chat or trigger at least, finitely many administrators, requests and ids,
sentinels outside the sets they are added to).

**Queue** (`QueueProofs`). `TypeCorrect`: `Spec => []TypeOK`. `OneTaker` is not
inductive: a commit could hand over a claimed message. `IInv` adds `TxInv` (what
the open transaction picked is unclaimed or in its own purge, what it purges is
still overdue, and one poll at most is inside) and `ClaimInv` (what was handed
out is claimed for just that taker, or dropped). The advisory lock gives `TxInv`:
only the lock's holder adds claims, and every lock-free statement (ack, release,
trim, switch off) only takes claims away or settles them, so a message that was
free stays free. `ClaimInv` then gives `OneTaker`. `OneTakerAlways`, `TxAlways`
and `ClaimAlways` follow from `Inductive`.

**Queue implements WorkQueue** (the last part of `QueueProofs`). `Item` maps the tables to
`waiting`, `held`, `overdue`, `done`, `gone`. One lemma per kind of step
(publishing drops the oldest, an acknowledgement settles what is in hand, a take
hands over what is free or overdue, `_release`, `set_queue`), the rest leave the
items alone; `StepRefines` combines them under `IInv`, and `QueueImplements` is
`Spec => KeepsPromise`.

**ChannelLog** (`LogProofs`). `LogTypeCorrect`. `Published`: `PublishInv` adds to
`StoredOnce` and `Confirmed` that an open transaction owns its `seq` (`WriteInv`)
and that a placed row is the only telling of its id, placed or committed
(`UniqueInv`, the unique index); `StoredOnceAlways` and `ConfirmedAlways` follow.
`MissedOnlyLateAlways`: `DeliverInv` says that an open transaction nobody
overtook has the last `seq` and lies above every cursor and every place an
administrator's request has read (`FreshInv`), and that a member which received,
or is being sent, a message has all that is owed to it in time below
(`InOrder`). A late acknowledgement is then harmless because the cursor is
capped by what is stored, and an administrator's stale write because the head it
read made everything open then late. `KeptPlusLateAlways`: `KeptPlusLate` bounds
the whole log, which a commit enlarges before anything is trimmed again, so
`TrimInv` bounds what is stored and nobody overtook (`log \ late`), and also what
each placed transaction will leave of it (`Left`): its trim saw all that was not
overtaken, since a message that commits later was open when a higher `seq` was
issued, and that makes it late. `KeptFew` is the counting: what a trim keeps, by its
definition through the number of rows above, is at most `Keep` rows.

**Hub** (`HubProofs`). `HubTypeCorrect`: `TypeOK` is inductive by itself; the step
that needs an argument is `_deliver` going on, where a first channel and a first
row exist because a set of naturals has a least member (`FirstOf`, from the
library's well-foundedness of `<`). `PresenceAlways`: `NewestInv` adds to
`Presence` that whoever registered last authenticated as that worker and is
served or was. A newcomer being accepted is in nobody's `newest`, so entering
disturbs one worker only; `finally` clears the place only of the socket that
ends, and if the one that ends is not registered, it was not the newest.
`InOrderAlways` and `NothingForgottenAlways` come from one invariant, `DeliverInv`,
because neither stands without the other.
Its `KnowInv` says of each socket, membership by membership that is not mixed,
what its loop knows: all that is owed and lies at or below the last row it sent
was sent or acknowledged (`SentAt`), the rows in hand lie beyond that with nothing
owed left out between (`RowAt`), and a channel yet to visit is read from where the
cursor was, which is not past where it is now (`TodoAt`). `ComingInv` says of everything owed
that a socket has it, has its cursor past it, or will look again: in its rows, in
a channel to come, behind a full batch, or with `wake` set or a frame pending
(`Reached`, `Coming`). A step that moves no place a loop reads (`Quiet`) keeps
both; `LowestRows`, `RowsRead` and `OnwardReads` say what a read with a limit
leaves out, namely nothing below its last row. `MissedOnlyStrayAlways`: an
acknowledgement may come late and of anything, so it is no use to say of a socket
what it was sent. `GotInv` says of the worker that whatever it is owed below its
cursor, or below anything a socket of it was sent of the channel, it was sent since
it joined, unless the membership is mixed or stray. It is inductive where
`DeliverInv` holds: a row that goes out has nothing owed left out below it.

**Client** (`ClientProofs`). `Shape` (sequences are sequences, an acknowledgement
kept or on its way is at most `handled`, the handler's message is past it) is
inductive by itself and under all the others. `StoredOnceAlways`: `Once`, because
the relay appends a request only when the log has none of it.
`ConfirmedAlways`: `Told`, every confirmation on its way names a stored message,
and a log only grows. `HandledInOrderAlways`: what ran is at most `Top`, the
message in hand or else `handled`. `AckedHandledAlways` needs `Covered`: nothing
owed is missing up to the cursor and up to `handled`, and what is owed below any
message of the pipeline (the relay's place, the wire, the inbox, the handler) was
dealt with or is further ahead in it. Whatever the relay remembers having sent, a
process that knows nothing was sent nothing over this connection (`Known`, with
`Aware`): that is why a rejoin that `_deliver` did not see is covered by `again`. A broken connection empties the wire and the
next begins behind the cursor, a crash empties the inbox too: both only shorten
the pipeline. `JoinFromStart` is where `again` comes in: it puts messages back
below `handled`. `ClientTypeCorrect`: `Typed` carries the types; the outbox holds
each request once (`RemoveOf`: taking one out leaves the others), and the log's
length is bounded because all but others' posts inject into the requests
(`LogBound`, from `Once`).

**Push** (`PushProofs`). `Sound` is `TypeOK` with what a loop has in hand being
stored. `SentInv` for `NothingPassedOverAlways`: what appears below a cursor, a
listed cursor or a message in hand is late (`Reached`), all that is due up to a
listed cursor was had (`ListInv`), a chat's page skips nothing, and what is about
to be acknowledged was had with everything below it (`PageInv`). `PutBack` takes
back what a row had only while no loop has it in hand, which is why the others'
lists stay true. `OnceInv` for `OnceEachAlways`: what a loop sent is below the
cursor or about to be, hence below every cursor it lists later, and a row is on
a list once.

**Enrolment** (`EnrolProofs`). `Sound` is `TypeOK` with `Room` (an approval that
began leaves room for its id: a bound of the model, kept by counting the
approvals before their id) and `Named`. `YesInv` for `OneWorkerAlways`: a request
that has no row yet was not approved; of one that is not `raced`, one approval at
most is under way, no worker was made before its id, and a row whose worker was made
is granted or about to be, so the next approval finds the id. `OneInv` for `PendingOnceAlways`: of a name that was never asked under
twice at once, one request is in flight, and it cleared the others before it
inserts. `StaysRefusedAlways` rests on `RefusedInv`: a ticket somebody holds is
of a request that is not in flight, an answer "granted" that a bridge has read
stays true while the row is there, and a name in `no` has a refused row (`NoInv`),
which a request that came later finds at its first look (`CallInv`).

**Bridge** (`BridgeProofs`). `KeptInv` adds to `Kept` that the rows in hand are
stored, that what is owed below a row in hand and is not in hand was had
(`InOrder`: the response skipped nothing, because it is the first rows by `seq`
of what is due, which is counted), and that a cursor stands at a message (`Reached`). Handing over the first row in hand
therefore leaves nothing behind it, and neither does the cursor `ack` writes.

**Kinds** (`KindsProofs`). `Sound` is `TypeOK` with `LineInv`: a request that is at
one worker's turn, routes or wiring has somebody left to go through, all of whom
it read a kind of, so `Foremost` exists (`ForemostOf`) and its kind is one of
`KINDS`; `MAX(priority)` exists because ids are finite (`LargestOf`).
`NextInLineAlways`: `NextInv`, a turn that was counted and that no other turn was
given since is above every member's, whoever left or joined meanwhile; the request
that gives it then disturbs nobody. `LeftAlone` is an action property: each
statement writes only rows of workers the request read a kind of, which `LineInv`
says of those it goes through; for the chat, `ReadInv` says that what was read of
it is still so but for the workers in `stale`. `FollowsAlways`: `FollowInv`. Who is
`alone` has nobody else under way (`AloneInv`), read what is still so, and has in
place everything it went through (`SoFarInv`: switches up to `todo`, turns and
routes of the members that are no longer in `line`, the routes in hand up to
`todo`), so at its end all is in place (`SettledInv`). Removing a worker is the one
act that changes the tables and leaves `settled` as it is: a transaction that takes the worker out of
everything takes it out of the others' routes too.

**Model-checked only.** The liveness properties: `Served` (of `Queue` and of
`Push`), `Delivered`, `Returned`, `Acked`, `Arrives`, `Through`. They need fairness
and ENABLED, which are out of tlapm's reach. Every other property of a passing run
is the statement of a theorem. No module declares a RECURSIVE operator, and no
theorem needs induction over data.

## 5. Where the documents and the code disagree

Shown by a run of its own, which the code violates:

1. `log_job_once`: the look for the job "cannot be made stale by something
   committing meanwhile" (`pgstore.py` 1884): at READ COMMITTED, without a
   unique index, it can.
2. `enrol_refused`: `Bridge.__init__` sets `self.refused = ""`
   (`proposal_bridge.py` 440), which hides the method `refused` (504). The call at
   486 and 501 raises TypeError: the exit is a crash's, the ticket stays in the
   file, and the container starts a bridge that asks again, where line 515 logs
   "not asking again" and `examples/bridge.compose.yml` (41) counts on a clean exit.

Met by a property that says what the code does, with an exception or against the
document (each is a finding of `PROJECT.json`, of the run that checks the property):

3. `_trim` runs in its message's transaction "so the channel is never briefly longer
   than it is allowed to be" (`pgstore.py` 1956-1957, and `set_keep`, 1246-1248: "never
   longer than it says it keeps"). At READ COMMITTED two trims do not see each other's
   message, and both stay until the next one (`log_publish`, `KeptPlusLate`).
4. "Approving twice gives the same id rather than a second worker" (`pgstore.py`
   1186-1187; `tests/test_serverless.py` 266-275 clicks twice, one after the other).
   `approve_worker` is three transactions: two people who both find the request
   unanswered make two workers, of which the request keeps the last, and an approval
   cut off before its last statement leaves a worker nobody is told of (`enrol`,
   `OneWorker`).
5. "One row per name waiting" (`pgstore.py` 1113-1116): two requests of one name that
   both delete before either inserts wait side by side (`enrol`, `PendingOnce`).
6. A repo finder reaches "the GitHub editor" by the table of the README (447), and the
   proposal writer by `kinds.py` 57, which `tests/test_serverless.py` 1313 expects. The
   model follows the code (`kinds`, `Follows`).
7. "What a person set by hand about an untyped worker is never touched" (README 464,
   and `pgstore.py` 958-959): `apply_kinds` reads a chat's `deaf_to` in one statement
   and writes all of it in another, over what was set in between (`kinds`,
   `LeftAsTheyAre`).

In the models, and stated by the exception of a property or by the comment of the
definition that has it:

8. The lease "covers a hand-out that never arrived" (`pgstore.py` 330-332), but
   `ack` settles every claim of the worker up to the `seq` (1661): a late
   acknowledgement of 2 settles 1, whose hand-out was lost (`Queue`'s `Ack`).
9. "A taker's own posts are not work" (README 380), but `QUEUED` (340) asks who is
   a taker *now*: once the author leaves, its posts are handed out (`Queued`).
10. "The server resends everything after the cursor" (README 74-77): a message that
   commits after a higher `seq` was acknowledged is never sent (`late`).
11. A rotation or removal "disconnects the worker" (README 101-102), but a socket
   that is being accepted is in no session yet (`app.py` 125-132, `Rotate`).
12. "--from-start to also get what the channel still holds" (README 87-89), but a
   process that knows the channel passes over everything up to what it handled,
   and acknowledges it (`Client`'s `again`). Two more ways to the same: a worker that
   leaves and joins from the start before `_deliver` looks is not sent what lies at or
   below `Session.sent` (`hub.py` 219-221) until it connects again (`Client`'s `passed`,
   `Hub`'s `mixed`); and one that does so while disconnected, with an acknowledgement
   kept (`client.py` 164-175), sends it after the welcome, and the cursor passes the
   history (`store.py` 212-218; `Hub`'s `stray`).
13. What `resend_to` puts back is to be sent again (`pgstore.py` 1561), but a round
   that has the chat in hand then writes the cursor it listed (842, `InHand`).
14. `reissue_id` is for "keeping everything else" (`pgstore.py` 985-1004), but the
   new row has no kind and may not repeat (`Kinds`' `Reissue`).

Smaller things the models have and no document is about: `_flush` sends a snapshot
of the outbox, so a call that timed out meanwhile is sent after all; a publish that
was stored is refused (`not_member`) when it is repeated after the worker left;
a rewind by hand that is written after the member moved on puts it where it was
when it was read; an acknowledgement of what was never sent is believed, up to the
head of the log; a removed worker's id is found again under a request that was granted, and the request is dropped.

## 6. Plan

Done: `WorkQueue`, `Queue`, `ChannelLog`, `Hub`, `Client`, `Push`, `Enrol`, `Kinds`,
`Bridge`, each with its theorems. To come, in this order:

1. **`Mailbox`**, an abstract contract of a relay towards one member (an ordered
   log, at-least-once delivery from a cursor that only acknowledgements move):
   `Hub` and `Bridge`'s relay shown to implement it.
2. **Console events**: the bounded queue and its `resync`.
