# A TLA+ model of the messaging server

The repository is the backend of a chat product: NestJS, MongoDB through Prisma, Socket.IO,
LiveKit for the media of calls, SMTP for verification codes. Tenants are *projects*;
everything below happens within one project. The deployment the code is written for is one
Node process ("in-memory connection presence and concurrent-send protection assume one
primary backend process", `docs/realtime-messaging.md:15`), plus the serverless entry
points of `api/`, which matter to the email queue, the mail relay and the start of the
server.

Paths are relative to the repository; in tables, `app/` stands for `src/app/` and a path
without a leading directory lies under `src/app/modules/`.

What makes the system hard is the same everywhere: a handler is cut by its awaits, other
handlers run in the cuts, the database has neither transactions nor locks in use (only a
few unique indexes and conditional updates), and some state is in memory and dies with the
process. So in every module a step ends at an await, and a property is about what two or
more handlers, or a handler and a failure, may do between them.

## 1. Inventory

| component | state | operations | hard behaviour | what makes it correct |
|---|---|---|---|---|
| Call signaling (`call/call-signaling.service.ts`, `call/store/in-memory-call.store.ts`, handlers in `realtime/realtime.gateway.ts`) | the active calls, the armed timers | start, accept, reject, cancel, end, ringing timeout, missed-call listener | two awaits between "caller is free" and the creation; timeout against answer; a listener that stores a message | legal transitions, every ringing call is timed, an answered call is never missed, receivers stop ringing |
| Message sending (`message/message.service.ts`, publisher) | messages, the map `pendingSends` | sendMessage, persistMessage | retries of one client id, lost database answers, restarts | stored once, every answer names the stored message, broadcast only what is stored |
| Receipts (`message/message-receipt.service.ts`) | receipts, read pointers | markDelivered, markRead, markMessagesAsRead | several devices at once, parallel upserts, partial failure | times persist, an answered call has done its work, the pointer is backed by a receipt |
| Verification email (`app/infrastructure/email/verification-email.service.ts`) | the durable queue | enqueue with resend, drain, deliver | several processes, leases, crashes, late answers, lost writes | exclusive delivery, outcomes stand, everything settles |
| Typing (`realtime/typing/*`) | entries, timers, entries per socket | start, stop, expiry, disconnect | tabs, reordering across a lookup, sockets that go first | an entry has one timer, others see what the store has |
| Presence (`realtime/presence/*`) | sockets per user, online flag and last-seen time | connect, disconnect | quick reconnections, restart of the process | maps agree, rows and broadcasts true in the end |
| Message requests and direct conversations (`message-request/*.service.ts`, `conversation/conversation.service.ts`) | requests, conversations | send, accept, reject, cancel, createDirect | check-then-act without locks, failure between two writes | one conversation of two users, an accepted request is connected |
| Groups (`conversation/conversation.service.ts`) | participants and roles | create, add, remove, leave | decisions on a copy, several writes | an admin remains, an answered departure is done |
| One-time codes (`app/shared/otp/otp.service.ts`) and authentication (`app/auth/`) | codes, users, passwords, sessions | register, resend, forgot, verify, reset, login | invalidate-then-create, look-then-mark, failure between user and code | one valid code, a code works once, a reset ends sessions |
| Message editing, deletion, queries (`message/message.service.ts`, handlers in the gateway) | messages | update, delete, list by cursor, preview | edit of a message deleted meanwhile, broadcasts that overtake each other, messages that commit late | a deletion stands, all views agree, no message is skipped |
| List of conversations, pagination (`conversation/conversation.service.ts`) | order of conversations | a page and its count | two queries at once, an order that moves and has no tie-break | what nobody touched is seen |
| Rooms (`realtime/realtime.gateway.ts`, `realtime/realtime-publisher.service.ts`) | sockets, rooms | connect, join, leave, publish | a join answered after a removal | all members hear it, nobody who never was one |
| Guards, roles, administration (`app/common/guards/`, `admin/admin.service.ts`, `app/auth/`) | user row, sessions, cached cookies, tokens | login, refresh, guard, change of role and status | a copy in a cookie, a change in three writes | a suspension bites, an answered change is whole |
| Projects and communication users (`project/*`, `communication-user/*`) | projects with status and key, provisioned users | guards, sync, directory, new keys, suspension | upserts at once, a filter lost on an error, limits of a discovery and a page | who is barred does not pass, the directory lists registered users and counts all it found |
| Startup (`api/index.js`, `project/project.service.ts`, `app/auth/better-auth.instance.ts`) | the cached promise of the bootstrap, the default project | bootstrap, hooks, creation of projects | several processes on an empty database, a failure that is kept | who serves has what he needs, only the race for the first start fails |
| Mail transport (`app/infrastructure/email/email.service.ts`, `api/email-relay.js`) | cached templates | SMTP, relay | the caller gives up before the relay does | an answer says what became of the mail |
| Keep-alive (`app/infrastructure/keep-alive/`) | two timers | ping | intervals out of range, pings that fail | a quiet service stays awake |
| Call tokens, LiveKit, uploads | none | calls of outside services | - | - |
| Filters, interceptors, logging, configuration | none | pure or I/O | - | - |

How they interact. The gateway authenticates a socket, then calls presence (connect,
disconnect), typing (and its cleanup on disconnect), call signaling and the message and
receipt services; all of them ask `ConversationService.findById` for membership, and all
publications go through the publisher into the rooms of users and conversations. The
ringing timeout calls back into the gateway, which stores a message through
`MessageService` and so through the publisher into the rooms. Accepting a request calls
`ConversationService.createDirect`. Registration and resend create a code and enqueue its
email; verification uses the code up while the email may still be on its way. The queue
hands each email to the mail transport. REST calls pass the AuthGuard or the guards of the
project first, and a socket the handshake, which asks the same questions.

## 2. Modules

One module per component, an `MC...` module that gives it values for TLC, and a `...Proofs`
module that extends it with theorems. Proof modules are shared by components that are put
side by side: `ConversationProofs` proves about Typing and everything in `Conversations`,
`AccountProofs` about everything in `Accounts`. Operators marked `\* mutant` are plausible
bugs of the definition that follows them; they are not part of the model.

Components that share no state in the models are put side by side in a module that gives
their properties names: `Conversations` (Presence, which it extends, and instances
`History` of MessageHistory, `List` of ConversationList, `Rooms` of GatewayRooms) and
`Accounts` (OneTimeCodes, which it extends, and `Access` of AccountAccess, `Projects` of
ProjectAccess, `Starts` of Startup, `Mails` of MailTransport, `Pings` of KeepAlive). Each
is checked in one run: in `MCConversations` and `MCAccounts` a behaviour is one of the
component that the variable `side` names, and the others rest in an initial state; no
property speaks of two of them. This is no composition, it only saves runs, and the
theorems are about the specification of each part (`History!Spec` and so on). ReadStates,
on the other hand, is composed with MessageReceipts, whose rows it reads.

Two small modules are shared. `Connections` declares the sockets of the gateway and their
users, which Presence and Typing both follow, so that one module can extend both. `Sorting`
says what an `orderBy` returns that has a tie-break, as that of messages has: `Sorted` puts
each row at the place that the rows before it leave, found by counting. It is a closed form
and not a recursion, which is what makes the proof about pages of messages possible; an
`ASSUME` of `MCConversations` has TLC check that it sorts every subset of five, and
`SortedSorts` proves it for every finite set. The lists of conversations and of users are
ordered by a date alone, or by one that is not modelled; their pages are sets.

**CallSignaling** implements **CallSession**. An id is one attempt: it names the
`startCall` invocation and then the session. `status`, `caller` and `receiver` are the
fields of the session in the store; a status outside `Active`
means the record is not in the store. `timers` is `ringingTimeouts`. `starting` is where
`startCall` stands: `StartCall` (caller checked), `ConversationRead` or
`ConversationRefused`, `ReceiverBusy` or `ReceiverFree`, `Ring` (create, arm, announce).
Every other operation is a `pending` record between its `getCall` (`Request`, or
`TimerFires`) and its effect: `CallMissing`, `Refuse`, `Accept`, `Terminate`, `Expire`.
`missed` is the gateway's listener: `SaveMissedCall`, `AnnounceMissedCall`,
`MissedCallFails`. `told` is what the sockets of a user were sent. `StoreYields` chooses
between the in-memory store, whose promises settle before the event loop takes the next
event (`Quiet`), and what the asynchronous `CallStore` interface allows. `CallSession` is
the same thing as its users see it, with one step for each thing that can happen to a call
(`Ring`, `Answer`, `Decline`, `Withdraw`, `HangUp`, `Miss`, ...), which changes the call and
tells its users at once. `Session` maps `status` and `told` to themselves and hides the
users of an attempt that has no outcome yet; `CallsAreAtomic` is the abstract
specification.

**MessageSend** implements **IdempotentSend**. An invocation is in a phase named for the
database call it awaits. `SubmitFirst` and `SubmitRetry` are `sendMessage` with its map;
`AccessGranted/Denied`, `LookupFound/Empty`, `Create`, `Publish`, `Touch` are
`persistMessage`; `DatabaseFails` rejects a call before or after it commits; `Crash`
forgets the map and the invocations. A waiting retry shares the leader's promise and is
settled in the same step. `Abstract == INSTANCE IdempotentSend WITH ...` maps `messages`
and `answer` to themselves, and `IsIdempotent` is the abstract specification; the lookup,
the publication and the touch stutter.

**VerificationEmail.** `row` is the collection; its clocks are one flag, `due` (the time
the status waits for has come); a lease is numbered by its claim. `Enqueue`, `Reset`,
`Reread` are `enqueue` with the resend; `Poll` is `drain` and `processBatch`; `Claim`,
`Check`, `Cancel`, `Send`, `Confirm`, `Fail` are `deliver`, with `ClaimNothing`,
`ClaimRejected`, `Rejected` and `FailRejected` for its other exits; `Finish` and `Abort`
say what `Promise.all` makes of them. `Crash`, `CodeGone`, `TimeComes` and `LeaseLapses`
are the environment.

**MessageReceipts.** Messages are numbered by `(createdAt, id)` and reach the database in
any order. `StartOne` and `StartBulk` are the three entry points; a receipt is worked on by
`Look`, `Insert`, `Update`, `Duplicate` (unique index) or `Rejected`; `ReturnDelivered` and
`Point` end the call. **ReadStates** adds the reader: `Ask` begins
`getConversationReadState`, whose two queries, `ReadPointer` and `CountUnread`, are
answered in any order with any steps of the calls between them. `known` and `settled` are
what a reader could know when he asked.

**MessageHistory.** `Stamp` and `Commit` are the two ends of a `message.create`. An edit or
deletion is `EditByRest`, `DeleteByRest`, `EditBySocket` or `DeleteBySocket` (`Find`, the
copy of `assertMessageOwner`), then `Write`, and for a socket `Tell`, the broadcast;
`Reject` is a failed call. `StartWalk` and `ReadPage` are a client who follows
`nextCursor`; `Query` sorts by `NewestFirst` and takes one more than a page;
`FindMessages`, `FindMessageById` and `Preview` are the three ways to see a message.
`screen` is what the room was told. `raced` (in the run `rewritten`) and `astray` are
histories.

**ConversationList.** `Touch` writes an `updatedAt`, which a handler that was held up after
`new Date()` took at any time before: it may equal that of another conversation, or lie
before the date that it replaces. `Join` and `Leave` change the list. A page is `Count` and
`FindMany`, in any order (`Promise.all`); `TotalPages` and `HasNextPage` are its arithmetic.
The query orders by `updatedAt` alone (`conversation.service.ts:219`), so conversations of
one date have no order, and two queries may put them differently: `Beginnings(n)` is what
the first n rows may be, and `FindMany` takes any one of them up to its offset and any one
that continues it up to its end. The walk may therefore miss a conversation that shares its
date with others at the end of a page; `torn` holds those (`Parted`), and
`UntouchedAreSeen` excepts them, and no other of that date. `untouched`, `torn` and
`slipped` are histories.

**GatewayRooms.** `AskToJoin`, `FindById`, `Join` are `handleJoinConversation`, `LeaveRoom`
the other handler; `AddParticipant` and `RemoveParticipant` change the membership behind
their back, `Connect` and `Disconnect` the sockets. A publication is `Begin` (the
recipients are read), `Create` and `Emit`, to the union of the room and the users' rooms;
`EmitAgain` is what the missed-call listener adds. `entitled` and `steady` are histories.

**Typing.** `Receive` is the await of the membership lookup; `Start` (by `Begin` or
`Refresh`), `Stop`, `Refuse` are what follows; `Expire` and `CleanupSocket` are the timer
and the cleanup, `Open` a new socket. `started` is what the others were told last. `armed`
counts timers per entry, so that a leaked one would show.

**Presence.** `Connect` and `Disconnect` change the store at once, then `arrival` and
`departure` go through the update of the row (`WriteOnline`, `WriteOffline`) and the
broadcast (`TellOnline`, `TellOffline`). `Crash` empties the store and keeps the rows.
`blurred` is a history variable: users whose latest transitions overlapped or failed.

**MessageRequests.** A request is named by its sender and receiver, as the unique index
does, and an id tells it from one deleted earlier. A call's phase is the database call it
awaits: `Talking`, `ReadReverse`, `ReadForward`, then `CreateRequest` or `Resend`
(`sendRequest`); `ReadAsked`, `MarkAccepted`, `MarkRejected`; `FindCancelled`,
`CancelNothing`, `DeleteRequest`; `FindDirect`, `CreateDirect` (`createDirect`, also the
tail of `acceptRequest`). `raced`, `crossed` and `stranded` are histories that name exactly
the races and failures the properties except.

**GroupMembership.** `ReadToAdd`, `ReadToRemove` and `ReadToLeave` read all rows and
decide; `Create`, `Promote`, `Delete`, `Touch` are the writes, each by row id. Rows made
with the group are equally old (one `now()` for one nested create), so the eldest is any of
them. `stale` is the history of the races that can take the last admin away.

**OneTimeCodes.** One address: its user, passwords (named by the call that set them),
sessions and codes in the order of their creation. `Share`, `FindActive`, `Settle` are
`getOrCreateVerificationOtp` with its shared request; `Invalidate` and `Create` are
`createOtpRecord`; `RegisterFinds` and `SignUp`, `ResendFinds`, `ForgotFinds`, `HandOver`
are the calls that want a code, `VerifyFinds`, `Verify`, `ResetFinds`, `FindAccount`,
`SetPassword`, `Mark`, `EndSessions` those that use one; `SignIn`, `OpenSession`, `Logout`
what better-auth does with a password. `crossed` and `raced` are histories. What becomes of
a code in the queue is VerificationEmail, where `CodeGone` stands for its use and end.

**AccountAccess.** One user. `Login` and `SignIn` are the login on both sides of
better-auth's creation of the session, `Refresh` the refresh of tokens, `CacheSession` and
`ExpireCookie` the signed copy in the cookie. A request of the user is `Ask`,
`CheckSession`, `CheckToken` (the AuthGuard, with the fallback from session to token);
`Admits` is its test of the status. `ChangeRole` and `ChangeStatus` read the row, `Update`,
`EndSessions`, `Audit` are the writes of `AdminService`, `ChangeFails` ends one between
them. `since`, `was`, `had` and `raced` in a call are histories.

**ProjectAccess.** One project, active or suspended. `Ask` is a request with the headers of
its `Kind`, or the handshake of a socket; the directory may be told by a header who asks,
whoever that is. `FindProject`, `FindUser`, `FindSystemUser` are the lookups of
ProjectGuard and CommunicationUserGuard; one `FindProject` stands for the three places that
make that lookup (the two guards and `authenticateSocket`), which decide alike. `Look`,
`Insert`, `UpsertFails` are an upsert under the unique index. The directory (`findAll`) is
`Discover`, which finds at most `MaxFound` of the registered users (`take: 50`, without an
order, so any of them), their upserts in parallel, `FindIds`, `SearchFails`, and then two
queries at once: `Count`, the total, and `FindRows`, one page of at most `PageLimit` rows
(20, or what the client asks for, up to 100). Rows are ordered by the time of their
creation, which is left out: a page is any set of rows of its size (`PageSize`), so nothing
is claimed about the pages together. What a directory promises of the users it has found is
a total that counts all of them, and a first page that, if it has room for more, leaves
none of them out. The search text, which restricts the discovery and the rows alike, is
left out: every request asks for everybody. `SetStatus` and `RegenerateKeys` are the
administrator's. The key of a request is dropped when it is admitted, as nothing uses it
any more. `barred`, `known` and `blind` are histories (the last two also what the handler
itself keeps: its filter and whether it lost it).

**Startup.** `Handle` is the handler of `api/index.js` with `cachedServerPromise`;
`StartHook`, `FindDefault`, `ChooseSlug`, `CreateDefault`, `BuildAuth`, `Listen` are the
bootstrap with its hooks, one after the other in either order, `BootFails` a rejected one,
which stays cached. `FindSlug` and `CreateProject` are other projects made meanwhile,
`Recycle` is the platform. `knew` and `hurt` are histories.

**MailTransport.** `SendMail` decides by the configuration; `Handle` is the relay function,
`Accept` and `Refuse` the SMTP server, `Kill` the platform, `Answer` the response and
`GiveUp` the timeout of the caller. `unheard` is a history. VerificationEmail uses this
part as a send that says true only of a mail that was accepted, and may fail although it
was: `AnswersAreTrue` is the reason why it may.

**KeepAlive.** `Bootstrap`, `Shutdown`, `Fire` are the service with its two timers,
`Arrive` and `Miss` what becomes of a ping, `Visit` anybody's request, `Tick` fifteen
seconds. `Interval` is the clamping of the configuration.

## 3. Runs

`tlc -config X.cfg MCModule`. Deadlock is not checked: the server may be idle, and the
bounded calls, sockets and sends of a run may all be used up. `accounts` starts, for the
codes, from an unknown address, a registered one, or one that came with Google and has no
password; for the mails, from every configuration of the two processes.

| run | instance | shows |
|---|---|---|
| `call_safe` | 3 users, 2 calls (one over REST), a direct conversation of every two and a group of all, in-memory store (`StoreYields = FALSE`) | refinement of `CallSession` (legal transitions, free receivers, who is told what), an answered call is never reported missed, no two users ring each other and nobody is rung twice |
| `call_live` | 2 users, 1 call, yielding store, failing database | every call stops ringing, and its receiver is told so, unless the missed-call message cannot be stored |
| `send` | 5 sends: 3 of one key, 1 of another, 1 without; failures, restarts | broadcasts durable, refinement of `IdempotentSend`, every send settles |
| `send_lost` (violation) | as `send`, without restarts | a send may be answered although nobody was told of its message |
| `email_safe` | 1 job, 1 poller, 3 requests (2 direct), 1 lapse, 1 fault | exclusive delivery, outcomes say what happened, outcomes stand until a restart that was earned |
| `email_live` | 2 jobs, 2 requests (1 direct), batches of 1, 2 attempts, 1 fault | no failure before all attempts; every delivery settles |
| `receipts` | 2 users, 3 messages, 3 concurrent calls, failures; a reader who asks in behaviours of at most 2 calls | answered work is done, times persist, a read state is true though its halves are queried apart |
| `typing` | 1 user, 2 tabs, 2 conversations, 4 events | others see the store, entries end for a cause and do end |
| `conversations`, presence | 1 user, 3 connections, failures, 1 restart | row, last-seen time and broadcast are true unless blurred, arrivals told |
| `conversations`, history | 3 messages (2 texts), 2 edits or deletions, 2 times, pages of 1, failures | a walk by cursor is complete, a deletion stands unless raced, sockets and previews are current unless told nothing |
| `conversations`, list | 3 conversations, pages of 2, 4 dates | a walk by offset sees what was not touched, but for conversations of one date at the end of a page |
| `conversations`, rooms | 2 users with a socket each, 2 joins, 1 publication | a publication reaches all members, once, and nobody who never was one |
| `requests` | 2 users, 4 calls, failures | one conversation unless two creations raced; requests both ways only by a race; accepted means connected, or on the way, or failed halfway |
| `groups` | 3 users, 4 calls, failures | an admin remains unless a departure was overtaken |
| `accounts`, codes | 3 calls of any kind, failures | one unused code of a type unless two creations overlapped, and it works once unless raced; an answered reset leaves no session of an old password; resends keep a code valid |
| `accounts`, access | 2 sessions, 3 requests, failures | the guard passes only what the user was since the request began, but for a cached cookie; an answered change is recorded and has ended the sessions |
| `accounts`, projects | 3 users, 2 requests, 2 keys, a discovery of 2, 2 pages of 2, failures | a suspended project or an old key admits nobody; the directory lists the registered, its total counts those it found, and a first page with room shows them |
| `accounts`, starts | 2 processes, 3 requests, the plain slug free or taken, failures, replacements | who serves is whole; a start fails only by a rejected call or in the race for the first one |
| `accounts`, mails | 2 mails, one of which the relay refuses, all configurations | an answer says what became of the mail, and no call mails twice |
| `accounts`, pings | intervals of -5, 0, 1, 7, 14 and 20 minutes, 1 ping in a row lost | the service is never quiet for 15 minutes while its pings arrive, and one lost ping costs one interval |

**Bounds.** Two or three calls, sends or sockets are what a race of this code needs: each
hazard is one handler overtaking another between two awaits, at most with a third event (a
failure, a restart, a timer) between them. Where a longer history matters (a rejected
request sent again, a cancelled one created anew; a member who left and came back) the runs
have four calls. Bounds are constants or the sizes of `Op`, `Call`, `Request`, `Send`,
`Socket`, `Handler`, `Slot`, `Errand`; counters of faults, lapses, restarts and lost pings
are named `Max...`, and clocks, keys and pages end at `LastTime`, `LastUpdate`, `LastKey`,
`LastPage`. `MaxFound` and `PageLimit` are limits of the code, made small. One user suffices for
typing and presence because their state is per user and nothing reads another user's; one
user, project or conversation suffices for access and rooms because every query names it.
Three messages and pages of one are the least with a boundary among messages of one time
and another behind it; three conversations and pages of two the least at which one can be
pushed over a boundary, leave before it, or share the date of the one behind it; three
users the least that are more than a discovery finds and a page holds, when those are two.
Two processes race for the first start,
and a third request finds what they left. No safety property rests on these bounds: each
one that a run checks is also proved for every value of the constants (section 4), three of
calls under `StoreYields = FALSE`, the store in use, and `FailsAfterAllAttempts` where each
request enqueues a code of its own, as in `email_live`. The type invariants of these
modules, and facts like `TimersMatchRinging` of calls or `StoreIsActual` of presence, are
proved as parts of the inductive invariants and are not run. Symmetry is used only in runs
without liveness.

**Fairness.** `WF` on the steps that answer a database call (the driver answers or times
out), on timers (`setTimeout` and the three-second poll fire) and on settled promises. In
`call_live` timers and the listener have `SF`: their steps are disabled while a store
promise is pending (`Quiet`), infinitely many client events may do that, and the event loop
still serves a due timer. Clients are never fair: nobody has to answer, retry, stop typing
or disconnect. In `conversations` only the handlers of presence are fair (`Continue`, per
socket), since `ArrivalIsTold` is its one liveness property; there and in `send` a restart
settles what it interrupts. `StaysAwake` needs no fairness: a tick is disabled while a
timer is due.

**Histories.** `raced`, `crossed`, `stranded`, `stale`, `blurred`, `late`, `lapsed`,
`astray`, `untouched`, `torn`, `slipped`, `entitled`, `steady`, `barred`, `unheard`, `knew`,
`hurt`, `since`, `settled` never guard a step. They make the claims exact: not "there is
one conversation", which is false, but "two only if this very overlap happened", which
fails for any weaker check in the code.

### Where code and documents disagree

Checked: `send_lost` - "the server broadcasts messages after database persistence"
(`docs/realtime-messaging.md:7`) does not survive a failure between the create and the
publish, because the retry returns the stored message without publishing it
(`message.service.ts:142`).

Read in the code, evident from two lines and therefore without a run of their own:
- `startCall` refuses a caller who is in a call, but looks before two awaits and not after
  (`call-signaling.service.ts:142`, against the comment on line 141): a caller may ring in
  two calls at once, `NoCrossedCalls` says what is left of the promise;
- the missed-call message is emitted by `sendMessage` and again by the listener
  (`realtime.gateway.ts:144`, against the comment on line 539, "once per recipient";
  `PublicationsReachMembers` allows the second one in the room only);
- a failed bootstrap is kept for the life of the process (`api/index.js:119`), although
  `getAuth` forgets a failed initialization so that it can be tried again
  (`better-auth.instance.ts:121`): its only caller before there is an instance is the hook
  of that bootstrap (`StartIsSound` says which starts fail);
- a login of a suspended user is refused after its session was created
  (`auth.service.ts:121`); the session stays, and the guard refuses it;
- edits and deletions over REST are not broadcast (`ViewsAreCurrent`), and the sockets of a
  removed member stay in the room (`realtime.gateway.ts:433`, `PublicationsReachMembers`);
- the directory drops its filter when provisioning fails
  (`communication-user.service.ts:133`, `DirectoryIsRegistered`), and provisions, although
  line 89 speaks of the registered users, no more than fifty of them a time (line 101);
- attempts are counted on the copy read before the claim
  (`verification-email.service.ts:124`, against `docs/auth-performance.md:17`); the row's
  own counter goes further, see `FailsAfterAllAttempts`;
- the read pointer may move back (`message-receipt.service.ts:541`); it stays at a message
  that is read (`ReadStateIsTrue`);
- a refreshed typing entry belongs to a tab that does not track it
  (`in-memory-typing.store.ts:60`), and a refresh is broadcast like a start
  (`realtime.gateway.ts:813`, against `test/phase-f.test.ts:769`);
- presence events of a quick reconnection may be reordered (`realtime.gateway.ts:189`,
  against `docs/realtime-messaging.md:11`; `RowIsTrue` says when);
- `createDirect` calls itself idempotent (`conversation.service.ts:46`) and two calls at
  once create two conversations (`ConnectedOnce` says when);
- "do not leave group with active members and zero admins" (`conversation.service.ts:450`)
  does not hold of two departures at once (`AdminRemains` says when);
- `rejectRequest` rejects an accepted request (`message-request.service.ts:321`).

## 4. Proofs

Every invariant and every action property that a passing run checks is a theorem. The
theorems are about `Spec` of their component (`ReadSpec` of ReadStates, `TypingSpec` of
Typing, `History!Spec` and so on of the parts of Conversations and Accounts), for every
value of the constants that satisfies the named assumptions of the module (`CallAssumption`
and so on: sentinels differ from the values they stand beside, functions have the domains
they are used with, limits are natural numbers, and the sockets of `Presence`, the calls of
`MessageReceipts`, the conversations of `ConversationList` and the users of `ProjectAccess`
are finitely many). Each
proof defines an invariant `Inv`, shows `Init => Inv` and `Inv /\ [Next]_vars => Inv'` with
one lemma per action or group of actions, and reads the theorems off. Every such invariant
was first checked by TLC on the instance of its run. Apart from those assumptions, and the
hypothesis that three theorems about calls (`~StoreYields`) and one about the queue
(`EnqueuedOnce`) state, nothing is taken on trust: every step is checked by TLAPS. Where a run checks a conjunction
(`OutcomesAreTrue`, `OutcomesLast`, `RowIsTrue`, `AcceptanceConnects`), the parts are
theorems too, and the theorem of the conjunction puts them together.

**CallSignalingProofs.** `RingingIsTimed` alone is not inductive: a timer handler removes
the timer before it has looked at the call. `Inv` adds that an id is unknown to everyone
until its `startCall` settles (`Fresh`), that a timer has at most one handler and that it
saw the call ringing (`TimeoutOnce`), that a call with a timer has not been reported missed
(`ArmedNotMissed`), and what the listener has emitted (`MessageCount`). This needs nothing
of the store and gives `TypeCorrect` and `RingingTimed` (timers and ringing calls go
together). With `StoreYields = FALSE`, `Serial` is inductive too: one handler is between
its read and its effect at a time (`OneAtATime`), so what it read is still so
(`ReadsAreCurrent`). That is the reason, and the only one, why `CallsDoNotCross`,
`AnsweredNotMissed` and the refinement `CallsAtomic` hold: nothing in the service
re-validates, so a store that is really asynchronous loses all three. The refinement maps
the last step of a handler to a step of the session and everything before it to a stutter.
It needs `Outcome` besides: the two users of an attempt differ, an operation is about a
call that was announced, and a call that is reported missed has ended.

**MessageSendProofs.** `LookupHolds` carries the argument: when a send is about to create,
no message of its key exists. It is kept because at most one send of a key is running
(`PendingIsRunning`, the map) and `Progress` says which phases have stored. From this
`StoredOnce`, `PendingInStep`, `DurableFirst`, and the refinement `SendIsIdempotent`:
`Create` is the abstract store, a settled promise is the abstract answer to the leader and
everyone who waits with it, every other step stutters.

**VerificationEmailProofs.** A lease number grows with each claim (`LeasesDiffer`), so a
delivery whose lease is the row's is its only holder; while its lease lasts the row is not
due and nobody claims it (`HolderUndisturbed`). `TaskKnows` and `ResendKnows` say what is
still true of what a delivery or a resend has read. Theorems: `DeliveriesExclude`,
`SentMeansMailed`, `CancelledMeansGone`, and the action properties `OutcomesStand` and
`RestartsAreEarned`, together `OutcomesTrue` and `OutcomesLasting`. `FailuresAreLast` is
about the attempts: the catch clause counts on a copy that may be older than the claim, so
`CopiesCount` says that no copy counts more attempts than its row, and fewer once it has
claimed it. That is an invariant only while no row is started over, hence the hypothesis
`EnqueuedOnce` of this one theorem (each request enqueues a code of its own, so none finds
a row to reset, `NoneResends`): after a resend a stale copy does give up before all
attempts are made.

**MessageReceiptsProofs.** `StageKnows` says what the stage of each message tells of its
receipt, `TargetKnown` why the message the pointer moves to is read or about to be,
`ClockCounts` that each call took one time. Theorems: `ReceiptsSane`, `PointerRead`,
`AnsweredDone`, and `StampsKept` (receipts only grow). `ReadStateTrue` extends the
invariant by what the reader has (`ViewKnows`): what he took for read when he asked has a
receipt with a time of reading, and stays so (`StampsKept`); messages that were stored stay
stored (`StoredGrows`). So a count that is answered later leaves all of that out, and what
becomes read after the count was taken only shrinks what it must contain. Steps of the
calls keep the view (`CallsKeepViews`), those of the reader keep `Inv` (`AskKeepsViews`,
`AnswersKeepViews`).

**ConversationProofs, typing.** Timers, entries and what others were shown move together in
every step; the invariant adds only that a waiting event knows its socket (`EventsKnow`).
Theorems: `TimersMatch`, `ShownInStep`, `EndsCaused`.

**ConversationProofs, presence.** For a user who is not blurred (`Sound`) at most one
transition is under way, and row and broadcast follow it in order (`ArrivalSound`,
`DepartureSound`, `RestSound`). Theorems: `StoreActual`, `TruthUnlessBlurred`,
`LastSeenFinal`, together `RowTrue`. The last one counts departures (`ClockCounts`), hence
the finite set of sockets.

**ConversationProofs, rooms.** A socket is in the room because a member asked and was
answered, perhaps before he was removed: `RoomEntitled` carries that from the request
through the lookup into the room. `PublicationSound` says that a publication knows those
who have been members since it began and has told nobody yet, or is a missed call about to
be told again. Theorem: `PublicationsReach`.

**ConversationProofs, history.** `DeletedKnown`: a call that will write a row that is
deleted by then counts among the races (theorem `DeletionStood`). `EventsCurrent` and
`ScreensCurrent`: an event on its way shows the row as it is, or the message is astray
(`ViewsCurrent`, whose half about previews follows from what a page is). `WalkSound`: what
a walk holds lies in order behind its cursor, and what it lacks is older than the cursor.
That a page extends such a walk (`PageSound`) is where the order matters: `Newer` is strict
and total because ids differ, messages that commit late have a time and an id like all
others, and `SortedSorts` turns the counted places into the order of the page. Theorem:
`WalkComplete`.

**ConversationProofs, list.** `UnseenAhead`: as long as nothing slipped, a conversation
that was not touched, not seen, and not torn has at least as many others of a later date
(`Later`) as the pages that were read can hold - updates only move others to the front. It
is kept although equal dates have no order: a page that leaves such a conversation out
ended before the last of its date (`UnseenAfter`), so either before the first of them, or
in their midst, and then it is torn (`OnPage`). So when the arithmetic of the count says that no page is left
(`MorePages`), none of these is left either. Theorem: `UntouchedSeen`.

**AccountProofs, codes.** `AtMostOneUnused` needs to know who is between the invalidation
and the creation of a code (`CreatorsAlone`: nobody else's code of that type is unused,
unless creations crossed), and `OneHolder` who has found a code and not used it up.
`RequestIsRunning` and `NothingToReuse` are about the shared request: it is the one call of
its kind on the way, and it makes a code only when there was none to reuse, which is why a
resend spares a code that a mail carries (`ResendKeeps`). `SessionsHaveAccount` adds what
`SessionsKnowPassword` lacks. Theorems: `CodesSingle`, `SessionsKnowTheirPassword`,
`ResendKeeps`.

**AccountProofs, access, projects, starts, mails, pings.** Each part is an invariant of one
request, process or mail, and a lemma that a step of one leaves those of the others
(`RequestStepKeeps`, `CallStepKeeps`, `BootStepKeeps`, `MailStepKeeps`). What they say: a
request collects what the user is while it runs, and an ended session is not opened again
(`AskedOrPassed`, `ChangeWhole`: `SuspensionsBite`, `AnsweredChangesWhole`); whoever came
with what was revoked still waits for the lookup, and that will refuse him (`BarredWait`:
`RevokedAreRefused`); a directory has found registered users, and its upserts made rows of
them, which are among the matching ones from then on (`Discovered`, `MatchingHolds`), so
that neither of its two queries, whichever is first, can miss them but for the limit of a
page (`Answered`, `CountKeeps`, `FindRowsKeeps`: `DirectoriesRegistered`); a process past a hook has what the hook makes
and creates the default project only if that was not there when it began (`Bootstrapped`:
`StartsAreSound`); what the server took, by where the delivery stands, and what the caller
makes of it (`DeliveryTrue`, `CallerTrue`: `MailsAnsweredTruly`). For the keep-alive,
`Timers` says that an enabled service has one timer armed and `Quiet` bounds the silence by
the intervals of the pings that failed, whatever number was configured
(`ServiceStaysAwake`).

**MessageRequestsProofs.** Between the look for a conversation and its creation the two
users have none and no other call is there, unless they raced (`Connects`); past the look
at the reverse way that way is not pending, unless the sends crossed (`Crosses`). Theorems:
`ConnectedUnlessRaced`, `MutualUnlessCrossed`, `AcceptedConnected`, `AnsweredConnected`.

**GroupMembershipProofs.** A departure that is about to delete its row leaves an admin or
nobody (`DeparturesAreSafe`), until the copy of some departure is stale; ids of rows only
grow (`IdsGrow`), so a row that is gone does not return (`Gone`). Theorems:
`AdminRemainsUnlessStale`, `DepartureIsDone`.

## 5. Only model-checked

- The liveness properties `RingingEnds`, `ReceiverStopsRinging`, `SendsSettle`,
  `DeliverySettles`, `IndicatorEnds`, `ArrivalIsTold`: fairness is defined with ENABLED,
  which the prover cannot handle.
- That `AnsweredIsBroadcast` fails: a counterexample is found by exploration.

## 6. Not modelled, and why

Call tokens, LiveKit and its webhooks, Cloudinary: a check of membership and a call of an
outside service, with no state that another part reads. Configuration, filters,
interceptors, logging, the generated Prisma client, scripts and `.bak` files: no state of
their own. How passwords are hashed and cookies signed is better-auth's; what an SMTP
server does with a mail it accepted, media, rendering and the clients are outside the
server. So is Better Auth's own router, to which every other path under `auth` falls
through (`auth.controller.ts:178-189`: OAuth callbacks, session internals, its own change
of a password, ...): what it does to passwords and sessions is not among the calls of
OneTimeCodes and AccountAccess, and `SessionsKnowPassword` says nothing about it.

Of the modelled parts these operations are left out: the profile of a user and the lists of
users, projects, requests, receipts and audit records (single queries); `getPresence` and
`getConversationPresence` (reads of what Presence has); the four relays of request notices
in the gateway (nothing is checked or kept); `verifyOtp` and `cleanupExpired` (nobody calls
them); `clearAllTimeouts` (the shutdown of the process, which ends the calls with it, and
tests).

Within the modelled parts, these are abstracted: message bodies, attachments and metadata
(nothing decides by them); projects (every query is confined to one, but for the slugs of
Startup); tokens are valid or not; the shape and wording of responses. Outside
ProjectAccess and AccountAccess a socket or a request is an authenticated one. Deleted
messages are left out of MessageReceipts, whose counts exclude them. Times are compared,
never measured, but in KeepAlive: a timeout may fire at any moment at which it is armed, a
clock is a counter or a flag that says that the time has come.

Three abstractions limit what is shown. With `StoreYields` a call's creation and the arming
of its timer are still one step, and so are the clearing of a timer and the update of the
call: `call_live` interleaves handlers around these pairs, not within them. MailTransport
takes a mail whose connection closed before the server took it for refused: a pool that
sends it again on another connection is not modelled. `RevokedIsRefused` is about requests
and handshakes; the events of a socket that is already connected look nothing up, and are
not covered.

## 7. Plan

Order of the work so far: calls, sends and the email queue first, because they have the
most actors and the most failures; then receipts, typing, presence, requests, groups and
codes; then what surrounds them: history, lists, rooms, read states, access, projects,
start, mail, keep-alive; then the proofs of all safety properties. What is left, most
important first:

1. *Composition*: `OneTimeCodes` with `VerificationEmail`, in which `CodeGone` is the
   verification of a code and `Enqueue` the end of a resend; the missed-call listener as a
   send of `MessageSend`; the membership check of a send, a typing event or a receipt
   against a removal in `GroupMembership` between the check and the write.
2. *Towards liveness*: the safety halves of the liveness properties, as theorems: an
   unsettled send, delivery or indicator always has a step or a timer that will move it (as
   `RingingTimed` and `TimersMatch` say of calls and typing).
