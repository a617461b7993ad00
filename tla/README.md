# Konnect back end: specifications

TLA+ specifications of konnect-back, a NestJS service with which mentees book
and pay for mentoring sessions, mentors keep a calendar and write articles, and
both meet in a chat room and a video call. Paths below are relative to the
repository's `src/` directory (`payment/payment.service.ts` is
`src/src/payment/payment.service.ts`).

The service is one Node process over MySQL (TypeORM), MongoDB (chat), Redis,
Socket.IO, Firebase and the Toss payment API. JavaScript runs a handler alone
between two `await`s, so what can go wrong is what happens *at* the awaits: two
requests pass the same check, an entity read before an await is saved over what
others wrote, Toss has moved the money and the transaction that would say so
rolls back, a socket closes while its handler waits for the database. The models
are cut at the awaits that matter and let everything else happen there.

## 1. Inventory

| Part | State | Operations | What is hard | What makes it correct |
|---|---|---|---|---|
| Reservations (`reservation/`) | `mentoring_reservation` | `createReservation`, `getAvailableTimes` | unlocked duplicate check, stale pages, interval arithmetic | no slot twice; what is offered is free, and all that is free is offered |
| Payments (`payment/`) | `payment`, one row per reservation; Toss's payments | `confirmPayment`, `refundPayment`, `cancelAndRefund` | double submit, lost answers, rollback after the charge, FAILED rows that occupy the unique row | the books never contradict Toss, every charge leaves a trace |
| Mentor's rejection (`schedule/schedule.service.ts` 284-364) | the same rows | cancel at Toss, then record | error or restart between the two | cancelled means paid back |
| Booking's chat room (`listener/chat.listener.ts`, `chat/`) | MongoDB `chatrooms`, `reservation.roomId` | `payment.confirmed` listener, `createRoom` | stale save over a rejection, lost event | one room, only if paid, and eventually |
| Chat history (`chat/`) | MongoDB messages | `sendMessage`, `getRoomMessages` | sorted by time, continued from an id, while messages arrive | nothing missing, nothing twice |
| Cron tasks (`scheduler/`) | the same rows as Payments | expire, complete, progress | select, then write one by one while requests run | no step back to PENDING; neither PENDING nor CONFIRMED for ever |
| Withdrawal, override (`users/`, `admin/`) | `users`, the same rows | `deleteAccount`, the administrator's status change | races a payment; saves a stale row | as above |
| Calendar (`schedule/`, `mentoring/`) | `mentoring_schedules`, `mentoring_sessions` | row and session edits | edited while mentees hold old pages; cascades | as for reservations |
| Chat gateway (`realtime/chat/`) | Maps `users`, `rooms`, `messages`; Socket.IO rooms | join, leave, disconnect, messages | the awaited authentication, second tabs, late disconnects | the Maps agree, members see the conversation and each other |
| WebRTC gateway (`realtime/webrtc/`) | Maps `users`, `rooms` | join, leave, ready, relay | order of events, room changes | peers know who is there and ready |
| Accounts (`auth/`, `users/`, `mentors/`, `admin/`) | `users`, `mentors`, `social_accounts`, role in the token | join, social login, edits, application, approval, suspension, withdrawal | entities loaded, then saved over each other; an unawaited save; withdrawn rows the checks do not see | decisions stand; sessions only by mentors who were accepted |
| E-mail codes (`auth/`, `redis/`) | one Redis key per address | `sendEmailVerification`, `verifyCode` | resend, expiry, failed mail, late deletion | a code proves the mailbox; the last one mailed works |
| Articles, likes (`article/`) | `articles`, `likes`; Redis view marks | views, edits, deletion, like toggle | a view saves the whole article it read | no view too many; a reader's last toggle holds |
| Comments, notifications (`article/`, `notification/`) | `comments`, `notifications` | write, reply, edit, delete; mark, dismiss | rollback between comment and notice; deleted threads; edits saved after the answer | a comment tells the article's author and nobody else, once |
| Push tokens (`notification/`) | `user_fcm_tokens` | `updateFcmToken`, `removeToken`, `sendFcm` | check, delete, insert apart; pushes with old rows | one user per browser |
| Paged lists (`admin/`, `session/`, `article/`, `payment/`, `mentoring/`, ...) | none of their own | 17 lists | rows come, go and move between pages, and between the queries of one page | what was there is shown, up to what left or moved |
| Connection pool (`app.module.ts` 64-68) | 5 MySQL connections | each query and transaction | transactions that ask for a second connection | nobody waits for ever |
| Reviews (`review/`) | `reviews`, always empty | every `createReview` rolls back at 94 | - | - |
| Socket adapter, guards, DTOs, entities, seeds, mail texts, old `chat/chat.gateway.ts` | none of their own | wiring | none here | - |

How they interact: the handlers and the cron tasks share MySQL rows and hold no
locks; `confirmPayment` emits `payment.confirmed` after its commit, the listener
creates the room and emits `room.created`, which sends mail; refunds and
rejections call Toss over HTTP in the middle of their work; deletions cascade by
foreign key; comments, likes and decisions call the notification service, which
calls Firebase. The realtime gateways keep their own memory and only read users
from the database. Everything takes its connections from one pool.
`PROJECT.json` lists the components with their status, and every hazard at its
line with the properties aimed at it.

## 2. Modules

```
BookingState ─┬─ Reservations ┐
              ├─ Payments ── Rejections            Ledger (abstract)
              ├─ Rooms        ├── Booking ──────── L == INSTANCE Ledger
              ├─ Crons        │      ├─ MCBooking
              └─ Accounts     ┘      └─ BookingProofs ─ BookingSafety ─ BookingLedger

Intervals ── Calendar ─┬─ MCCalendar
                       └─ CalendarProofs

SocketRooms ─┬─ ChatGateway   ┐
             └─ WebRTCGateway ┴─ Realtime ─┬─ MCRealtime
                                           └─ RealtimeProofs

Members ─┬─ Identity                     ┐
         ├─ Inbox ── Articles ── Comments│
         └─ Devices                      ├─ Site ─┬─ MCSite
EmailCodes   ChatHistory   Lists   Pool  ┘        ├─ IdentityProofs ┬─ SiteProofs
                                                  └─ ArticleProofs ─┘
```

### Booking

`BookingState` declares the shared state: `status` and `roomId` of each
reservation, its `payment` row, the `rooms` that name it, what `toss` did with
the money of each payment key, accounts `gone` or `leaving`, time as
`lapsed` (has `expiresAt` passed?) and `phase` (before, around, after the
session), one `call` record per request in flight and one `job` set per cron
task. A call remembers where it waits (`pc`) and the `snap`shot of the entity it
loaded, because a later `save(entity)` writes those columns back.

| Module | Code | Actions |
|---|---|---|
| `Reservations` | `createReservation` | `CreateCheck`, `CreateInsert`, `CreateFails` |
| `Payments` | `confirmPayment`, `refundPayment`, `cancelAndRefund` | `ConfirmCheck`/`ConfirmMispriced`, `ConfirmApprove`/`Refused`, `ConfirmRecord`/`Rollback`, `ConfirmLog`/`LogFails`, `Refund*` |
| `Rejections` | `ScheduleService` 284-364 | `RejectCheck`, `RejectCancel`/`CancelFails`, `RejectSettle`/`Rollback` |
| `Rooms` | `ChatListener.handleRoomCreation`, `createRoom` | `ListenerLoad`, opening and attaching the room, `RoomFails` |
| `Crons` | `SchedulerService` | a select and one write at a time per task, `Lapse`, `Pass` |
| `Accounts` | `deleteAccount`, the administrator's status change | `Withdraw*`, `Override*` |
| `Booking` | the composition | `Next`, `Restart`, fairness, all properties |
| `Ledger` | what the payment side promises | `Charge`, `PayBack`, `EnterSuccess`, `EnterFailure`, `EnterRefund` |

`CONSTANT Handlers` says which optional handlers an instance has, `Faults` what
the environment may do: `network` (Toss acts and the answer is lost), `decline`,
`database` (a statement or commit fails), `reprice` (the price differs from the
one paid), `crash` (restart). Toss itself is external: a key is `ready`, `done`
or `canceled`, one order is charged once, a cancelled key is not charged again.

### Calendar

`Intervals` holds the arithmetic of `getAvailableTimes` (`subtractIntervals`,
the slot loop) over sets of `[start, end]`. `Calendar` is one mentor on one
date: rows, sessions, reservations and mentees who ask, pick and book. Rows may
be anything the form sends, including one that ends before it starts. A
reservation's status is absent on purpose: neither the availability nor the
duplicate check reads it. `Ask` joins the handler's reads into one step and the
mentee's choice with it: a page is only ever used through the one time picked
from it. `UpdateSchedule` sets the rows to what the body describes;
`createSchedule` of several rows is several steps. `AskForever` is the loop that
never ends when `updateSession` stored a duration of zero or less.

### Realtime

`SocketRooms` has JavaScript's Map and Socket.IO's rooms; `ChatGateway` and
`WebRTCGateway` one action per handler, `Realtime` both side by side and the
properties. The chat handlers that authenticate run in two steps, `Receive`
(the event arrives and the database is asked) and the settled rest; anything can
happen in between, the socket's own disconnection included. `page` and `tile` are
what a client displays from the events it was sent, which is how the protocol is
judged. `media` is what it holds of the others through the events that are only
passed on: signals (offers, answers, candidates: a connection), shared screens
and tracks switched off; `user_left` ends all three, joining starts from none. A
signal goes to the first socket of the addressee that the Map lists in the room;
the model lets it be any.

### Site

`Members` is the rows of `users` and `mentors`, one record per account, with
what TypeORM makes of `save(entity)`: it selects the row again and then writes
the columns of the entity that differ from that select. `Saved(now, row, base)`
is that rule; handlers that load, change and save (`EditAccount`,
`SuspendAccount`, `EditMentor`; article views and edits) are therefore three
steps, load, `Select` and `Update`, and a column somebody wrote before the select
is put back while one written after it is kept. In a transaction the database
(MySQL, REPEATABLE READ) shows the select what the handler loaded, so load and
select are one step (`Begin`) and the write another (`Commit`).

| Module | Code | State | Actions |
|---|---|---|---|
| `Identity` | `auth.service.ts`, `users.service.ts` 35-304, `mentors.service.ts`, `admin.service.ts` 176-265 and 528-551, `createSession` | `account`, `social`, `mentorToken`, `published`, one `req` per client | `JoinCheck`/`JoinSave`/`JoinCrash` (the unawaited save kills the process), `SocialFind`/`Create`/`Link`, edits, `Apply`, `ApproveMentor`, `DeleteAccount`, `Login`, `CreateSession`, `Restart` |
| `EmailCodes` | `auth.service.ts` 155-168, `redis.service.ts` | `mailbox`, `stored`, one `ask` per request | `SendCode`, `Mail`, `SaveEmailCode`, `VerifyCode`, `DeleteEmailCode`, `ExpireCode`, `AskFails` |
| `Articles` | `article.service.ts` 125-308 | `article`, `likes` (a like may be detached), Redis `marks`, one `act` per user | `ReadArticle`, `CountView`, `SelectArticle`, `SaveArticle`, `MarkViewed`; `UpdateArticle`, `DeleteArticle`; `FindLike`, `StoreLike`, `RemoveLike`, `TellLike`; `ExpireMark`, `Fails` |
| `Comments` | `article.service.ts` 333-354, 400-467 | `comments`, `edits` not saved yet | `BeginComment`/`CommitComment` (one transaction with the notification), `UpdateComment` (answers at once) and `SaveComment`, for which nobody waits, `DeleteComment`, the article's `Cascade` |
| `Inbox` | `notification.service.ts` 29-47, 111-191, 279-300 | `inbox` | `Notify`, `MarkAsRead`, `MarkAllAsRead`, `DeleteNotification`, `DeleteAll` |
| `Devices` | `notification.service.ts` 48-86, 214-277 | `tokens`, one registration per browser, rows of each running `push` | `Register`, `LookOther`, `DeleteOther`, `InsertToken`, `Refuse`, `RemoveToken`, `StartPush`, `Push`, `DropToken`, `Unsubscribe` |
| `ChatHistory` | `chat.service.ts` 85-213 | messages with an id and a time, the reader's cursor | `SendMessage` (made) and `StoreMessage` (kept), `OpenRoom`, `FullPage`, `LastPage` |
| `Lists` | 17 paged lists of the services | one table, the reader's page and the ids it has of the next | `CreateRow`, `ChangeRow`, `CloseOwner`, `DeleteRow`; `ReadIds`, `ReadRows` and `CountRows` (three queries; without joins the first two are one), `OpenList`, `LeaveList` |
| `Pool` | `app.module.ts` 64-68 and who calls what inside a transaction | `lent`, `queued`, `handler`, `outside` | `StartHandler`, `CallOutside`, `CallEnds`, `EndHandler` |
| `Site` | the composition | - | `People`, `SignUps`, `Posts`, `Browse`, `Chats`, `Pages`, `Queries` |

Variables commented *history* (`accepted`, `withdrawn`, `raced`, `expected`,
`overlapped`, `counted`, `liked`, `shaken`, `owner`, the reader's `start`, `moved` and `torn`) are read by no guard:
they remember what was answered or decided, so that a property can ask whether it
still holds. `raced`, `overlapped` and `shaken` mark the accounts, addresses and
articles on which requests did overlap in a way the code does not survive, and
the properties say what remains true of all others. Ids of rows are never reused
(`used`, `nextToken`, `sent`, `created`). Firebase, the mail server and Redis's
clock are external: a token is `live` or not, a mail arrives or its handler
fails, a key may expire.

In `Lists`, each list is an operator: which rows its `WHERE` keeps and for which
its answer throws (the name of a closed account, which the join leaves out). A
behaviour chooses one list, filter and order and then turns the pages while rows
are made, changed, moved, deleted or lose their owner. A row has a `place` in the
order: by `createdAt` it keeps it; by a field (the one an administrator names,
session.service.ts 89-107, article.service.ts 69-85) it may be given any other.
`Cut` is what `skip` and `take` may return: if places are equal, any order the
database may choose (`Prefixes`). A list that joins tables is read as TypeORM
0.3 does: `ReadIds` asks for the distinct ids of the page, `ReadRows` for the
rows with these ids under the same `WHERE`, and `getManyAndCount` asks for the
count only where the rows do not give it away (`Counted`). TypeORM adds the id to
the order of the first of them, so equal places are open only in the three lists
without joins (`Unjoined`, `Untied`). A page whose ids filled it but whose rows
no longer do is taken for the last one: the reader's `torn` remembers that.

## 3. Runs

`Booking_*.cfg` instantiate `MCBooking`, `Calendar_offers.cfg` `MCCalendar`,
`Realtime_*.cfg` `MCRealtime`, `Site_parts.cfg` `MCSite`. `CHECK_DEADLOCK FALSE`
everywhere: a finite set of reservations, sockets, requests or rows ends with
nothing left to do. The pool's deadlock is a property, `SomeoneReturns`.

| Run | Instance | Shows |
|---|---|---|
| `booking_core` | 1 reservation, 2 checkouts, 2 requests, every fault, all handlers but override and withdrawal | types, `BooksMatchToss`, `OneRoom`, `RoomIsPaidFor`, `HeldIsPaid`, `CancelledIsPaidBack`, `NeverPendingAgain`, refinement of `Ledger` |
| `booking_accounts` | the same with override, withdrawal, rejection, completion; lost answers, declined cards, database errors | `RoomIsPaidFor`, `NeverPendingAgain` |
| `booking_live` | under `FairSpec`: lost answers, declined cards; expiry, completion, progress, withdrawal; no crash and no database error | `ChargeLeavesRow`, `PaidGetsRoom`, `PendingEnds`, `ConfirmedEnds` |
| `calendar_offers` | 2 rows, 2 sessions, 2 mentees, 2 reservations, five minutes | `SlotsAreFree`, `SlotsAreAll`, `SameSessionDisjoint` |
| `realtime_rooms` | 2 users, 3 sockets per gateway, 2 rooms, 1 message kept, 2 events waiting | `MapsAgree`, `OneSocketPerUser`, `SeesConversation`, `RosterComplete`, `PeersKnown`, `MediaOfPeers`, `ConversationGrows` |
| `site_parts` | accounts, codes, likes, threads, push tokens, histories, lists, pool, one part at a time | the twelve properties below |

What `site_parts` checks, part by part:

| Part | Instance | Property |
|---|---|---|
| people | Ann (applied as a mentor), Bob (came by a social login), one more account to be made; 3 addresses, 2 nicknames, 2 requests at once, 3 in all | `SessionsByAccepted`: only who was accepted publishes, whatever is loaded early and saved late. `DecisionsStand`: on an account no two requests raced about, a withdrawal and an approval last |
| codes | 2 addresses, 2 codes, 2 requests at once, 4 in all | `VerifiedWasMailed`, `LastCodeOpens` |
| likes, threads | 1 article, 2 likes, 2 comments, Ann who writes and two readers, 4 requests, 1 lost or expired mark per reader; Ann may withdraw her account | `ViewsNotInflated`, `LikeStands`, `CommentsAreTold` |
| devices | 2 browsers, 2 rows ever inserted, 1 running push; Ann may withdraw | `OneUserPerBrowser` |
| chats | 4 messages, pages of 2 | `HistoryComplete` |
| pages | each list, filter and order; 4 rows and 4 places, pages of 2, 2 changes | `PagesMissAtMost` |
| pool | 2 connections, 3 requests, every handler | `SomeoneReturns` |

Six runs are counterexamples: each checks one statement a comment, a message or
the README makes and the code does not keep.

| Run | Statement | What happens |
|---|---|---|
| `booking_doubleclick` | `ChargeIsBooked` ("prevents duplicate payments", payment.service.ts 39) | the refused second confirmation saves FAILED into the only payment row; the charged first one cannot save SUCCESS |
| `booking_refund` | `RefundIsBooked` ("refunded and cancelled", 296) | after Toss paid back, line 285 reads a relation that was not loaded; everything rolls back |
| `booking_expiry` | `PaidIsNotExpired` (README 36) | paid between the expiry task's select and its update |
| `booking_reject` | `RejectionStands` (schedule.service.ts 363) | the listener saves the CONFIRMED it read before the rejection |
| `booking_slot` | `OneBookingPerSlot` (reservation.service.ts 179) | two requests pass the check, both insert |
| `realtime_ghost` | `RoomForgotten` (chat.gateway.ts 84) | the socket closes during the await; the handler tracks it afterwards, for good |

Each property of a passing run has, under "mutants" in `PROJECT.json`, a change
of a mapped definition that breaks it. The mutated forms are beside their
originals in the modules, with a comment that starts *Mutant of*.

**Bounds and why they are enough.** Reservations influence each other only
through the duplicate check, so one reservation shows every interleaving on its
rows and two (`booking_slot`) the check. Two requests are the race, a second
checkout of one order makes a payment key differ from the row's, and a request
that ends frees its slot, so histories are not bounded by two. Requests and
checkouts are symmetric. In `Calendar`, two reservations cut a range into three,
which is every case of the subtraction, and five minutes fit an exact fit, a
remainder, a touching pair and an overlap; `MaxBookings` bounds the
reservations, and `OnePage` keeps one open page once the calendar has left one
grid (there only sets of reservations matter, and one mentee makes them all).
In `Realtime`, two sockets of one user are a second tab or a reconnection, the
other user's is the one who watches; two rooms are a room change;
`MaxMessages` and `MaxEvents` bound what is kept and waiting at once, not how
often it happens, since rooms empty and events settle. `OneGateway` runs one
gateway at a time, which loses nothing as they share no variable; `OneMedium`
keeps one kind of `media` of the user with a single socket at a time, since no
handler reads any and `MediaOfPeers` is about such users, one by one.

In `Site`, the parts share `account` and nothing else, so `MCSite` runs one at a
time (`part`), with the withdrawal of an account beside the three that look
accounts up; `Halves` keeps likes and threads, which share the articles, apart as
well. The bounds there count what ever begins: `MaxRequests` (three requests are
a decision, what was loaded before it and what comes after), `MaxAsks` (two
sends, a guess and the verification), `MaxActs` (an article, a toggle, a view
and a second toggle), `MaxExpiries`, `MaxTokens` (a row and the one that
replaces it), `MaxSent` and `Limit` (a full page, a last page and an arrival),
`MaxRows`, `PageSize`, `MaxChanges` and `MaxPlaces` (two full pages, so that a
row that leaves between the ids and the rows of the first tears it while rows are
behind; one row of each page that leaves or moves, to any place among four).
`Fewer` keeps these lists small: rows made and changes are five at most, four
where the order is by a field, which is taken in two lists only, one joined and
one not, since the others have the same queries; a fourth row is made in five
lists of different kinds, the newest first. Both ways of missing more that the
property sets aside happen within these bounds: without `~torn` or without
`Untied` TLC finds it violated. Two connections are enough for a waiting
transaction beside a holder; the pool has five in the program and any number in
the proof. Requests of `Identity` are symmetric, and so are browsers; users are
not, and Ann and Bob play different parts.

**Fairness** (`FairSpec`): weak fairness of `Resume(q)`, the settled
continuation of each request, because the event loop runs every callback whose
await has settled and HTTP calls and queries end in an answer or an error; of
each of the three cron tasks, because cron fires for ever; of `Lapse` and `Pass`,
because time does. Nothing obliges a client to send a request. Under `database`
or `crash` faults `PaidGetsRoom` is not claimed: nothing in the code retries.
`ConfirmedEnds` claims only that CONFIRMED is left: what the progress task turned
to PROGRESS is selected by no task afterwards (scheduler.service.ts 73, 93) and
may stay there. Neither the realtime nor the site part claims liveness: nothing
in them is retried or runs by itself, and every wait ends with the client's next
event or is the pool's.

## 4. Proofs

TLAPS proves the following for every value of the constants that satisfies the
assumptions beside their declarations: any sets of reservations, keys, users,
requests, sockets, rooms, addresses, browsers, messages and connections, every
assignment of orders, owners and slots, every `Handlers` and `Faults`. The bounds
of the runs (`MaxRequests`, `MaxSent`, ...) are arbitrary numbers in the proofs.

| Module | Theorem | Statement |
|---|---|---|
| `BookingProofs` | `TypeCorrect` | `Spec => []TypeOK` |
| `BookingSafety` | `NeverPending` | `Spec => NeverPendingAgain` |
| | `BooksAgree` | `Spec => []BooksMatchToss` |
| | `AtMostOneRoom` | `Spec => []OneRoom` |
| | `RoomsArePaidFor` | `Spec => []RoomIsPaidFor` |
| | `HeldOnlyIfPaid` | `Spec => []HeldIsPaid`, without the override |
| | `CancelledOnlyIfPaidBack` | `Spec => []CancelledIsPaidBack`, without the override |
| `BookingLedger` | `LedgerImplemented` | `Spec => ImplementsLedger` |
| | `ChargeTraced` | `Spec => []ChargeLeavesRow`, if neither crash nor database errors |
| `CalendarProofs` | `CalendarTypeCorrect` | `Spec => []TypeOK` |
| | `ShownSlotsAreFree` | `Spec => []SlotsAreFree` |
| | `FreeSlotsAreShown` | `Spec => []SlotsAreAll` |
| | `ReservationsDisjoint` | `Spec => []SameSessionDisjoint` |
| `RealtimeProofs` | `RealtimeTypes` | `Spec => []TypeOK` |
| | `MapsAlwaysAgree` | `Spec => []MapsAgree` |
| | `OneSocketStays` | `Spec => []OneSocketPerUser` |
| | `ConversationIsSeen` | `Spec => []SeesConversation` |
| | `RosterIsComplete` | `Spec => []RosterComplete` |
| | `PeersStayKnown` | `Spec => []PeersKnown` |
| | `MediaIsOfPeers` | `Spec => []MediaOfPeers` |
| | `ConversationOnlyGrows` | `Spec => ConversationGrows` |
| `SiteProofs` | `CodesWereMailed` | `Spec => []VerifiedWasMailed` |
| | `LastCodeStaysUsable` | `Spec => []LastCodeOpens` |
| | `BrowserHasOneUser` | `Spec => []OneUserPerBrowser` |
| | `CommentsReachAuthors` | `Spec => []CommentsAreTold` |
| | `HistoryIsShown` | `Spec => []HistoryComplete` |
| | `PoolServes` | `Spec => []SomeoneReturns` |
| | `PagesMissFew` | `Spec => []PagesMissAtMost` |
| | `SiteTypeCorrect` | `Spec => []TypeOK` |
| `IdentityProofs` | `SessionsAreAccepted` | `Spec => []SessionsByAccepted` |
| | `DecisionsStay` | `Spec => []DecisionsStand` |
| `ArticleProofs` | `ViewsAreDue` | `Spec => []ViewsNotInflated` |
| | `LikesAreToggled` | `Spec => []LikeStands` |

Every invariant and every action property a passing run checks is stated by one
of these; only the three liveness properties are not.

### Booking

`TypeOK` is inductive. None of the others is, because a handler's next write
depends on what it remembers from before its await; the strengthening says what
such memories are worth:

- `RowInv`: a call past its checks is about a row that exists, two inserts never
  share an id, a paid reservation is past PENDING, and a listener about to save
  its snapshot holds one that is. Hence no save brings PENDING back.
- `MoneyInv`: the key a call carries belongs to the order it is about, Toss's
  answers only grow (`ready`, `done`, `canceled`), and the row a rejection read
  still is the row of its key. Hence `BooksMatchToss`.
- `ChargeInv`: Toss charges an order once. With `MoneyInv` it gives the
  refinement: `toss` is read per order as `money`, the payment rows as `book`,
  and each step is one ledger step or none (`NextMoves`, then `MoneyMoves` and
  `BookMoves`).
- `RoomInv`: between the event and the room at most one listener per reservation
  is under way and there is no room yet; a remembered `roomId` is of a room that
  exists. Hence one room, and a paid one. This rests on the unique payment row,
  which lets the event be emitted once per reservation, not on the listener.
- `OutcomeInv`: what cron tasks and listeners hold was paid
  when they read it, and payment rows never go back to `none` or from
  `refunded`; the override is the one writer that asks for neither.

Each `...Step` lemma has one step per handler, and under it one per action.

### Calendar

`CalendarInv` is the types with what a mentee's page may hold. It is the
arithmetic that has to be argued, in three stages.

- The fold. `subtractIntervals` applies the reservations one after the other, a
  recursive function on sets of cuts. That such a function exists needs an
  induction on the size of a finite set; the library's induction theorems take an
  operator as parameter, which the provers cannot instantiate, but its theorem
  that every non-empty set of naturals has a least member is first order, and a
  smallest set of cuts without a solution is as good (`LeastNatural`,
  `SolvedUpTo`, `CutsSolved`). `SegmentsAreRuns` argues in the same way.
- The meaning. Cut by cut, the segments are exactly the unbroken runs of free
  minutes of each row (`CutOnce`, `SegmentsAreRuns`). Hence a slot is free and in
  a row, and whatever is free and on the run's grid is shown (`OfferedIsFree`,
  `FreeIsOffered`).
- The grid. As long as rows and durations keep one grid, every reservation and
  every time some mentee still holds from an old page begins and ends on it
  (`GridInv`), and two times of one length on one grid are equal or disjoint.
  Only then is comparing exact times enough.

Here the proof found a mistake of the specification that TLC had not: `RunStart`,
which says where the run of free minutes that holds a minute begins, first named
any free minute below it before which the row is taken. For a minute behind a
reservation that leaves a free stretch on both sides that is not one minute but
two, and `CHOOSE` was free to take the wrong one; in the instance it happened to
take the right one. It now asks for the run to reach the minute unbroken.

### Realtime

`IInv` is the conjunction of four parts, each kept by the steps of its gateway.
`ChatInv` joins the chat properties, which hold each other up, to `Listening`:
who is tracked and connected is in the Socket.IO room it is tracked in, without
which a broadcast would miss a member and neither the conversation nor the
roster would agree. `Fresh` says that a socket that has not connected yet is
neither tracked nor waiting, so what a new page displays starts from nothing.
`CallInv` does the same for calls, with `Reachable`; there no await separates
the check from the tracking, so every tracked socket is connected, which for the
chat is false (`realtime_ghost`). `UntrackKeeps` and `HangupKeeps` say what
striking a socket from a room preserves, whether it left or was disconnected.
`MediaInv` adds that a user with one socket is on its own list (`SelfShown`): a
shared screen comes back to who shares it. Its steps are of two kinds, those that
change lists and what is held together (`MediaFollows`) and those that pass
something on from a user whom, by `PeersKnown`, every receiver already displays
(`MediaPassedOn`).
`ConversationOnlyGrows` follows from `ChatExtends`, step by step.

### Site

- `CodesInv`: what Redis holds, will hold or is being compared was mailed
  (`CodesMailed`); of an address that was never overlapped there is one request
  at a time, and a deletion finds the code it verified or none (`OneByOne`).
- `DevicesInv`: ids are given once and a push still knows its rows by them
  (`IdsStand`), so a deletion by id cannot take a newer row; between two
  statements of a registration no other gives the browser a row
  (`NoRowMeanwhile`); what the browser was last told is true while Firebase knows
  its token (`ToldTrue`).
- `CommentsInv`: whatever names an author of an article, its row, a view or an
  edit in flight that will save it or a comment being written, names one person
  or nobody (`Says`, `Agree`), and a comment that is no reply has told that
  person; a notification sent apart is about a like (`TellsLikes`). Every save
  writes an author that was named before (`SaysLess`), so neither a stale row nor
  an article inserted again brings another author in; ids given before are not
  given again (`GivenIds`).
- `HistoryInv`: times follow ids (`TimesFollowIds`), hence of messages with times
  of their own the newest page by time is the one just below the cursor by id.
- `AccountsInv` (`IdentityProofs`): a row some request loaded and may still save
  carries the mentor's role only if its account was accepted before
  (`RequestFits`, `Promotes`), or if the request is the acceptance.
- `DecisionsInv` (`IdentityProofs`): on an account no two requests worked on at
  once there is one request at work, the row it goes by is the row there is
  (`Found`), and nobody works on a withdrawn one. Beside it `PeopleInv`: no id is
  given up, so what a request, a token or a social identity names exists.
- `ViewsInv` (`ArticleProofs`): a view that was due is settled once its save is
  in the table, and unsaved before (`Settled`, `Unsaved`). A row in flight has at
  most the settled views of its article, and the save of a view one more, its
  own; a reader has one request at a time, so no two rows in flight have the same
  one more. This is why a lost mark must count as a day (`days`): the same reader
  is due again.
- `LikesInv` (`ArticleProofs`): likes that a view loaded are, as far as they
  still have a row, the likes the article has, unless somebody toggled meanwhile
  (`RequestKnows`); so its save relinks none. Ids of likes are not reused, hence a
  like loaded for one article is never another's (`Apart`).
- `PagesInv`: where rows have places of their own (`Distinct`) a row's rank in a
  list is the number of rows before it (`Rank`), ranks are filled without gaps
  (`RankFills`), a row that leaves or moves changes each other's rank by one at
  most (`RankOfRest`), and what `skip` and `take` cut is the rows with the ranks
  of that page (`PrefixIs`, `CutIs`). Of the rows that kept their places, those
  passed unseen (`Missed`) are no more than the rows that left or moved: one that
  does adds at most the row at the page's edge (`LeavingKeeps`). Between the two
  queries of a page its ids count as seen, as a row that keeps its place is still
  there for the second one (`ReceiveKeeps`); fewer ids than a page holds, or the
  count, rule out rows behind it (`CutMisses`, `PageIsFull`, `RankBelowCount`),
  fewer rows than ids do not, which is the torn page.
- `RowsInv` adds for `TypeOK` whom and about what a request in flight will tell
  (`Knows`), and that a comment that an edit inserts again has an id given before.
- `PoolInv`: who waits holds one connection at most, and one only
  in a nested handler; while somebody waits no connection is free. With fewer
  nested handlers than connections, counting (`PoolInvMeans`) finds a holder who
  does not wait.

The proofs also made two assumptions explicit. `ArticlesAssumption`: NULL
(`None`) is no user, no article and no like's row. `RowAssumption`: a schedule's
times are minutes of the day; nothing asks for the end to come after the start,
and the theorems hold for rows that end before they begin.

What stays with TLC: the liveness properties `PaidGetsRoom`, `PendingEnds` and
`ConfirmedEnds` (fairness and `ENABLED` are out of the prover's reach), and the
six counterexamples.

## 5. Not modelled, and simplifications

Left out altogether:

- Reads that only produce an answer (details, dashboard counts, incomes' sums),
  DTO validation, guards other than the role in the token, logging, mail and push
  texts, image upload, cookies and password hashes, seeds and migrations.
- Reviews: `createReview` reads `session.mentor.user`, which it did not load, and
  rolls back (review.service.ts 94); the table stays empty, so its updates,
  averages and lists act on nothing.
- The old `chat/chat.gateway.ts`, which no module provides.
- `updateRoomStatuses`, which compares invalid dates and changes nothing;
  `remindReviews`, which only notifies. That the progress loop throws at
  scheduler.service.ts 109 after its first save is in `Crons`.

Simplifications, and what they hide:

- Consecutive reads of one handler before its first write or Toss call are one
  step. A write between two of them is covered by its being before or after.
- A cron task does not overlap itself. The payer is the mentee.
- A confirmation that names no reservation logs a FAILED row without one, which
  concerns no reservation; it is left out.
- Time is `lapsed` and `phase`. That the tasks mix a UTC date with a local time
  (scheduler.service.ts 70-71), and that the five-field cron expressions in
  `scheduler/tasks/` fire once or three times a day rather than every thirty or
  ten minutes, only delays them; the fairness needs no more than that they fire.
- `Intervals` answers a set: where two of the mentor's rows overlap, the code
  lists a slot of both twice.
- A mentor's requests do not race each other in `Calendar`, and the payments that
  a deleted session's cascade removes are not in it.
- An account's other columns are one: edits of phone, image and password are an
  edit that leaves the e-mail, nickname and role as loaded. `createSession` also
  needs a schedule, which is left out.
- A user of `Articles` waits for her answer before she asks again, and a browser
  of `Devices` for its registration: two like toggles of one user at once do
  leave two likes, two registrations of one browser two rows, and two views of
  one reader at once both find no mark (article.service.ts 202) before either
  sets it (206) and both count. `ViewsNotInflated`, `LikeStands` and
  `OneUserPerBrowser` are about users who wait.
- `LastCodeOpens` is about addresses whose requests came one at a time; a SET
  that Redis applied although its answer was lost is not in `EmailCodes`.
- `sendFcm` deletes a row on either of two codes. That of a token Firebase no
  longer knows and that of a message it refused (`invalid-argument`) are one step,
  `DropToken`, which takes a token that is not `live`: `live` stands for "known,
  and no message to it was refused".
- The text search of the lists (`q`) is not modelled; a sort field that the table
  does not have makes the administrator's lists answer 500 and is left out;
  `createdAt` is taken to differ from row to row.
- Two things make a reader of pages miss more than `PagesMissAtMost` says, and it
  sets both aside: a page torn by a row that left between its two queries, which
  hides every row behind it (`torn`), and equal values of the field a list
  without joins is ordered by, which the database may order differently for each
  page (`Untied`).
- Who is told of a reply is not claimed. The comments at article.service.ts 432
  and 443 say that a reply notifies the parent comment's author and only other
  comments the article's. The code declares `parent` twice (418, 420): the outer
  one stays null, so a reply too tells the article's author (`CommitComment`),
  and the branch at 431-441 never runs.
- A transaction of `Pool` holds its connection from its first to its last
  statement; Redis and MongoDB have pools of their own and are not in it.

Behaviour the models contain and no property promises away, for a reader of the
code: the duplicate checks of `join` ignore withdrawn rows, whose nicknames are
still unique; a social link that races a withdrawal leaves a row nobody can use;
`verifyCode` may delete a newer code than it compared; a suspended account is
never opened again; the approval's body may say PENDING and gives the role all
the same; a token keeps its role until it expires; a stale view save brings a
deleted article back, undoes an edit or detaches a like; an edited comment that
was deleted meanwhile comes back without its article; a reply may name a comment
of another article as its parent; a browser whose former
owner's account is closed can never register (notification.service.ts 236); two
messages of one millisecond at a page's end may be lost or shown twice; one row
of a closed account makes a whole page of most lists answer 500; the status
filter of payments ignores "waiting".

## 6. Plan

Done: the modules of section 2, their runs, and a theorem for every safety
property of the runs. Left, in this order:

1. An abstract room for the chat gateway (members and one log per room), with
   `ChatGateway` shown to implement it, by TLC and then by proof.
2. What remains true where a run shows a counterexample: no slot twice among
   requests that do not overlap, no stranded charge without a second checkout, no
   rejection undone once the listener is done.
3. The two clocks of the cron tasks, once a date and an hour replace `phase`.
