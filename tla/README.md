# A TLA+ model of hdhive_bot_go

hdhive_bot_go is a Telegram bot that searches titles in TMDB, lists their
resources in HDHive, unlocks a resource against points, and transfers the
unlocked share to the user's own 115 account. Money is involved: an unlock is
paid for, an unlock whose outcome is unknown must not be repeated, and one
user's unlock gives another user nothing. These modules model the parts of the
worker in which such things can go wrong, check them with TLC on small
instances, and prove the most important ones with TLAPS for instances of any
size.

All paths below are relative to the repository; `handler.go` is
`internal/telegram/handler.go`, `adapters.go` is `internal/app/adapters.go`.

## 1. The system

### Components, their state and their operations

| Component | State | Operations | Correct when |
|---|---|---|---|
| Handler (`handler.go`) | `activeMsg` (chat -> tracked card); locals of one goroutine per update | `HandleText`, `HandleCallback`, and what they call: `search`, `showResources`, `showDetail`, `unlockResource`, `unlock`, `transfer`, `set115`, `handleAdmin`, `renderOrCreate`, `closeCard` | nobody unauthorized is served; no message and no untracked card without a reason; every handler ends |
| Session manager (`session/session.go`) | sessions (dialog kind, unlock statuses, expiry), callback tokens | `Set`, `Get`, `ClearInteraction`, `Delete`, `BindCallback`, `ResolveCallback`, `DeleteCallback`, `BeginUnlock`, `TransitionUnlock`, `SetUnlockStatus`, `UnlockStatus`, `Len`, the sweep | bounded; a token serves only its owner and only in time; the gate keeps its order |
| HDHive adapter (`adapters.go`) | `resources` (shared by all users), `unlocked` (per user) | `Search`, `Detail`, `Unlock`, `DetailForUser` | an unlock is paid once and proved per user |
| Transfer adapter (`adapters.go`), 115 client (`p115/client.go`) | none; the page read so far in a local | `Transfer115`, `Receive` with `snapRoot`, `call`, `classify` | only what this user unlocked is transferred; success means that the share was received |
| Callback values (`handler.go` 942-1028) | none; the strings bound to buttons | `encodeTMDB` to `decodeDetail` | a press means the title, page and resource its button showed |
| HDHive client (`hdhive/client.go`) | session ID, key, sequence, expiry, mutex | `request`, `signedRequest`, `ensureSession` | every message is signed for its session with a new number; one retry |
| Store (`store/store.go`) | SQLite: `users`, `p115_accounts`, `unlock_records`, `activity_logs` | single statements; `ClaimUnlock` is `INSERT ... ON CONFLICT DO NOTHING` | the claim elects one caller for ever |
| Messenger (`telegram/bot.go`) | none | `Send`, `Render` (edit text, caption or media), `DeleteMessage` | the edit fits the message |
| Migration (`migrate/migrate.go`) | none | `Import` | repeatable, and exact when completed |
| Search (`handler.go` `search`, `tmdb/client.go`, `view_builders.go`) | none | `search`, `Client.Search`, `BuildSearchResultsView` | every page of results can be reached |
| Formatting, errors, configuration, encryption, start-up | none that changes | | |

### Interaction

go-telegram/bot starts a goroutine per update, so handlers of one user run side
by side. They share the session manager (one mutex, held for each method), the
adapter's maps (a read-write lock, held for each access but not between them),
the HDHive client (one mutex, held over the whole HTTP exchange), `activeMsg` (a
lock per access) and the database (atomic per statement, no transaction over
several). A callback carries a random token that the session manager resolves
for its owner. A restart loses everything but the database, the messages in the
chats, the upstream account, and the requests already on the wire.

### What is hard

* Between the two gates of an unlock (the session's status in memory, the row in
  SQLite) every other goroutine may run, the session may expire, and the process
  may die; the payment itself is a remote call whose answer can be lost and which
  is sent a second time after a 403.
* `Detail` reads two maps and the database, and is read again at five places; its
  answer may be stale at each of them.
* `renderOrCreate` reads, talks to Telegram and writes without a lock.
* A session expires at a moment nobody sees, is swept by the next method that
  looks, and may be revived before that; the unlock has to live with all of it.
* A transfer reads a share that changes, page by page; its POST may be carried out
  long after its caller has given up, and beside the one of a retry.
* What a button means is in a string that titles are written into.
* Text messages race with the dialog they answer.
* `Import` is a sequence of statements that can break anywhere.

`PROJECT.json` lists these hazards at their lines, with the properties that guard
them.

## 2. Modules

| Module | Models | Checked by | Proved in |
|---|---|---|---|
| `SessionGate` | the sessions and unlock statuses as the unlock relies on them, without a clock | (as a property of `SessionManager`) | |
| `UnlockContract` | what the worker promises about a paid unlock: claim, pay once, grant, persist, deliver | (as a property of the next one) | |
| `UnlockProtocol` | the handlers of unlock and transfer with the sessions of `SessionGate`, adapter maps, `unlock_records`, the POST, and restarts | `MCUnlockProtocol` | `UnlockProtocolProofs` |
| `SessionManager` | `session.Manager` with its clock | `MCSessionManager` | `SessionManagerProofs` |
| `HDHiveClient` | the shared signed session | its own .cfg | `HDHiveClientProofs` |
| `Interaction` | text commands, authorization, the cookie dialog | `MCInteraction` | `InteractionProofs` |
| `ShareReceive` | `p115` `Receive`: snapshot, POST, answer, retries | `MCShareReceive` | `ShareReceiveProofs` |
| `NavCodec` | the callback values: `encodeTMDB` to `decodeDetail` | (extended by the next two) | `ResourceListingProofs` |
| `ResourceListing` | filter, order, pages and categories of a title's resources, browsed with the buttons | `MCResourceListing` | `ResourceListingProofs` |
| `SearchPages` | the search, its pages and the buttons of its card | `MCSearchPages` | |
| `CardRenderer` | the tracked card of a chat and Telegram's edits | `MCCardRenderer` | `CardRendererProofs` |
| `Migration` | `migrate.Import` | `MCMigration` | `MigrationProofs` |

`map` in `PROJECT.json` gives the lines of every definition. Every module has
some definitions marked *Variant*: plausible mistakes that nothing uses. Put in
place of the definition that follows, each breaks the property named beside it
in `PROJECT.json`, which shows that the property can fail.

### UnlockProtocol

`Proc` is the set of callbacks, each a goroutine that serves one pair of a user
and a resource (`arg`). `pc` is the statement it executes next, cut wherever the
code lets another goroutine run: `Detail` is three steps (the maps, the row, the
fill of the user's map), and `site` says which of its five callers goes on.
`sess`, `stale` and `status` are the session manager as `SessionGate` has it: every
step on them is one of its actions, except a restart, which starts them anew.
`listed` and `cache` are the adapter's maps, `record` the table. `wire[p]` is the
fate of the last POST of p: the upstream charges, refuses or forbids it at any
later time, even after its goroutine has given up or died. `charges` counts what
the upstream account paid. Database errors are choices: a read fails, a claim or
a write fails before or after it took effect.

`Mark`'s ErrNotFound is dropped, as the callers drop it. Abstracted: the share link
(a key either has one or not), points, texts, the card (see `CardRenderer`), and
the inside of the 115 call (see `ShareReceive`), which succeeds or fails, and
may deliver although it fails.

### SessionGate

Sessions that expire at any moment (`Expire`), stay in the map as `stale` until
the next method sweeps them, and come back when `ClearInteraction` meets them
first (`Renew`). A status can be stored only through `Begin`, `Transition` and
`Mark`. `UnlockProtocol` is built on these actions, and the run session_gate shows
that `SessionManager`, with its clock, its time to live and its tokens, does
nothing else to them (`ImplementsGate`): while a session lives, the gate of a key
opens again after a rejection only. So what is proved about the unlock holds
for the manager of the code and not only for an idea of it.

### SessionManager

One action per method; every method holds the mutex for its whole body, so
nothing is split. `Tick` advances the clock to a bound. Maps are functions on the
keys they hold, so that an expired entry that has not been swept is still there,
as in the code. `answer` and `bound` record who got what from `ResolveCallback`
and what was bound last.

### HDHiveClient

A key is named by the session it was derived for, which is what the signature
tells apart. `mu` is the mutex; `Discard` takes it again after the 403, so another
request can run before it. The proxy may forget any session and refuse any
message. `posts` records every message.

### Interaction

A message is its handler. `Check` is the one authorization check; commands before
it (`/cancel`, the admin commands) skip it, as in the code. `SetUserAuthorization`
and `SetUserNote` are two statements, `Ensure` and `Update`. `granted`,
`asked` and `reply` are history for the properties: `granted` has the messages whose
sender was authorized at some moment since they arrived, whether or not the
handler looked.

### ResourceListing

`FilterAndSort` is the filter with the stable sort. Go sorts by comparing; the
model puts each kept resource at its `Place`, the number of kept ones that do not
come after it in the order of keys and, among equal keys, of the list. The result is
the same, and it can be reasoned about without induction. `IsStableOrder` says
independently what a stable order is. `Page` clamps and cuts as `Search` does. `nav` is what
the card was made from: the title, the page and the category. Every press goes
through the strings of `NavCodec`, encoded for the button and decoded by the
handler; upstream's list may change between any two presses
(`UpstreamChanges`). A search that fails changes nothing and is left out. Buttons of older messages are not pressed here.

### NavCodec

A string is a sequence of pieces (`Piece`), in which a separator is a piece of its
own and so is the decimal form of a number (`Decimal`); joining, splitting and
blanking separators do to such sequences what the code does to characters.
`strings.Split` is met as `Before` and `After` the first separator, applied once per
field, and the cut at the last line break as `BeforeLast` and `AfterLast`.
`MaxNumber` bounds the numbers that `Scan` looks for. In the runs, pieces are TLA+
strings.

### SearchPages

The buttons of a card, row after row, each with what it does; `search` puts the
actions into a keyboard that `BuildSearchResultsView` has laid out before.
`Press` is never enabled: no button of "search_page" is ever bound to a reachable
card, which is what the run search_pages is about.

### ShareReceive

A process is one press of "transfer" or "retry" on a share. Reading a page is a
step, so the share can change between two pages; 115 carries out a POST
(`Execute`) or refuses it whenever it likes, also after its caller timed out or
died. An answer is reduced to its status, its `state` and what its text says. A
share entry may have no ID (`NoId`) or be no object at all (`Broken`); the latter
also makes a full page look short, and `Reachable` says what is left.

### CardRenderer

A call of `renderOrCreate` (`Begin`, then `Look`, an edit or a `Send`, `SetActive`)
or of `closeCard`, or a message that is sent past both (`Post`): the home card, and
every answer of `Handler.send`, also those to the buttons `back_search`, `home` and
`new_search`. Such messages are in the chat and in `loose`; the others are the cards
(`Main`). A message is reduced to the poster it shows, `None` for a text. `Render`
chooses the edit from the reference, Telegram accepts it according to the message;
the two can differ after a lost answer.

Four variables are history. `troubles` records what has gone wrong, so that each
property says under which troubles it holds. `due` counts the calls that may add a
message: keywords, buttons of the home card, and messages sent past the card. A
view that comes of a card's button, or second in a handler, may not. `left` counts
the cards that may stay behind untracked: one for a restart that finds a card or a
call under way, one for a poster that fails in the edit of a photo card. So a
second card is in the model wherever the code makes one, and
`CardsAreAccounted` says that it makes no other, also when an old card is closed
and the tracked one is given up for it. A search renders into the tracked card if
there is one; TELEGRAM_NATIVE_UX_SPEC.md 2.1 wants a new card there, and the model
follows the code.

### Migration

`Import` from loop to loop. Initial states are all files over the keys of an
instance. A key is a user's canonical spelling, another spelling of it, or no
user. `Stop` is any error or kill between or inside statements. `Change` are the
bot's own writes to the same rows, and `changed` the users they touched since the
import began.

## 3. Runs

| Run | Instance | Shows |
|---|---|---|
| unlock_safety | 3 callbacks on one key | one charge, one owner per key, charges on record, rows settle once, no gate is left closed but where the key was found unlocked, the contract is implemented |
| unlock_users | 2 callbacks, 2 users on one resource | only who paid gets the link, only that is delivered, and every handler ends |
| session_gate | 3 users, 1 token, capacity 2, TTL 2, clock to 4 | capacity, token ownership and lifetime; `SessionGate` is implemented |
| client_safety | 3 requests, 3 sessions | signatures, sequence numbers, retries, and every request ends |
| interaction_safety | 3 messages of every kind, admin and user | cookies are stored for their sender, authorization changes by command only, nothing is done for a message whose sender was not authorized while it was handled |
| interaction_cookie | 2 messages | *violated*: a cookie is searched for |
| share_receive | 2 transfers, 8 shares, pages of 2, 2 pages at most | success means that everything readable was received; every transfer ends |
| listing | lists of up to 5 of 6 resources, pages of 2, a title with every separator | pages are the stable order in pieces, no press shows an empty page of a category that has resources, every press leads to the neighbouring page, also from the first and from beyond the last, the title survives every button |
| search_pages | 2 keywords, 4 answers of TMDB | *violated*: the "next" of a first page does nothing |
| card_safety | 3 calls, 2 posters | edits fit, messages are added and cards left untracked for a reason only, the tracked poster is the shown one |
| card_overlap | 3 calls | *violated*: a press before the card is tracked sends another |
| migration | a list of one entry, notes and accounts of 2 users, one spelled twice, bad keys | a completed import is exact, nobody on the list loses access |

### Why the bounds are enough

A second owner of a key needs two goroutines; the third of `unlock_safety` is a
goroutine started after a restart while two earlier ones left something behind.
Keys share only the listing (by resource) and the capacity (by user): two users
of one resource is the instance where something could leak. `charges` is not
bounded, the invariant bounds it. In `SessionManager` a binding can be made, expire
and be made again within four ticks at a TTL of two, and three users compete for
two sessions, so that a full map can hold an expired one beside a living one.
`unlock_users` takes one goroutine to serve one chosen user (`MCFairSpec`): the
specification is the same under a permutation of the users, so this loses no
behaviour up to renaming, and it replaces the symmetry that liveness forbids. In `HDHiveClient`, three requests are the refused one, the one
that renegotiates in between, and the one that meets the discarded session; one
of them can be refused while another has renegotiated already, which takes three
sessions.
In `ResourceListing` five resources of one category make three pages of two, the
least at which a page has a neighbour on both sides, and the list can shrink from
under the last; the code's page of eight is cut by the same arithmetic. A sixth
resource is in the two other categories. In `ShareReceive` the shares include an
empty one, a full page, as much as the cap allows and one entry more, entries
without an ID and broken ones; two transfers are a retry beside a POST that is
still travelling, and the share changes once, before, between or after them.
`CardRenderer` needs a card, a call that overtakes another, and a third that
meets the result; or a card, the poster or restart that leaves it behind, and the
closing that gives up its successor. `Migration` breaks off and is repeated any number of times;
`MaxList` and `MaxChanges` bound the list and the concurrent commands only.
`MaxTime`, `MaxSession`, `MaxLen`, `MaxNumber`, `MaxList`, `MaxChanges` and `Sent`
are the only bounds that the code does not have; `MaxPages` is the code's own
(20), as are `PageSize` and the capacity.

Runs with `CHECK_DEADLOCK FALSE` are those whose calls, messages or imports all
come to an end: nothing is left to do then. Symmetry is used in safety runs only.

### Fairness

`FairSpec` asks weak fairness of the steps of each goroutine, and nothing else:
the Go scheduler runs a goroutine that can run, and the HTTP clients' timeouts
(`app.go` 125-143) end every wait for an answer. The upstream, 115, Telegram,
users, expiry and restarts owe nothing. In `HDHiveClient` fairness is on the steps that
need no answer of the proxy; the timeout (`Fail`) is one of them.

## 4. What is proved

The theorems hold for every value of the constants that meets the assumptions
of the modules, named where they are more than types. They are listed in
`PROJECT.json` with the properties they state. Each is proved from an inductive
invariant that TLC has found to hold before.

### The paid unlock (`UnlockProtocolProofs`)

For any `User`, `Res`, `Proc` and any natural number `MaxSessions`: type
correctness, `AtMostOneCharge`, `OneOwnerPerKey`, `EveryChargeIsOnRecord`,
`GrantsArePaid`, `DeliveredIsPaid`, `SessionSuccessIsPaid`, `RecordsSettleOnce`
and `GateIsTended`, and that every step is one of `UnlockContract` or a stutter,
under the mapping `Contract`.

`AtMostOneCharge` is not inductive: that the next charge meets an uncharged
account depends on who may own the row. The inductive invariant adds: from the
claim to the final answer the row is in flight and belongs to one goroutine
(`OwnerHoldsRow`, `OneOwnerPerKey`); a request on the wire has a row
(`WireIsClaimed`) and nothing is on the wire before the POST (`PostIsFirst`); a
charge is the charge of exactly the POST that reports it (`ChargesAreReported`);
whoever has seen success, in memory, on disk or in the session, has a charge
behind him. Since the claim is taken only when no row exists, and no step ever
deletes a row, the owner is unique for ever, restarts included, and each POST is
charged once at most because it is resent only after a 403 that refused it.

The steps of the session manager enter these proofs as what they keep
(`GateKept`): whatever sweeps, stores, opens, revives or expires a session, no
status changes except to nothing, or to the one an unlock step stores.
A pending gate is tended by the goroutine between its two steps, or by one that
ended there because the key was unlocked (`FoundUnlocked`); an error, of `Detail` or
of `TransitionUnlock`, does not leave it pending. `GateIsTended` needs two facts
beside itself: an idle goroutine is at its first
site (`IdleIsFresh`), and a status has a session (`StatusHasSession`), so that a
mark which finds no session leaves no closed gate behind.

That a POST answered with 403 was not executed is an assumption about the
proxy (`Upstream` gives each POST one outcome; were it not so, the resend of
`hdhive/client.go` 108 could be charged twice), and so is that the upstream
charges a POST at most once.

### The session manager (`SessionManagerProofs`)

Type correctness, `AnswersHonourBinding`, `TokensAreNotStolen`, `CapacityHolds` and
`ImplementsGate`, for any users, resources, tokens, time to live, capacity and
bound of the clock. A press is answered for the owner of the *last* binding
because the callback in the map is that of the last binding (`BindingsKept`).
The capacity needs that the map is finite; who is let in finds room after the
sweep. `ManagerImplementsGate` maps every call to one step of `SessionGate`: stale
are the sessions whose time has passed, and a sweep of the map is a sweep of the
gate. The unlock is modelled on `SessionGate`, so what is proved about it rests
on the manager as it is in the code.

### The HDHive client (`HDHiveClientProofs`)

Type correctness, `SignedForItsSession`, `RetriesUseAnotherSession` and
`SequencesOnlyGrow`, for any number of requests and sessions. The invariant: one
request is inside `signedRequest` (`Exclusive`); key and ID are of the same session,
and there is one before something is sent (`Ready`); what was sent has a number
that was already counted (`Counted`); an attempt sends one message, and one that is
still to come finds another session than those its request used
(`OnePerAttempt`), because the refused session was discarded, or somebody else had
replaced it.

### The text commands (`InteractionProofs`)

Type correctness, `CookiesAreOwn`, `OnlyGrantedAreServed` and
`AuthorizationIsCommanded`, for any users, any admins among them, any messages and
any capacity; there is at least one user. The invariant: only admins' commands
reach the table (`AdminsAtWork`), only private messages are on their way to be
stored (`SavesArePrivate`), what is stored came from a message that has arrived
(`CookiesArrived`), and whoever is authorized now was so during his running
handlers (`AuthorizedAreGranted`). `OnlyGrantedAreServed` is about what a handler does,
not about its check: it searches, asks, stores, deletes or opens something only for
a granted message, on whichever way through the routing. It needs that whoever is
past the check, at a step that serves, was granted (`PastCheckGranted`), also when a
revocation has overtaken him.

### The migration (`MigrationProofs`)

Type correctness, `CompletedImportIsExact` and `ListedStayAuthorized`, for any files,
spellings, and numbers of imports and changes. The invariant says at which entry
each loop is (`LoopsInOrder`), that a bad key is never passed (`BadStops`), whom the
import has seen (`SeenAreVisited`), and that the tables agree with what was visited
so far for everyone the bot did not change meanwhile (`WrittenSoFar`). That holds
at the start of every import, whatever an earlier one left, since nothing has
been visited then.

### The card (`CardRendererProofs`)

Type correctness, `CaptionsGoToPhotos`, `TrackedAsShown` and `CardsAreAccounted`, for
any calls and posters. `CaptionsGoToPhotos` is inductive: no edit turns a photo into
a text, and message IDs are not reused. For the other two, calls without overlap are
alone (`Alone`), and what the one under way holds is what the card shows
(`Faithful`). While nothing went wrong the only card is the tracked one or that of
this call, which makes a new one only when there is none (`Single`). With restarts,
deleted messages and failed posters there can be more: beside the tracked card, or
that of the call under way, there are no more than were left behind (`Accounted`).
A new card needs either a place among those or that the tracked one is gone, and
that an edit is refused only then is a matter of `Faithful`.

### Receiving a share (`ShareReceiveProofs`)

Type correctness and `SuccessIsComplete`, for any shares, entries, number of
transfers, page size and cap. `ReadInv` says what a transfer has read when the share
only grew since it began: the share still begins as it was found (`FirstIsPrefix`);
every ID on the pages counted so far is among those found (`PagesAreRead`); and once
the reading ended, everything readable is (`RootIsRead`). A reading ends at a page
that is not full or at the cap. That nothing readable is
left then is a matter of page arithmetic (`PagesApart`, `PageShows`, `ShortPageEnds`):
a page without broken entries that is not full is the last one the share had when
it was found. `AnswerInv` goes from there to the account: an answer that can be
taken for a success means that the POST was carried out (`AnswersAreTrue`), and no
refusal is classified as one (`RefusalsFail`). The two together say that a transfer
which reports success owns what it found, and that it found all.

That 115 answers a page with that part of the share as it is at that moment, and
"received" only to a POST it carried out, or "already there" if it has everything
that the POST asks for, are assumptions about 115 (`SnapPage`, `Execute`).

### The listing and its buttons (`ResourceListingProofs`)

Type correctness, `PagesAreTheListing`, `TitleSurvives`, `NoEmptyPage` and
`PressesAdjoin`, for any resources, any list that has each of them once, any title,
any page size and any way of writing numbers. There are three layers of lemmas.

*Strings.* A field is joined to what follows by a separator (`JoinedIs`), and read
back if it does not have that separator itself (`FieldIsRead`, and from the end
`LastIsRead`); blanking takes a separator out of a field and touches nothing else
(`BlankedIs`, `CleanFieldIs`). From these follows for each kind of button that its
press gets back what it was made from: `TMDBIsRead`, `PageIsRead`, `NavIsRead` and
`DetailIsRead`. They need that the media type and the date have no separator and
that a resource ID is one line. `FoundAssumption` and `ListingAssumption` say so:
the former are "movie", "tv" and a date of TMDB, the latter a slug or a number of
HDHive. About the title nothing is assumed.

*Order and pages.* Places are taken by exactly one kept resource each
(`PlacesAreTaken`, by the pigeonhole principle), so the result is a stable order of the
category (`SortIsStable`), and there is only one (`StableOrderIsUnique`), so
`IsStableOrder` leaves nothing open. A page is a part of it, full unless it is the last
(`PageIs`), neighbours adjoin (`NeighboursAdjoin`), and one after the other they are
all of it (`AllPagesAre`). `SortIsStable` says that for lists in which each resource
occurs once; `UpstreamChanges` keeps them so (`ChangesAreListed`).

*The invariant* `Browsing`: types; the list has each resource once (`Listed`); the item
is the one found but for its title, in which separators may have become blanks
(`Travels`); pages are numbers that can be read back; an opened resource was shown
(`OpenedWasShown`); and while the list is as it was, the card shows the page of its
buttons (`ShownIsListed`). The last is what makes the action properties provable:
what a press shows follows from the page in the button, and what was shown before
from the page in the button before. Where a press leads is compared by page and
category, which all buttons carry, and not by the item, of which a list opened from
the title's card knows more than its buttons do. Beyond the last page of a list that
has shrunk, the card shows the last page (`BeyondTheLast`).

`CodecAssumption` says that decimal forms of different numbers differ and contain no
separator. `MaxLen` and `MaxNumber` bound lists and numbers for checking; the theorems
hold for any such bounds, provided that page numbers can be written (`MaxLen` is at
most `MaxNumber`).

## 5. Only model-checked

Liveness (`HandlersFinish`, `RequestsEnd`, `TransfersEnd`) is out of the prover's
reach, as is everything about fairness. All safety properties and refinements of
the passing runs are proved; the three runs that end in a violation have nothing
to prove. `FilterAndSort` is not compared with an algorithm that moves
elements, as `sort.SliceStable` does: it is proved to be the stable order, and that
Go's sort is stable is taken from its documentation. `SearchPages` has no theorems,
since its one property fails.

## 6. Where the code and its documents differ

* A cookie can reach the search and its log (interaction_cookie).
* The "next" of the first page of search results has no action, so the other pages
  cannot be reached (search_pages). Telegram may well refuse a keyboard with such a
  button altogether; the model leaves that open.
* A button pressed before its card is tracked sends a second card (card_overlap).

Met while modelling, without a run of their own:

* A poster that cannot be fetched for a photo card is an error of `Render`
  (`bot.go` 79), which `renderOrCreate` answers with a second card;
  TELEGRAM_NATIVE_UX_SPEC.md 60 wants the old poster kept and only the caption
  changed. `CardsAreAccounted` counts the card it leaves behind.
* A new keyword renders into the tracked card (`handler.go` 408), where
  TELEGRAM_NATIVE_UX_SPEC.md 34-42 wants a new card and the old one kept.
* "Return to the search" sends a text beside the card (`handler.go` 506), as "home"
  and "new search" do (525, 535), while TELEGRAM_NATIVE_UX_SPEC.md 737 has returning
  add no message. `Post` is that message.
* Closing deletes the message (`handler.go` 592); TELEGRAM_NATIVE_UX_SPEC.md 3.10
  wants it kept without its buttons. It also forgets the tracked card when an older
  one is closed.
* `ClearInteraction` (`session.go` 93-105) renews an expired session that was not
  swept yet, with its old unlock statuses. `SessionGate` has this as `Renew`, and
  what is checked and proved about the unlock holds with it.
* A business refusal of an unlock is recorded as `unknown`: no code ever stores
  `rejected`, of which `session.go` and the table know (TODO.md 33,
  DEVELOPMENT.md 135). The key of such a refusal stays blocked.
* An unlock is not confirmed a second time (`handler.go` 753), while
  TELEGRAM_NATIVE_UX_SPEC.md 19 wants a confirmation of whatever costs points.
* `encodeResourcePage` keeps the ID, the kind, the name and the date of a title:
  after a page was turned, "return" shows a title without overview and poster.
  `TitleSurvives` is about what must survive. A resource ID with a line break would
  be cut by `decodeDetail`; the model's IDs have none.
* What of a share lies beyond page 20, has no ID, or follows a page with a broken
  entry is not received, and nobody is told; `Reachable` is everything else.
* `Search` clamps the page, but `showResources` makes the indicator and the
  buttons from the page it asked for (`handler.go` 664-672). After the list has
  shrunk, a card can say "3/1", and its "previous" shows the same page again.
  `PressesAdjoin` says just that of such a card.
* The button "return to the title" of a list is bound to `movie_resources`
  (`handler.go` 696), which shows the first default page and not the title's card.
* Pages have eight resources (`adapters.go` 74); TELEGRAM_NATIVE_UX_SPEC.md 201
  says six.

## 7. Not modelled, and the plan

Left out for good: views, formatting and error texts (wording), configuration,
encryption and start-up (parsing, library calls and wiring), activity logs
(written, never acted upon), the commands that only read (`/start`, `/help`,
`/myid`, `/my115`, `/users`, `/logs`), the decoding of TMDB's and HDHive's answers, and
what of `p115/client.go` the worker does not use (`ListShare`, `RootFiles`, the
strategies other than auto, which tests alone call). A resource without a slug is
named by its position in the listing; the models name a resource by itself, since
nothing in the code could tell two such resources apart.

Next, in this order:

1. `Interaction` on `SessionGate`, so that the dialog and the unlock share one
   session, as they do in the code.
2. What `UnlockContract` promises by itself (a link is granted to who paid, a payment
   is never repeated) as theorems of the contract.
