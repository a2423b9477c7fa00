---------------------------- MODULE CardRenderer ----------------------------
(***************************************************************************)
(* The main card of a chat: handler.go renderOrCreate and closeCard, with  *)
(* the tracked reference in Handler.activeMsg, and BotMessenger's Send and *)
(* Render (bot.go).  Chats share nothing here, so the module models one.   *)
(*                                                                         *)
(* Each element of Proc is one call of renderOrCreate, or of closeCard, in *)
(* the goroutine of some update, or a message that is sent past them; the  *)
(* calls of one goroutine are elements that follow each other.  A view is  *)
(* reduced to its poster, a message to the poster it shows.  Telegram is   *)
(* external: it edits a text as a text and a caption as a caption only,    *)
(* cannot always fetch a poster, and its answers can be lost.              *)
(*                                                                         *)
(* A definition marked "Variant" is a plausible mistake in the definition  *)
(* after it.  Nothing here uses it: put in place of that definition, it    *)
(* must break the property PROJECT.json names.                             *)
(***************************************************************************)
EXTENDS Naturals, FiniteSets

CONSTANTS
  Proc,     \* calls of renderOrCreate, of closeCard, and of Send by others
  Poster,   \* poster URLs
  None      \* no poster

ASSUME PosterAssumption == None \notin Poster

VARIABLES
  pc,        \* pc[p]: the step p takes next
  view,      \* view[p]: the poster of the view p renders
  ref,       \* ref[p]: the reference p holds
  active,    \* activeMsg of the chat, NoRef when nothing is tracked
  cards,     \* the bot's messages in the chat: message ID -> poster shown
  created,   \* how many messages were ever sent
  loose,     \* history: the messages sent past renderOrCreate
  due,       \* history: how many messages the calls so far may have added
  left,      \* history: how many cards may have been left behind untracked
  troubles   \* history: what went wrong so far

counts == <<loose, due, left>>
shared == <<active, cards, created, counts, troubles>>
vars == <<pc, view, ref, active, cards, created, loose, due, left, troubles>>

Steps == {"idle", "look", "edit", "fallback", "send", "sendText", "set",
          "delete", "done", "failed", "dead"}

Ended == {"idle", "done", "failed", "dead"}

Media == Poster \union {None}

\* MessageRef: HasMedia and MediaURL are one field.
NoRef == [id |-> 0, media |-> None]

Troubles == {"overlap", "poster", "lost", "deleted", "restart"}

Goto(p, step) == pc' = [pc EXCEPT ![p] = step]

\* Call p returns, and its variables are gone.
Finish(p, step) ==
  /\ Goto(p, step)
  /\ view' = [view EXCEPT ![p] = None]
  /\ ref' = [ref EXCEPT ![p] = NoRef]

Note(trouble) == troubles' = troubles \union {trouble}

\* An error that leaves open whether Telegram did what it was asked to.
Unanswered == Note("lost")

\* The cards: the other messages are never tracked, and only the home card among
\* them has buttons.
Main == DOMAIN cards \ loose

Show(id, media) == cards' = [i \in DOMAIN cards \union {id} |-> IF i = id THEN media ELSE cards[i]]

-----------------------------------------------------------------------------
\* Calls that other calls of the chat have not finished before overlap them.
NoteOverlap ==
  IF \A q \in Proc : pc[q] \in Ended THEN UNCHANGED troubles ELSE Note("overlap")

\* A handler has a view to render: for a new keyword or a button of the home card,
\* for a button of a card, or because it goes on after an earlier call; that may
\* have failed, or its card may have been closed over the handler's head.
Begin(p, poster) ==
  /\ pc[p] = "idle"
  /\ \/ due' = due + 1 /\ NoteOverlap
     \/ Main # {} /\ NoteOverlap /\ UNCHANGED due
     \/ /\ Main = {} /\ \E q \in Proc : pc[q] \in {"done", "failed"}
        /\ Note("overlap")
        /\ UNCHANGED due
  /\ view' = [view EXCEPT ![p] = poster]
  /\ Goto(p, "look")
  /\ UNCHANGED <<ref, active, cards, created, loose, left>>

\* showHome, and every answer of h.send ("back_search", "new_search" and "home"
\* among them), is sent without looking at the tracked card or tracking anything.
Post(p) ==
  /\ pc[p] = "idle"
  /\ Show(created + 1, None)
  /\ created' = created + 1
  /\ loose' = loose \union {created + 1}
  /\ due' = due + 1
  /\ Goto(p, "done")
  /\ UNCHANGED <<view, ref, active, left, troubles>>

PostUnanswered(p) ==
  /\ pc[p] = "idle"
  /\ \/ /\ Show(created + 1, None)
        /\ created' = created + 1
        /\ loose' = loose \union {created + 1}
     \/ UNCHANGED <<cards, created, loose>>
  /\ due' = due + 1
  /\ Goto(p, "failed")
  /\ Unanswered
  /\ UNCHANGED <<view, ref, active, left>>

\* getActiveMsg, under the read lock.
Look(p) ==
  /\ pc[p] = "look"
  /\ ref' = [ref EXCEPT ![p] = active]
  /\ Goto(p, IF active = NoRef THEN "send" ELSE "edit")
  /\ UNCHANGED <<view, shared>>

-----------------------------------------------------------------------------
(* BotMessenger.Render.                                                    *)

\* The edit Render chooses by what the reference says, not the message.
EditOf(p) ==
  CASE view[p] # None /\ ref[p].media # view[p] -> "media"
    [] ref[p].media # None /\ view[p] \in {None, ref[p].media} -> "caption"
    [] ref[p].media = None /\ view[p] = None -> "text"

\* What Telegram can do with the message.
Editable(p) ==
  /\ ref[p].id \in DOMAIN cards
  /\ EditOf(p) = "text" => cards[ref[p].id] = None
  /\ EditOf(p) = "caption" => cards[ref[p].id] # None

\* What the card shows after the edit.
Edited(p) == IF EditOf(p) = "media" THEN view[p] ELSE cards[ref[p].id]

\* Variant: editMedia returns the reference it was given.
EditForgetful(p) ==
  /\ pc[p] = "edit" /\ Editable(p)
  /\ Show(ref[p].id, Edited(p))
  /\ Goto(p, "set")
  /\ UNCHANGED <<view, ref, active, created, troubles, counts>>

\* editMedia returns a reference with the new poster, the others the old one.
Edit(p) ==
  /\ pc[p] = "edit" /\ Editable(p)
  /\ Show(ref[p].id, Edited(p))
  /\ ref' = [ref EXCEPT ![p].media = IF EditOf(p) = "media" THEN view[p] ELSE @]
  /\ Goto(p, "set")
  /\ UNCHANGED <<view, active, created, troubles, counts>>

\* "message is not modified" counts as success, with the old reference.
NotModified(p) ==
  /\ pc[p] = "edit" /\ Editable(p)
  /\ Edited(p) = cards[ref[p].id]
  /\ Goto(p, "set")
  /\ UNCHANGED <<view, ref, shared>>

\* A text that cannot become a photo falls back to editText, every other
\* failed edit to a new card.
AfterError(p) == IF EditOf(p) = "media" /\ ref[p].media = None THEN "fallback" ELSE "send"

EditRefused(p) ==
  /\ pc[p] = "edit" /\ ~Editable(p)
  /\ Goto(p, AfterError(p))
  /\ UNCHANGED <<view, ref, shared>>

\* For a photo the new card that follows leaves the old one behind.
PosterFails(p) ==
  /\ pc[p] = "edit" /\ Editable(p) /\ EditOf(p) = "media"
  /\ Goto(p, AfterError(p))
  /\ left' = IF ref[p].media # None THEN left + 1 ELSE left
  /\ Note("poster")
  /\ UNCHANGED <<view, ref, active, cards, created, loose, due>>

EditUnanswered(p) ==
  /\ pc[p] = "edit" /\ Editable(p)
  /\ cards' = cards \/ Show(ref[p].id, Edited(p))
  /\ Goto(p, AfterError(p))
  /\ Unanswered
  /\ UNCHANGED <<view, ref, active, created, counts>>

\* editText in place of the poster: it needs a text message.
Fallback(p) ==
  /\ pc[p] = "fallback"
  /\ Goto(p, IF ref[p].id \in DOMAIN cards /\ cards[ref[p].id] = None THEN "set" ELSE "send")
  /\ UNCHANGED <<view, ref, shared>>

FallbackUnanswered(p) ==
  /\ pc[p] = "fallback"
  /\ Goto(p, "send")
  /\ Unanswered
  /\ UNCHANGED <<view, ref, active, cards, created, counts>>

-----------------------------------------------------------------------------
(* BotMessenger.Send.                                                      *)

NewCard(media) == Show(created + 1, media) /\ created' = created + 1

\* SendPhoto, or, for a view without a poster, sendText.
Send(p) ==
  /\ pc[p] = "send"
  /\ NewCard(view[p])
  /\ ref' = [ref EXCEPT ![p] = [id |-> created + 1, media |-> view[p]]]
  /\ Goto(p, "set")
  /\ UNCHANGED <<view, active, troubles, counts>>

SendPosterFails(p) ==
  /\ pc[p] = "send" /\ view[p] # None
  /\ Goto(p, "sendText")
  /\ Note("poster")
  /\ UNCHANGED <<view, ref, active, cards, created, counts>>

SendUnanswered(p) ==
  /\ pc[p] = "send"
  /\ NewCard(view[p]) \/ UNCHANGED <<cards, created>>
  /\ IF view[p] = None THEN Finish(p, "failed")
                       ELSE Goto(p, "sendText") /\ UNCHANGED <<view, ref>>
  /\ Unanswered
  /\ UNCHANGED <<active, counts>>

\* Variant: the reference says photo although only a text was sent.
SendTextAsPhoto(p) ==
  /\ pc[p] = "sendText"
  /\ NewCard(None)
  /\ ref' = [ref EXCEPT ![p] = [id |-> created + 1, media |-> view[p]]]
  /\ Goto(p, "set")
  /\ UNCHANGED <<view, active, troubles, counts>>

\* Without its poster the view is sent as a text.
SendText(p) ==
  /\ pc[p] = "sendText"
  /\ NewCard(None)
  /\ ref' = [ref EXCEPT ![p] = [id |-> created + 1, media |-> None]]
  /\ Goto(p, "set")
  /\ UNCHANGED <<view, active, troubles, counts>>

\* Variant: the error is dropped and the expected message tracked.
SendTextUnchecked(p) ==
  /\ pc[p] = "sendText"
  /\ ref' = [ref EXCEPT ![p] = [id |-> created + 1, media |-> None]]
  /\ Goto(p, "set")
  /\ Unanswered
  /\ UNCHANGED <<view, active, cards, created, counts>>

SendTextUnanswered(p) ==
  /\ pc[p] = "sendText"
  /\ NewCard(None) \/ UNCHANGED <<cards, created>>
  /\ Finish(p, "failed")
  /\ Unanswered
  /\ UNCHANGED <<active, counts>>

-----------------------------------------------------------------------------
\* Variant: a new card is tracked only where none was tracked before.
SetIfNone(p) ==
  /\ pc[p] = "set"
  /\ active' = IF active = NoRef THEN ref[p] ELSE active
  /\ Finish(p, "done")
  /\ UNCHANGED <<cards, created, troubles, counts>>

\* setActiveMsg: the last one wins.
SetActive(p) ==
  /\ pc[p] = "set"
  /\ active' = ref[p]
  /\ Finish(p, "done")
  /\ UNCHANGED <<cards, created, troubles, counts>>

\* closeCard forgets the tracked card, whichever card was closed ...
Close(p, id) ==
  /\ pc[p] = "idle"
  /\ active' = NoRef
  /\ ref' = [ref EXCEPT ![p] = [id |-> id, media |-> None]]
  /\ Goto(p, "delete")
  /\ NoteOverlap
  /\ UNCHANGED <<view, cards, created, counts>>

\* ... and then deletes the pressed one, which no loose message is: none of them
\* has the button.
DeleteMessage(p) ==
  /\ pc[p] = "delete"
  /\ cards' = [i \in DOMAIN cards \ {ref[p].id} |-> cards[i]]
  /\ Finish(p, IF ref[p].id \in DOMAIN cards THEN "done" ELSE "failed")
  /\ UNCHANGED <<active, created, troubles, counts>>

DeleteUnanswered(p) ==
  /\ pc[p] = "delete"
  /\ cards' \in {cards, [i \in DOMAIN cards \ {ref[p].id} |-> cards[i]]}
  /\ Finish(p, "failed")
  /\ Unanswered
  /\ UNCHANGED <<active, created, counts>>

-----------------------------------------------------------------------------
\* The user deletes a message.
UserDeletes(id) ==
  /\ cards' = [i \in DOMAIN cards \ {id} |-> cards[i]]
  /\ Note("deleted")
  /\ UNCHANGED <<pc, view, ref, active, created, counts>>

Restart ==
  /\ pc' = [p \in Proc |-> IF pc[p] \in Ended THEN pc[p] ELSE "dead"]
  /\ view' = [p \in Proc |-> None]
  /\ ref' = [p \in Proc |-> NoRef]
  /\ active' = NoRef
  /\ left' = IF active.id \in DOMAIN cards \/ \E p \in Proc : pc[p] \notin Ended
               THEN left + 1 ELSE left
  /\ Note("restart")
  /\ UNCHANGED <<cards, created, loose, due>>

Init ==
  /\ pc = [p \in Proc |-> "idle"]
  /\ view = [p \in Proc |-> None]
  /\ ref = [p \in Proc |-> NoRef]
  /\ active = NoRef
  /\ cards = << >>
  /\ created = 0
  /\ loose = {} /\ due = 0 /\ left = 0
  /\ troubles = {}

Step(p) ==
  \/ Look(p)
  \/ Edit(p) \/ NotModified(p) \/ EditRefused(p) \/ PosterFails(p) \/ EditUnanswered(p)
  \/ Fallback(p) \/ FallbackUnanswered(p)
  \/ Send(p) \/ SendPosterFails(p) \/ SendUnanswered(p) \/ SendText(p) \/ SendTextUnanswered(p)
  \/ SetActive(p)
  \/ DeleteMessage(p) \/ DeleteUnanswered(p)

Next ==
  \/ \E p \in Proc : Step(p)
  \/ \E p \in Proc, poster \in Media : Begin(p, poster)
  \/ \E p \in Proc : Post(p) \/ PostUnanswered(p)
  \/ \E p \in Proc, id \in Main : Close(p, id)
  \/ \E id \in DOMAIN cards : UserDeletes(id)
  \/ Restart

Spec == Init /\ [][Next]_vars

-----------------------------------------------------------------------------
(* Properties.                                                             *)

Ref == [id : 0..created, media : Media]

TypeOK ==
  /\ pc \in [Proc -> Steps]
  /\ view \in [Proc -> Media]
  /\ ref \in [Proc -> Ref]
  /\ active \in Ref
  /\ created \in Nat
  /\ DOMAIN cards \subseteq 1..created
  /\ \A i \in DOMAIN cards : cards[i] \in Media
  /\ loose \subseteq 1..created
  /\ due \in Nat /\ left \in Nat
  /\ troubles \subseteq Troubles

\* A reference that promises a photo refers to a photo as long as the message
\* exists, whatever was lost or rendered by others meanwhile: a caption is never
\* sent to a text message (bot.go Render, cases 1 and 2).
CaptionsGoToPhotos ==
  \A r \in {active} \union {ref[p] : p \in Proc} :
    r.media # None /\ r.id \in DOMAIN cards => cards[r.id] # None

\* No call has overlapped another, and no answer was lost.
Orderly == troubles \subseteq {"poster", "deleted", "restart"}

\* Messages are added, and cards left behind, for a reason only.  While nothing goes
\* wrong, only keywords, buttons of the home card and answers that are sent past the
\* card add a message, one each: selecting and paging do not, nor do the second and
\* third view of a handler (TELEGRAM_NATIVE_UX_SPEC.md 2.1, 737).  And of the cards
\* in the chat none but the tracked one is there without a restart, or a poster that
\* failed for a photo card, that left it behind: closing such an old card gives up
\* the tracked one for it, and no card more (handler.go renderOrCreate, closeCard).
\* Untracked cards are those whose buttons would render into another message.
CardsAreAccounted ==
  /\ troubles = {} => created <= due
  /\ Orderly /\ (\A p \in Proc : pc[p] \in Ended) => Cardinality(Main \ {active.id}) <= left

\* Between renders that do not overlap, the tracked poster is the one the card
\* shows, even after posters that could not be fetched, deleted cards and restarts:
\* the next Render chooses the right edit (TELEGRAM_NATIVE_UX_SPEC.md 2.2).
TrackedAsShown ==
  (Orderly /\ active.id \in DOMAIN cards /\ \A p \in Proc : pc[p] # "set")
  => cards[active.id] = active.media

=============================================================================
