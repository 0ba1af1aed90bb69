----------------------------- MODULE Channels -----------------------------
(***************************************************************************)
(* The channel adapters over PendingDecisions: e-mail links                *)
(* (src/adapters/email.ts), Telegram's polling loop (telegram.ts), and     *)
(* the webhooks of Telegram, Slack, Discord and WhatsApp.                  *)
(*                                                                         *)
(* They refuse keyed approvers, so every intent has quorum 1 and one press *)
(* of a listed approver decides.  deliver() posts the message, and only    *)
(* awaitResolution(), called after it returned, registers the wait: a      *)
(* press in between finds no entry.                                        *)
(*                                                                         *)
(* Presses travel: through Telegram's queue, which the polling loop        *)
(* fetches in batches, or as webhook requests in any order and possibly    *)
(* more than once.  The loop awaits the edit of a message before its next  *)
(* update; a webhook request does not hold up the others.                  *)
(***************************************************************************)
EXTENDS Countersign, Integers, Sequences

CONSTANTS
  Callers,         \* each delivers at most once and awaits at most once
  Users,           \* who is in the chat: "telegram:42", "slack:U1", ...
  Mailbox,         \* "email:" followed by EmailConfig.to
  NoResolution,
  MaxTimer,
  MaxTime,         \* bound on the clock
  MaxAborts,       \* bound: how often close() is called
  MaxPresses       \* bound, by channel: presses on their way at the same time

VARIABLES
  now, mono, entries, resolved, timers, promises, returned, aborts,
  channel,         \* which adapter this is
  messages,        \* caller -> the message its deliver() posted, and whether
                   \* deliver() returned: [intent, buttons, returned]
  presses,         \* presses on their way, oldest first
  poller,          \* TelegramAdapter.pollLoop: [pc, batch]
  edits,           \* messages whose edit is on its way
  decided,         \* EmailAdapter.decided: intent -> expiry
  told             \* history: intent -> decisions acknowledged as recorded

PD == INSTANCE PendingDecisions WITH Calls <- Callers, ClockSteps <- {}, MaxStep <- 0

pdVars == <<now, mono, entries, resolved, timers, promises, returned, aborts>>
channelVars == <<messages, presses, poller, edits, decided, told>>
vars == <<pdVars, channel, channelVars>>

ASSUME ChannelsAssumption ==
  /\ Users \subseteq Spellings /\ Mailbox \in Spellings
  /\ \A i \in Intents : WellFormed(i) /\ Deliverable(i)
  /\ NoResolution \notin Resolution
  /\ MaxTimer \in Nat \ {0} /\ MaxTime \in Nat /\ MaxAborts \in Nat

Channel == {"email", "poll", "webhook"}
Press == [message: Callers, decision: Decisions, actor: Users]

Off == [pc |-> "off", batch |-> <<>>]

Init ==
  /\ PD!Init
  /\ channel \in Channel
  /\ messages = EmptyMap
  /\ presses = <<>> /\ poller = Off /\ edits = {}
  /\ decided = EmptyMap
  /\ told = [i \in Intents |-> <<>>]

Expired(i) == now >= Deadline[i]

\* TelegramAdapter.closed; the other adapters keep no such flag.
Closed == aborts > 0

-----------------------------------------------------------------------------
(* deliver and awaitResolution                                             *)

\* assertVouchedApprovers, and the quorum check of e-mail.
Refuses(i) == Keyed[i] # {} \/ (channel = "email" /\ Quorum[i] > 1)

(* One call of the channel's API.  When it fails the message may have gone *)
(* out all the same (when it has not, nothing happened).                   *)
Deliver(d, i) ==
  /\ d \notin DOMAIN messages \cup DOMAIN returned
  /\ ~Refuses(i)
  /\ \E ok \in BOOLEAN :
       messages' = MapSet(messages, d, [intent |-> i, buttons |-> TRUE, returned |-> ok])
  /\ UNCHANGED <<pdVars, channel, presses, poller, edits, decided, told>>

\* while (!this.closed && this.pending.size > 0)
LoopGoesOn(live) == ~Closed /\ DOMAIN live # {}

\* Mutant: only the first caller starts the polling loop.
AwaitResolutionFirstPolls(d, i) ==
  /\ d \in DOMAIN messages => messages[d].intent = i /\ messages[d].returned
  /\ \E e \in DOMAIN messages : messages[e].intent = i
  /\ PD!Wait(d, i)
  /\ poller' = IF channel = "poll" /\ returned = EmptyMap /\ LoopGoesOn(entries')
               THEN [Off EXCEPT !.pc = "fetching"] ELSE poller
  /\ UNCHANGED <<channel, messages, presses, edits, decided, told>>

(* By the caller that delivered, or by another one for an intent that was  *)
(* delivered.  In poll mode it starts the loop unless one runs.            *)
AwaitResolution(d, i) ==
  /\ d \in DOMAIN messages => messages[d].intent = i /\ messages[d].returned
  /\ \E e \in DOMAIN messages : messages[e].intent = i
  /\ PD!Wait(d, i)
  /\ poller' = IF channel = "poll" /\ poller.pc = "off" /\ LoopGoesOn(entries')
               THEN [Off EXCEPT !.pc = "fetching"] ELSE poller
  /\ UNCHANGED <<channel, messages, presses, edits, decided, told>>

-----------------------------------------------------------------------------
(* A decision reaches settle                                               *)

\* settle() resolved the intent: quorum is 1, so no decision stays pending.
SettleResolves(i, d, actor) ==
  /\ PD!Settle(i, d, actor)
  /\ i \in DOMAIN resolved'
  /\ told' = [told EXCEPT ![i] = Append(@, d)]

\* settle() answered null: nothing pending, not a listed approver, too late.
SettleNull(i, d, actor) ==
  /\ \/ i \notin DOMAIN entries /\ UNCHANGED pdVars
     \/ /\ i \in DOMAIN entries /\ ~Expired(i)
        /\ Norm[actor] \notin PD!ApproverSet(i)
        /\ UNCHANGED pdVars
     \/ Expired(i) /\ PD!Settle(i, d, actor)
  /\ UNCHANGED told

\* Mutant: a press that settles nothing strips the buttons, too.
HandleStripsAlways(press) ==
  LET i == messages[press.message].intent
  IN  /\ SettleResolves(i, press.decision, press.actor)
           \/ SettleNull(i, press.decision, press.actor)
      /\ edits' = edits \cup {press.message}

(* handleUpdate and the webhook handlers: has() and settle() in one step.  *)
(* Only a decision that resolved the intent edits the message.             *)
Handle(press) ==
  LET i == messages[press.message].intent
  IN  \/ /\ SettleResolves(i, press.decision, press.actor)
         /\ edits' = edits \cup {press.message}
      \/ /\ SettleNull(i, press.decision, press.actor)
         /\ UNCHANGED edits

\* The edit arrives and takes the buttons away, or it fails (WhatsApp has none).
EditMessage(m) ==
  /\ m \in edits
  /\ edits' = edits \ {m}
  /\ messages' \in {messages, [messages EXCEPT ![m].buttons = FALSE]}
  /\ UNCHANGED <<pdVars, channel, presses, poller, decided, told>>

\* Somebody presses a button of a message.
PressButton(m, d, actor) ==
  /\ channel # "email"
  /\ m \in DOMAIN messages /\ messages[m].buttons
  /\ Len(presses) < MaxPresses[channel]
  /\ presses' = Append(presses, [message |-> m, decision |-> d, actor |-> actor])
  /\ UNCHANGED <<pdVars, channel, messages, poller, edits, decided, told>>

\* A webhook request, in any order; the platform may send it again.
Webhook(k) ==
  /\ channel = "webhook"
  /\ Handle(presses[k])
  /\ \/ presses' = SubSeq(presses, 1, k - 1) \o SubSeq(presses, k + 1, Len(presses))
     \/ UNCHANGED presses
  /\ UNCHANGED <<channel, messages, poller, decided>>

-----------------------------------------------------------------------------
(* Telegram's polling loop                                                 *)

\* getUpdates answers with everything from `offset` on.
FetchReturns ==
  /\ poller.pc = "fetching"
  /\ presses # <<>>
  /\ poller' = [pc |-> "handling", batch |-> presses]
  /\ UNCHANGED <<pdVars, channel, messages, presses, edits, decided, told>>

LoopChecks == poller' = IF LoopGoesOn(entries) THEN [Off EXCEPT !.pc = "fetching"] ELSE Off

\* It times out empty, or fails and the loop sleeps.
FetchFails ==
  /\ poller.pc = "fetching"
  /\ LoopChecks
  /\ UNCHANGED <<pdVars, channel, messages, presses, edits, decided, told>>

\* Mutant: `offset` stays behind the update that was handled.
HandleUpdateKeepsOffset ==
  /\ poller.pc = "handling" /\ poller.batch # <<>> /\ edits = {}
  /\ Handle(Head(poller.batch))
  /\ poller' = [poller EXCEPT !.batch = Tail(@)]
  /\ UNCHANGED <<channel, messages, presses, decided>>

\* The next update of the batch; `offset` moves past it first.
HandleUpdate ==
  /\ poller.pc = "handling" /\ poller.batch # <<>> /\ edits = {}
  /\ Handle(Head(poller.batch))
  /\ presses' = Tail(presses)
  /\ poller' = [poller EXCEPT !.batch = Tail(@)]
  /\ UNCHANGED <<channel, messages, decided>>

BatchEnds ==
  /\ poller.pc = "handling" /\ poller.batch = <<>> /\ edits = {}
  /\ LoopChecks
  /\ UNCHANGED <<pdVars, channel, messages, presses, edits, decided, told>>

-----------------------------------------------------------------------------
(* E-mail links                                                            *)

Pruned == MapDelete(decided, {i \in DOMAIN decided : now >= decided[i]})

\* The links of i exist once a mail of it went out; they expire with it.
CheckToken(i) ==
  /\ \E m \in DOMAIN messages : messages[m].intent = i
  /\ ~Expired(i)
  /\ i \notin DOMAIN decided
  /\ i \in DOMAIN entries

\* Mutant: only the link that was followed is dead.
ConfirmBurnsNothing(i, d) ==
  /\ channel = "email"
  /\ CheckToken(i)
  /\ \/ SettleResolves(i, d, Mailbox)
     \/ SettleNull(i, d, Mailbox)
  /\ decided' = Pruned
  /\ UNCHANGED <<channel, messages, presses, poller, edits>>

(* POST /decide of a link that is still usable (opening one decides        *)
(* nothing).  A decision settle() took burns both links of the intent.     *)
Confirm(i, d) ==
  /\ channel = "email"
  /\ CheckToken(i)
  /\ \/ SettleResolves(i, d, Mailbox) /\ decided' = MapSet(Pruned, i, Deadline[i])
     \/ SettleNull(i, d, Mailbox) /\ UNCHANGED decided
  /\ UNCHANGED <<channel, messages, presses, poller, edits>>

-----------------------------------------------------------------------------
(* close, the reaper and the clock                                         *)

Close == PD!AbortAll /\ UNCHANGED <<channel, channelVars>>
Reap(w) == PD!Reap(w) /\ UNCHANGED <<channel, channelVars>>
Tick == PD!Tick /\ UNCHANGED <<channel, channelVars>>

Next ==
  \/ \E d \in Callers, i \in Intents : Deliver(d, i) \/ AwaitResolution(d, i)
  \/ \E m \in Callers : EditMessage(m)
  \/ \E m \in Callers, d \in Decisions, a \in Users : PressButton(m, d, a)
  \/ \E k \in DOMAIN presses : Webhook(k)
  \/ FetchReturns \/ FetchFails \/ HandleUpdate \/ BatchEnds
  \/ \E i \in Intents, d \in Decisions : Confirm(i, d)
  \/ Close
  \/ \E w \in Callers : Reap(w)
  \/ Tick

Spec == Init /\ [][Next]_vars

(* Telegram's API answers or fails: the loop is never stuck in a call, and *)
(* a fetch does not fail for ever while updates are waiting.               *)
FairSpec ==
  /\ Spec
  /\ WF_vars(FetchReturns) /\ WF_vars(HandleUpdate) /\ WF_vars(BatchEnds)
  /\ \A m \in Callers : WF_vars(EditMessage(m))

-----------------------------------------------------------------------------
(* Properties                                                              *)

TypeOK ==
  /\ PD!TypeOK
  /\ channel \in Channel
  /\ DOMAIN messages \subseteq Callers
  /\ \A k \in 1..Len(presses) :
       presses[k] \in Press /\ presses[k].message \in DOMAIN messages
  /\ poller.pc \in {"off", "fetching", "handling"}
  /\ poller.pc # "off" => channel = "poll"
  /\ poller.batch = SubSeq(presses, 1, Len(poller.batch))
  /\ edits \subseteq DOMAIN messages
  /\ DOMAIN decided \subseteq Intents
  /\ told \in [Intents -> Seq(Decisions)]

(* An intent is decided once: at most one press or link is ever told that  *)
(* it was recorded, however often it is delivered, pressed, redelivered or *)
(* awaited again.  A closed chat adapter forgets (a later wait may be      *)
(* decided afresh); the links of an e-mail stay dead even then, because    *)
(* `decided` outlives the tombstones.                                      *)
DecidedOnce ==
  \A i \in Intents : ~Closed \/ channel = "email" => Len(told[i]) <= 1

(* Nobody is locked out of an open request: while an intent waits inside   *)
(* its window, no press of a stranger, of somebody too early for the wait, *)
(* or of another message has taken its buttons away, or burned its links.  *)
DecidableWhileOpen ==
  \A i \in DOMAIN entries :
    ~Closed /\ ~Expired(i) =>
      /\ i \notin DOMAIN decided
      /\ \A m \in DOMAIN messages : messages[m].intent = i => messages[m].buttons

\* A press on a message of i by a listed approver is on its way.
VotePending(i) ==
  \E k \in 1..Len(presses) :
    /\ messages[presses[k].message].intent = i
    /\ Norm[presses[k].actor] \in Vouched[i]

(* No vote is stuck: a listed approver's press that waits at Telegram      *)
(* while its intent is pending is decided upon, unless the deadline passes *)
(* or the adapter closes first, whatever else the loop has to handle and   *)
(* however often it stopped and was started again.                         *)
VotesAreCounted ==
  \A i \in Intents :
    channel = "poll" /\ i \in DOMAIN entries /\ VotePending(i)
      ~> told[i] # <<>> \/ Expired(i) \/ Closed
=============================================================================
