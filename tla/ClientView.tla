----------------------------- MODULE ClientView -----------------------------
(***************************************************************************)
(* The demo client (app.js) and the rooms of its socket: what the screen   *)
(* shows of a conversation while the user goes from one to another, the    *)
(* requests of openConversation overtake each other, messages arrive live  *)
(* and the connection is lost.                                             *)
(*                                                                         *)
(* Message n of conversation c is <<c, n>>; it is emitted to the room of c *)
(* some time after its commit, which is the subject of Delivery.           *)
(***************************************************************************)
EXTENDS Naturals, FiniteSets

CONSTANTS
  Convs,        \* conversations of the user
  PageLimit50,  \* limit=50 of the list
  MaxSent,      \* bound: messages, of all conversations
  MaxOpens,     \* bound: calls of openConversation
  MaxCuts       \* bound: lost connections and refused joins

ASSUME ClientViewAssumption ==
  /\ PageLimit50 \in Nat \ {0} /\ MaxSent \in Nat
  /\ MaxOpens \in Nat /\ MaxCuts \in Nat

Opens == 1..MaxOpens
AllMessages == Convs \X (1..MaxSent)

VARIABLES
  sent,      \* sent[c]: the last sequence committed
  toEmit,    \* messages not yet emitted to their room
  connected, \* the socket is connected
  rooms,     \* conversations whose room it is in
  joins,     \* joins on their way to the gateway
  current,   \* state.currentConversation, {} if none
  opens,     \* calls of openConversation so far
  opening,   \* opening[o]: none, list (in its two GETs), answered, done
  opened,    \* opened[o]: its argument, {} if none
  page,      \* page[o]: what its second GET has read, {} before
  inbox,     \* live messages on their way to the client
  screen,    \* the messages in the element #messages
  rendered,  \* the list of the last call has been rendered
  barred,    \* conversations whose room was lost with the connection, or whose join
             \* was lost or refused, and that have not been joined since
  cuts,      \* lost connections and refused joins so far
  missed,    \* emitted while a join was under way or the conversation barred,
             \* or lost with the connection
  wiped      \* taken off the screen by a list that does not have them

serverVars == <<sent, toEmit>>
socketVars == <<connected, rooms, joins, inbox>>
openVars   == <<current, opens, opening, opened, page>>
screenVars == <<screen, rendered>>
clientGhost == <<missed, wiped>>
clientViewVars == <<serverVars, socketVars, openVars, screenVars, barred, cuts, clientGhost>>

ClientViewInit ==
  /\ sent = [c \in Convs |-> 0] /\ toEmit = {}
  /\ connected = TRUE /\ rooms = {} /\ joins = {} /\ inbox = {}
  /\ current = {} /\ opens = 0
  /\ opening = [o \in Opens |-> "none"]
  /\ opened = [o \in Opens |-> {}] /\ page = [o \in Opens |-> {}]
  /\ screen = {} /\ rendered = FALSE /\ barred = {}
  /\ cuts = 0 /\ missed = {} /\ wiped = {}

-----------------------------------------------------------------------------
(* The server *)

SendTo(c) ==
  /\ Cardinality({m \in AllMessages : m[2] <= sent[m[1]]}) < MaxSent
  /\ sent' = [sent EXCEPT ![c] = @ + 1]
  /\ toEmit' = toEmit \cup {<<c, sent[c] + 1>>}
  /\ UNCHANGED <<socketVars, openVars, screenVars, barred, cuts, clientGhost>>

\* io.to(room).emit: whoever is in the room at that moment.  Who is
\* not misses it; why, if the conversation has been opened, is on record.
EmitToRoom(m) ==
  /\ m \in toEmit
  /\ toEmit' = toEmit \ {m}
  /\ inbox' = IF m[1] \in rooms THEN inbox \cup {m} ELSE inbox
  /\ missed' = IF m[1] \notin rooms /\ m[1] \in joins \cup barred
                 THEN missed \cup {m} ELSE missed
  /\ UNCHANGED <<sent, connected, rooms, joins, openVars, screenVars, barred, cuts, wiped>>

\* onJoin: the access is checked (assertCanAccess), the room joined.
Join(c) ==
  /\ connected /\ c \in joins
  /\ joins' = joins \ {c}
  /\ rooms' = rooms \cup {c}
  /\ barred' = barred \ {c}
  /\ UNCHANGED <<serverVars, connected, inbox, openVars, screenVars, cuts, clientGhost>>

\* rate_limited, or the access check failed: ack.ok is false, the user is
\* alerted and nothing is tried again.
RefuseJoin(c) ==
  /\ connected /\ c \in joins /\ cuts < MaxCuts
  /\ cuts' = cuts + 1
  /\ joins' = joins \ {c}
  /\ barred' = IF c \in rooms THEN barred ELSE barred \cup {c}
  /\ UNCHANGED <<serverVars, connected, rooms, inbox, openVars, screenVars, clientGhost>>

\* The connection is lost: the rooms of the socket go with it, and what is on
\* its way.
Disconnect ==
  /\ connected /\ cuts < MaxCuts
  /\ cuts' = cuts + 1
  /\ connected' = FALSE /\ rooms' = {} /\ joins' = {} /\ inbox' = {}
  /\ barred' = barred \cup rooms \cup joins
  /\ missed' = missed \cup inbox
  /\ UNCHANGED <<serverVars, openVars, screenVars, wiped>>

\* on('connect') sets the status: no room is joined again.  Joins emitted
\* meanwhile are sent now.
Reconnect ==
  /\ ~connected
  /\ connected' = TRUE
  /\ UNCHANGED <<serverVars, rooms, joins, inbox, openVars, screenVars, barred, cuts,
                 clientGhost>>

-----------------------------------------------------------------------------
(* openConversation *)

\* Mutant: the join is sent for a socket that is connected for the first time
\* only.
JoinFirst(c) == IF opens = 0 THEN joins \cup {c} ELSE joins

\* state.socket?.emit('conversation.join')
JoinRoom(c) == joins \cup {c}

\* The conversation is current at once; its messages come two requests later,
\* of which the first only fills the header.
OpenConversation(c) ==
  /\ opens < MaxOpens
  /\ opens' = opens + 1
  /\ current' = {c} /\ rendered' = FALSE
  /\ joins' = JoinRoom(c)
  /\ opening' = [opening EXCEPT ![opens'] = "list"]
  /\ opened' = [opened EXCEPT ![opens'] = {c}]
  /\ UNCHANGED <<serverVars, connected, rooms, inbox, page, screen, barred, cuts, clientGhost>>

\* The newest messages of c.
Latest(c) == {<<c, n>> : n \in {k \in 1..sent[c] : k + PageLimit50 > sent[c]}}

\* The SELECT of GET /conversations/:id/messages?limit=50.
ListLatest(o) ==
  /\ opening[o] = "list"
  /\ page' = [page EXCEPT ![o] = UNION {Latest(c) : c \in opened[o]}]
  /\ opening' = [opening EXCEPT ![o] = "answered"]
  /\ UNCHANGED <<serverVars, socketVars, current, opens, opened, screenVars, barred, cuts,
                 clientGhost>>

\* Mutant: renderMessage has lost its test of the conversation.
RenderedAll(S) == S

\* if (state.currentConversation !== m.conversationId) return;
Rendered(S) == {m \in S : m[1] \in current}

\* Its answer: the screen is emptied whatever conversation is current by now,
\* then the messages of the page are rendered.  The POST of the read cursor
\* that follows is MarkRead of Messaging.
ShowPage(o) ==
  /\ opening[o] = "answered"
  /\ screen' = Rendered(page[o])
  /\ rendered' = (rendered \/ o = opens)
  /\ wiped' = (wiped \cup screen) \ screen'
  /\ opening' = [opening EXCEPT ![o] = "done"]
  /\ UNCHANGED <<serverVars, socketVars, current, opens, opened, page, barred, cuts, missed>>

\* One of the two GETs fails: the call ends there.
OpenFails(o) ==
  /\ opening[o] = "list" /\ cuts < MaxCuts
  /\ cuts' = cuts + 1
  /\ opening' = [opening EXCEPT ![o] = "done"]
  /\ UNCHANGED <<serverVars, socketVars, current, opens, opened, page, screenVars, barred,
                 clientGhost>>

\* on('message.created')
ReceiveLive(m) ==
  /\ m \in inbox
  /\ inbox' = inbox \ {m}
  /\ screen' = screen \cup Rendered({m})
  /\ UNCHANGED <<serverVars, connected, rooms, joins, openVars, rendered, barred, cuts, clientGhost>>

-----------------------------------------------------------------------------

ClientViewNext ==
  \/ Disconnect \/ Reconnect
  \/ \E c \in Convs : SendTo(c) \/ Join(c) \/ RefuseJoin(c) \/ OpenConversation(c)
  \/ \E o \in Opens : ListLatest(o) \/ ShowPage(o) \/ OpenFails(o)
  \/ \E m \in toEmit : EmitToRoom(m)
  \/ \E m \in inbox : ReceiveLive(m)

ClientViewSpec == ClientViewInit /\ [][ClientViewNext]_clientViewVars

ClientViewTypeOK ==
  /\ sent \in [Convs -> 0..MaxSent]
  /\ toEmit \cup inbox \cup screen \cup missed \cup wiped
       \subseteq {m \in AllMessages : m[2] <= sent[m[1]]}
  /\ connected \in BOOLEAN /\ rooms \cup joins \subseteq Convs
  /\ (rooms # {} => connected)
  /\ current \in SUBSET Convs /\ Cardinality(current) <= 1
  /\ opens \in 0..MaxOpens
  /\ opening \in [Opens -> {"none", "list", "answered", "done"}]
  /\ opened \in [Opens -> SUBSET Convs] /\ page \in [Opens -> SUBSET AllMessages]
  /\ rendered \in BOOLEAN /\ barred \subseteq Convs \ rooms /\ cuts \in 0..MaxCuts

\* renderMessage, "state.currentConversation !== m.conversationId": once the
\* list of the conversation the user is in has been rendered, the screen shows
\* no message of another one, whatever answers and live messages come late.
ViewOfOneConversation == rendered => \A m \in screen : m[1] \in current

\* A conversation that has come to rest shows every message that was emitted,
\* but for those older than its page, those the room did not bring because the
\* connection, a join or a refusal came between, and those a list that was
\* read before them has wiped off the screen.
MissingExplained ==
  \A c \in Convs :
    (/\ current = {c} /\ rendered /\ {m \in inbox : m[1] = c} = {}
     /\ \A o \in Opens : opening[o] \in {"none", "done"})
    => \A m \in (AllMessages \ (toEmit \cup screen \cup missed \cup wiped)) :
         (m[1] = c /\ m[2] <= sent[c]) => \A k \in page[opens] : m[2] < k[2]
=============================================================================
