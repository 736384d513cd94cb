------------------------ MODULE ClientConversations ------------------------
(***************************************************************************)
(* The conversations of an official-client connector: every answer of the  *)
(* Responses API leaves a row with the sealed session it can be continued  *)
(* from, for IdleTime after its last use and AbsoluteTime after the first  *)
(* answer of the conversation.                                             *)
(*                                                                         *)
(* A generation reads the row it continues, writes its new idle time in a  *)
(* statement of its own, has the device answer, and stores the next row;   *)
(* meanwhile other generations continue the same row, the owner deletes    *)
(* it, maintenance runs and the connector is revoked.                      *)
(***************************************************************************)
EXTENDS Naturals

CONSTANTS
  MaxAnswers,   \* bound on the ai_client_responses rows
  Turns,        \* generations in flight
  IdleTime,     \* 24 hours
  AbsoluteTime, \* 7 days
  MaxCTime      \* bound on the clock

ASSUME ConversationsAssumption ==
  /\ IdleTime \in Nat \ {0} /\ AbsoluteTime \in Nat \ {0} /\ MaxCTime \in Nat /\ MaxAnswers \in Nat

Answers == 1 .. MaxAnswers
NoAnswer == 0

VARIABLES
  device,   \* the connector: "active" or "revoked"; one that is offline does not answer
  answer,   \* the rows
  turn,     \* generations: what they read and what they stored, and whether they
            \* continued a conversation in time (history)
  began,    \* when the conversation of a row began (history)
  touched,  \* when a row was stored or last continued (history)
  ctime

conversationVars == <<device, answer, turn, began, touched, ctime>>

NoRow == [status |-> "none", session |-> FALSE, idle |-> 0, absolute |-> 0]
NoTurn == [pc |-> "idle", of |-> NoAnswer, read |-> NoRow, inTime |-> TRUE, made |-> NoAnswer]
Times == 0 .. MaxCTime + AbsoluteTime + IdleTime
Rows == [status : {"none", "active", "expired", "deleted"}, session : BOOLEAN, idle : Times, absolute : Times]

ConversationsTypeOK ==
  /\ device \in {"active", "revoked"}
  /\ answer \in [Answers -> Rows]
  /\ turn \in [Turns -> [pc : {"idle", "read", "running", "answered", "writing"}, of : 0 .. MaxAnswers,
                         read : Rows, inTime : BOOLEAN, made : 0 .. MaxAnswers]]
  /\ began \in [Answers -> Times] /\ touched \in [Answers -> Times]
  /\ ctime \in 0 .. MaxCTime

ConversationsInit ==
  /\ device = "active"
  /\ answer = [r \in Answers |-> NoRow]
  /\ turn = [g \in Turns |-> NoTurn]
  /\ began = [r \in Answers |-> 0] /\ touched = [r \in Answers |-> 0]
  /\ ctime = 0

Earlier(a, b) == IF a < b THEN a ELSE b

-----------------------------------------------------------------------------
(* A generation. *)

\* Without previous_response_id: a conversation begins.
StartConversation(g) ==
  /\ turn[g].pc = "idle" /\ device = "active"
  /\ turn' = [turn EXCEPT ![g] = [NoTurn EXCEPT !.pc = "running"]]
  /\ UNCHANGED <<device, answer, began, touched, ctime>>

\* AIClientResponseForUse, the row.
ReadAnswer(g, r) ==
  /\ turn[g].pc = "idle" /\ device = "active"
  /\ answer[r].status \notin {"none", "deleted"}
  /\ turn' = [turn EXCEPT ![g] = [NoTurn EXCEPT !.pc = "read", !.of = r, !.read = answer[r]]]
  /\ UNCHANGED <<device, answer, began, touched, ctime>>

\* What was read can still be continued.
Continues(g) == LET row == turn[g].read
                IN row.status = "active" /\ row.idle > ctime /\ row.absolute > ctime

\* AIClientResponseForUse, the decision: the row is given more time, or it expires (its
\* session stays in the row).  Neither update touches a row that is no longer active.
AIClientResponseForUse(g) ==
  LET r == turn[g].of
  IN /\ turn[g].pc = "read"
     /\ IF Continues(g)
        THEN /\ answer' = [answer EXCEPT ![r].idle = IF answer[r].status = "active"
                                                     THEN Earlier(ctime + IdleTime, turn[g].read.absolute) ELSE @]
             /\ turn' = [turn EXCEPT ![g].pc = "running", ![g].read = [NoRow EXCEPT !.absolute = turn[g].read.absolute],
                                     ![g].inTime = /\ ctime < began[r] + AbsoluteTime
                                                   /\ ctime < touched[r] + IdleTime]
             /\ touched' = [touched EXCEPT ![r] = ctime]
        ELSE /\ answer' = [answer EXCEPT ![r].status = IF @ = "active" THEN "expired" ELSE @]
             /\ turn' = [turn EXCEPT ![g] = NoTurn]
             /\ UNCHANGED touched
     /\ UNCHANGED <<device, began, ctime>>

\* The device completes the task (modules ClientRisk and ClientTasks say when it may).
DeviceAnswers(g) ==
  /\ turn[g].pc = "running" /\ device = "active"
  /\ turn' = [turn EXCEPT ![g].pc = "answered"]
  /\ UNCHANGED <<device, answer, began, touched, ctime>>

\* Refused by the risk row, failed, or the caller left.
TurnFails(g) ==
  /\ turn[g].pc \in {"read", "running", "answered"}
  /\ turn' = [turn EXCEPT ![g] = NoTurn]
  /\ UNCHANGED <<device, answer, began, touched, ctime>>

\* Mutant: every answer has a full life of its own.
AbsoluteAnew(g) == ctime + AbsoluteTime

\* The end of a conversation is inherited from the row it continues.
Absolute(g) == IF turn[g].of = NoAnswer THEN ctime + AbsoluteTime ELSE turn[g].read.absolute

Fresh(r) == answer[r].status = "none" /\ \A q \in 1 .. r - 1 : answer[q].status # "none"

CreateAIClientResponse(g, r) ==
  /\ turn[g].pc = "answered" /\ Fresh(r)
  /\ answer' = [answer EXCEPT ![r] = [status |-> "active", session |-> TRUE, absolute |-> Absolute(g),
                                      idle |-> Earlier(ctime + IdleTime, Absolute(g))]]
  /\ turn' = [turn EXCEPT ![g].pc = "writing", ![g].made = r]
  /\ began' = [began EXCEPT ![r] = IF turn[g].of = NoAnswer THEN ctime ELSE began[turn[g].of]]
  /\ touched' = [touched EXCEPT ![r] = ctime]
  /\ UNCHANGED <<device, ctime>>

\* DeleteAIClientResponseForOwner, unless the row is deleted.
Deleted(r) == IF answer[r].status = "deleted" THEN answer[r]
              ELSE [answer[r] EXCEPT !.status = "deleted", !.session = FALSE]

\* The caller is given the answer; when that fails, its row goes.
WriteAnswer(g) ==
  /\ turn[g].pc = "writing"
  /\ \E written \in BOOLEAN : answer' = IF written THEN answer
                                        ELSE [answer EXCEPT ![turn[g].made] = Deleted(turn[g].made)]
  /\ turn' = [turn EXCEPT ![g] = NoTurn]
  /\ UNCHANGED <<device, began, touched, ctime>>

-----------------------------------------------------------------------------
(* The owner, maintenance and the device. *)

\* deleteAIClientSession; an online device is also told, with a task of its own.
DeleteAIClientSession(r) ==
  /\ answer[r].status \in {"active", "expired"}
  /\ answer' = [answer EXCEPT ![r] = Deleted(r)]
  /\ UNCHANGED <<device, turn, began, touched, ctime>>

Over(r) == answer[r].status = "active" /\ (answer[r].idle <= ctime \/ answer[r].absolute <= ctime)

\* MaintainAIClientState: what is over expires and loses its session.
MaintainConversations ==
  /\ \E r \in Answers : Over(r)
  /\ answer' = [r \in Answers |-> IF Over(r) THEN [answer[r] EXCEPT !.status = "expired", !.session = FALSE]
                                  ELSE answer[r]]
  /\ UNCHANGED <<device, turn, began, touched, ctime>>

\* RevokeAIClientConnector takes the conversations of the connector along.
RevokeConversations ==
  /\ device # "revoked" /\ device' = "revoked"
  /\ answer' = [r \in Answers |-> IF answer[r].status = "none" THEN answer[r] ELSE Deleted(r)]
  /\ UNCHANGED <<turn, began, touched, ctime>>

ConversationTick ==
  /\ ctime < MaxCTime /\ ctime' = ctime + 1
  /\ UNCHANGED <<device, answer, turn, began, touched>>

ConversationsNext ==
  \/ MaintainConversations \/ RevokeConversations \/ ConversationTick
  \/ \E r \in Answers : DeleteAIClientSession(r)
  \/ \E g \in Turns : \/ StartConversation(g) \/ AIClientResponseForUse(g) \/ DeviceAnswers(g)
                      \/ TurnFails(g) \/ WriteAnswer(g)
                      \/ \E r \in Answers : ReadAnswer(g, r) \/ CreateAIClientResponse(g, r)

ConversationsSpec == ConversationsInit /\ [][ConversationsNext]_conversationVars

-----------------------------------------------------------------------------
(* Properties. *)

\* README.md: a response id is good for 24 idle hours, and for 7 days after the
\* conversation began: no generation continues one beyond either, however long the chain
\* of answers and however many continue it at once (AIClientResponseForUse,
\* handleOfficialClientGatewayGeneration).
ConversationsEnd == \A g \in Turns : turn[g].inTime
=============================================================================
