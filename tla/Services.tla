------------------------------ MODULE Services ------------------------------
(***************************************************************************)
(* Components that share no row with each other, so that one of them at a  *)
(* time is enough: each has its scene, Memory one for preferences and one  *)
(* for episodes, Chat one for two conversations on the screen and one for  *)
(* what may happen to one (these differ in MCServices only, in what is     *)
(* bounded).  Confirmation keeps its state in variables of its own, the    *)
(* others in as many parts as they need.                                   *)
(***************************************************************************)
EXTENDS Confirmation

CONSTANTS
    Thread,                                                        \* requests at a time
    Resident, Staff, Params, OtherHouse, Key, Token, Approval, NoApproval, Issued,
    MaxTickets, MaxVersion,                                        \* Consultation
    Content, Preference, NoPreference, Source, Api, Candidate, ApiExpiry, MaxRows, \* Memory
    Updater, NoVector,                                             \* MemoryIndex
    Streamed, Capacity, Limit, MaxProgress,                        \* Stream
    FailureLimit, Window, LockTime, MaxTime,                       \* LoginGuard
    Message, ReadKey, MaxReads,                                    \* MessageCenter
    Tab, Conversation, House, Action, NoAction, Said, Topic, NoHead, NoHouse,
    MaxRequests,                                                   \* Chat
    Report, ReportKey, Receipt, TokenOf, Duty, MaxReports          \* Handover

VARIABLES scene, part1, part2, part3, part4, part5, part6, part7, part8

Cs == INSTANCE Consultation WITH
        ticket <- part1, record <- part2, spent <- part3, audit <- part4, request <- part5
Mem == INSTANCE Memory WITH Key <- Preference, NoKey <- NoPreference,
        row <- part1, recent <- part2, request <- part3
Ix == INSTANCE MemoryIndex WITH Text <- Content,
        content <- part1, deleted <- part2, vector <- part3, embedding <- part4, overlap <- part5
St == INSTANCE Stream WITH
        accepting <- part1, slots <- part2, drain <- part3, producer <- part4, buffer <- part5,
        reader <- part6, got <- part7
Lg == INSTANCE LoginGuard WITH Attempt <- Thread,
        now <- part1, attempts <- part2, locker <- part3, attempt <- part4, told <- part5
Ms == INSTANCE MessageCenter WITH Reader <- Thread,
        readAt <- part1, inbox <- part2, claim <- part3, reading <- part4, reads <- part5,
        told <- part6
Ct == INSTANCE Chat WITH Text <- Said, Kind <- Topic,
        status <- part1, head <- part2, bound <- part3, raised <- part4, page <- part5,
        requests <- part6, asked <- part7, written <- part8
Ho == INSTANCE Handover WITH Caller <- Thread,
        onDuty <- part1, tickets <- part2, records <- part3, consumed <- part4,
        handing <- part5, told <- part6

ASSUME ServicesAssumption ==
    /\ Cs!ConsultationAssumption /\ Mem!MemoryAssumption /\ Ix!IndexAssumption
    /\ St!StreamAssumption /\ Lg!LoginAssumption /\ Ct!ChatAssumption
    /\ Ho!HandoverAssumption

-----------------------------------------------------------------------------
\* The variables that a scene leaves alone.
Nothing == "nothing"
No8 == part8 = Nothing
No7 == part7 = Nothing /\ No8
No6 == part6 = Nothing /\ No7
No5 == part5 = Nothing /\ No6
No4 == part4 = Nothing /\ No5
No1 == part1 = Nothing /\ part2 = Nothing /\ part3 = Nothing /\ No4
Keep8 == UNCHANGED part8
Keep7 == UNCHANGED <<part7, part8>>
Keep6 == UNCHANGED <<part6, part7, part8>>
Keep5 == UNCHANGED <<part5, part6, part7, part8>>
Keep4 == UNCHANGED <<part4, part5, part6, part7, part8>>
Keep1 == UNCHANGED <<part1, part2, part3>> /\ Keep4

ServicesInit ==
    /\ ConfirmInit
    /\ \/ scene = "consultation" /\ Cs!Init /\ No6
       \/ scene \in {"preference", "episode"} /\ Mem!Init /\ No4
       \/ scene = "index" /\ Ix!IndexInit /\ No6
       \/ scene = "stream" /\ St!StreamInit /\ No8
       \/ scene = "login" /\ Lg!LoginInit /\ No6
       \/ scene = "messages" /\ Ms!MessageInit /\ No7
       \/ scene = "confirmation" /\ No1
       \/ scene \in {"screens", "dialogue"} /\ Ct!ChatInit
       \/ scene = "handover" /\ Ho!HandoverInit /\ No7

InParts ==
    \/ scene = "consultation" /\ Cs!Next /\ Keep6
    \/ scene \in {"preference", "episode"} /\ Mem!Next /\ Keep4
    \/ scene = "index" /\ Ix!IndexNext /\ Keep6
    \/ scene = "stream" /\ St!StreamNext /\ Keep8
    \/ scene = "login" /\ Lg!LoginNext /\ Keep6
    \/ scene = "messages" /\ Ms!MessageNext /\ Keep7
    \/ scene \in {"screens", "dialogue"} /\ Ct!ChatNext
    \/ scene = "handover" /\ Ho!HandoverNext /\ Keep7

ServicesNext ==
    /\ UNCHANGED scene
    /\ \/ InParts /\ UNCHANGED confirmVars
       \/ scene = "confirmation" /\ ConfirmNext /\ Keep1

servicesVars ==
    <<scene, part1, part2, part3, part4, part5, part6, part7, part8, confirmVars>>

ServicesSpec == ServicesInit /\ [][ServicesNext]_servicesVars

-----------------------------------------------------------------------------
(* The properties of the components, each in its scenes; that of           *)
(* Confirmation is its own.                                                *)

(* A token makes the one ticket it was consumed for                        *)
(* (ConsultationService.create_draft).                                     *)
ConsumedWithItsTicket == scene = "consultation" => Cs!ConsumedWithItsTicket
(* The audit of a consultation is a path its ticket went, and the answer   *)
(* that closes it is to the last appeal (ConsultationService._transition). *)
AppealsAreHeard == scene = "consultation" => Cs!AuditIsThePath /\ Cs!ClosedOnTheLastAppeal
(* A statement has one active record, a preference that was only ever      *)
(* corrected has one, and what was superseded has one successor            *)
(* (MemoryRecordStore._exact_active, _active_conflict).                    *)
StatementsHaveOneRecord ==
    scene \in {"preference", "episode"} =>
        Mem!StatedOnce /\ Mem!CorrectedIsOne /\ Mem!SupersessionIsAChain
(* A correction is what is retrieved once it is merged                     *)
(* (MemoryRecordStore.persist_candidate).                                  *)
CorrectionTakesEffect ==
    [][scene = "preference" => \A t \in Thread : Mem!TakesEffect(t)]_part3
(* An embedding is of the content, unless an update was overtaken          *)
(* (AgentMemoryService.update_memory).                                     *)
StaleOnlyWhenOvertaken == scene = "index" => Ix!StaleOnlyWhenOvertaken
(* A client that reads on is told how its turn ended, and a drain that     *)
(* reports success left no turn running (stream_delivery.put,              *)
(* StreamExecutionManager.drain).                                          *)
StreamsAreToldAndDrained == scene = "stream" => St!ToldAsItEnded /\ St!DrainMeansIdle
(* No failure is lost from a window, and none is told past the limit but   *)
(* to attempts that were under way together (LoginGuard.record_failure).   *)
FailuresAreBounded == scene = "login" => Lg!FailuresAreBounded
(* A key is answered alike, however often and at once it is used           *)
(* (PlatformIdempotencyService.claim).                                     *)
KeyHasOneAnswer == scene = "messages" => Ms!KeyHasOneAnswer
(* What is executed is what the user saw, once (recovery.restore,          *)
(* HomePage.resolveConfirmation).                                          *)
ConfirmedAsShown == scene \in {"screens", "dialogue"} => Ct!ConfirmedAsShown
(* A repair rests on what was said about its house                         *)
(* (domain_continuation._build_continuation).                              *)
SlotsStayInTheirHouse == scene \in {"screens", "dialogue"} => Ct!SlotsStayInTheirHouse
(* A confirmed high-risk report is one ticket (_hand_over_high_risk).      *)
HandedOverOnce == scene = "handover" => Ho!HandedOverOnce
=============================================================================
