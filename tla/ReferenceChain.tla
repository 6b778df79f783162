---------------------------- MODULE ReferenceChain ----------------------------
(***************************************************************************)
(* The controller's tracking state, its activation requests and its cache  *)
(* of the active reference, composed with the generator node.  Entering    *)
(* the tracking state clears the cache and asks the generator for a        *)
(* reference of its own; meanwhile the generator goes on publishing the    *)
(* one it flies, and the cache takes what arrives, from whomever it is.    *)
(* The two have a validity each: a reference the generator flies may be    *)
(* one the cache refuses, and then it keeps what it holds.                 *)
(*                                                                         *)
(* Three topics join the two processes: requests, active analytic and      *)
(* active sampled references, each a queue that drops its oldest message   *)
(* when it is full.  Nothing orders two topics.  With prompt turns a       *)
(* message is delivered within Delay, before the next publication.         *)
(***************************************************************************)
EXTENDS ReferenceNode

CONSTANTS
  Queue,        \* queue_size of the topics
  Prompt,       \* whether turns, deadlines and messages keep up with time
  Delay,        \* how long a message may be under way, when prompt
  Lasting,      \* nmpc/reference_duration
  Operators,    \* the requests others may make of the generator
  Refused,      \* the references the generator accepts and the cache refuses
  MaxEntries    \* bound of the model

(* The request of the tracking state: Custom1State::onEnter.               *)
Activation == [kind |-> "Analytic", start |-> 0, duration |-> Lasting]

ASSUME ChainAssumption ==
  /\ {Queue, Delay, MaxEntries} \subseteq Nat \ {0} /\ Prompt \in BOOLEAN
  /\ Operators \cup {Activation} \subseteq Requests /\ Refused \subseteq Nat
  /\ Prompt => Delay < ActivePeriod
  /\ \A r \in Operators \cup {Activation} :   \* it is published twice before its end
       r.duration > 0 => LeadTime + r.duration + ReferenceGrace > ActivePeriod

VARIABLES
  topics,     \* the messages under way: requests, and references by kind
  cache,      \* ActiveTrajectoryCache: the reference held, or None
  tracking,   \* whether Custom1 is active
  entry,      \* how often it has been entered: the activation's request_id
  entered,    \* when it was entered last
  answer,     \* the number its request was accepted under, or 0
  withdrawn,  \* whether the generator was reset since
  dropped,    \* whether a full queue dropped a reference since
  refused,    \* whether the cache refused the answer since, or a later reference
  taken       \* when the generator took up the reference it flies

controller == <<cache, tracking, entry, entered, answer>>
past == <<withdrawn, dropped, refused, taken>>
chainVars == <<vars, topics, controller, past>>
-----------------------------------------------------------------------------
Put(queue, message) ==
  IF Len(queue) < Queue THEN Append(queue, message) ELSE Append(Tail(queue), message)
Message(content) == [content |-> content, sent |-> now]

(* Custom1State::onEnter, and the effect it emits.                         *)
Cleared == None
Enter ==
  /\ ~tracking /\ entry < MaxEntries
  /\ tracking' = TRUE /\ entry' = entry + 1 /\ entered' = now
  /\ cache' = Cleared /\ answer' = 0 /\ withdrawn' = FALSE
  /\ dropped' = FALSE /\ refused' = FALSE
  /\ topics' = [topics EXCEPT !.Requests = Put(@, Message(entry'))]
  /\ UNCHANGED <<vars, taken>>

(* It is left at the end of the reference it holds, or for other reasons.  *)
Leave ==
  /\ tracking /\ tracking' = FALSE
  /\ UNCHANGED <<vars, topics, cache, entry, entered, answer, past>>

(* The generator's callbacks and its turn, and its output consumer.        *)
OnActivation ==
  /\ topics.Requests # <<>>
  /\ OnRequest(Activation)
  /\ topics' = [topics EXCEPT !.Requests = Tail(@)]
  /\ answer' = IF Head(topics.Requests).content = entry THEN accepted' ELSE answer
  /\ UNCHANGED <<cache, tracking, entry, entered, past>>
OnOperator ==   \* the bound leaves room for the activations to come
  /\ accepted + Len(topics.Requests) + MaxEntries - entry < MaxAccepted
  /\ \E request \in Operators : OnRequest(request)
  /\ UNCHANGED <<topics, controller, past>>
ChainReset ==
  /\ OnReset /\ withdrawn' = TRUE
  /\ UNCHANGED <<topics, controller, dropped, refused, taken>>

Published == ToSet(effects') \cap Kinds
Sent ==
  [topic \in DOMAIN topics |->
     IF topic \in Published
     THEN Put(topics[topic], Message(rt'.active)) ELSE topics[topic]]
ChainTurn ==
  /\ Turn /\ topics' = Sent
  /\ dropped' = (dropped \/ \E topic \in Published : Len(topics[topic]) = Queue)
  /\ taken' = IF rt'.active # rt.active THEN now ELSE taken
  /\ UNCHANGED <<controller, withdrawn, refused>>

(* activeAnalyticCallback, activeSampledCallback: the cache takes what is  *)
(* valid by its own limits, in whatever state the controller is.  Besides  *)
(* what the generator refuses, it refuses too little thrust and a singular *)
(* yaw; the callback then returns, and what was held stays.  The verdict   *)
(* on a reference is the same whenever it is published again.              *)
CacheTakes(reference) == reference.id \notin Refused
Arrives(topic) ==
  /\ topics[topic] # <<>>
  /\ topics' = [topics EXCEPT ![topic] = Tail(@)]
  /\ LET content == Head(topics[topic]).content
     IN  /\ cache' = IF CacheTakes(content) THEN content ELSE cache
         /\ refused' = (refused \/ (answer # 0 /\ content.id >= answer /\ ~CacheTakes(content)))
  /\ UNCHANGED <<vars, tracking, entry, entered, answer, withdrawn, dropped, taken>>

ChainDeadline == OnDeadline /\ UNCHANGED <<topics, controller, past>>
ChainTick ==
  /\ Prompt =>
       /\ ~turn /\ ~DeadlinePassed
       /\ \A topic \in DOMAIN topics :
            \A message \in ToSet(topics[topic]) : now - message.sent < Delay
  /\ Tick /\ UNCHANGED <<topics, controller, past>>

ChainInit ==
  /\ Init
  /\ topics = [Requests |-> <<>>, Analytic |-> <<>>, Sampled |-> <<>>]
  /\ cache = None /\ tracking = FALSE /\ entry = 0 /\ entered = Never
  /\ answer = 0 /\ withdrawn = FALSE /\ dropped = FALSE /\ refused = FALSE
  /\ taken = Never

ChainNext ==
  \/ Enter \/ Leave \/ OnActivation \/ OnOperator \/ ChainReset
  \/ ChainTurn \/ (\E kind \in Kinds : Arrives(kind)) \/ ChainDeadline \/ ChainTick
ChainSpec == ChainInit /\ [][ChainNext]_chainVars

(* Both processes run their callbacks and turns, and messages arrive;      *)
(* nothing is asked of the operator, the resets or the tracking state.     *)
FairChainSpec ==
  /\ ChainSpec
  /\ WF_chainVars(OnActivation) /\ WF_chainVars(ChainTurn)
  /\ \A kind \in Kinds : WF_chainVars(Arrives(kind))
-----------------------------------------------------------------------------
(* The reference held is the one made for this entry, or a later one.      *)
Answered == answer # 0 /\ cache.id >= answer

(* A reference of an earlier entry, published while the request for a new  *)
(* one is under way, may be flown after a re-entry, and on two topics it   *)
(* may even overtake the answer; but not for long.  Once the request has   *)
(* had time to arrive, and then what was sent before it was answered, one  *)
(* more publication brings the reference of this entry or a later one,     *)
(* unless requests come so fast that queues overflow, or the cache refuses *)
(* one of these: then nothing takes the place of the stale one, and it may *)
(* be flown to its end.                                                    *)
StaleIsBrief ==
  (Prompt /\ tracking /\ ~withdrawn /\ ~dropped /\ ~refused
     /\ now - entered > ActivePeriod + 1 + 3 * Delay) => Answered

(* However long the messages take and whatever full queues drop, a         *)
(* tracking state that stays comes to fly the reference it asked for, or a *)
(* later one, unless the cache refuses it.  (With others' requests on the  *)
(* same topic: overtaking on another one takes time to mend, which         *)
(* StaleIsBrief bounds.)                                                   *)
ReferenceComes ==
  (tracking /\ ~withdrawn) ~> (Answered \/ ~tracking \/ withdrawn \/ refused)

(* Publishing again and again brings the two together: whatever order the  *)
(* topics deliver in, whatever was dropped or cleared, the controller      *)
(* holds the reference the generator flies one period after the later of   *)
(* its taking up and the entry, and the time messages take -- if it is one *)
(* the cache takes, and then whatever the cache refused before it.         *)
CacheFollows ==
  Prompt /\ rt.state = "Active" /\ CacheTakes(rt.active)
    /\ now - Max({taken, entered}) > ActivePeriod + 1 + 2 * Delay
  => cache = rt.active
=============================================================================
