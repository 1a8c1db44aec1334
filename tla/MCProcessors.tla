---------------------------- MODULE MCProcessors ----------------------------
(* Three parts of a VVM that share no state: the command processors, the     *)
(* notification broker and a request to a query processor.  The variable     *)
(* part names the one that moves.                                            *)
EXTENDS CommandProcessor, N10nBroker, QueryRequest, TLC

CONSTANTS w1, w2, p1, c1, c2, k1, login

OnePartition == [w \in WSIDs |-> p1]

MCSubjectOf == [c \in Channels |-> login]
MCChannelOf == [x \in Clients |-> c1]
MCZeroKey == [k \in Keys |-> k]

VARIABLE part

processorsVars == <<vars, brokerVars, queryVars, part>>

ProcessorsInit ==
    /\ part \in {"commands", "broker", "query"}
    /\ Init /\ BrokerInit /\ QueryInit
    /\ part # "commands" => \A n \in Nodes : cmd[n].ws = w1
    /\ part # "query" => apiV2 /\ ordered

NextCommand == part = "commands" /\ Next /\ UNCHANGED <<brokerVars, queryVars>>
NextBroker  == part = "broker" /\ BrokerNext /\ UNCHANGED <<vars, queryVars>>
NextQuery   == part = "query" /\ QueryNext /\ UNCHANGED <<vars, brokerVars>>

ProcessorsNext == (NextCommand \/ NextBroker \/ NextQuery) /\ UNCHANGED part

(* The fairness of FairSpec, BrokerSpec and QuerySpec, each for its part; no *)
(* action of QueryFairness is enabled before the request is sent.            *)
ProcessorsFairness ==
    /\ \A n \in Nodes : WF_vars(part = "commands" /\ Step(n))
    /\ WF_brokerVars(part = "broker" /\ NotifierStep)
    /\ \A t \in Callers : WF_brokerVars(part = "broker" /\ CallerStep(t))
    /\ QueryFairness

ProcessorsSpec == ProcessorsInit /\ [][ProcessorsNext]_processorsVars /\ ProcessorsFairness
=============================================================================
