------------------------------ MODULE MCClients ------------------------------
(***************************************************************************)
(* Instances for TLC of the clients of an application's backends: message  *)
(* brokers, watches of a registry or a configuration, the registration of  *)
(* the application itself, and chat models.  They share no state; turn is  *)
(* the one that runs.                                                      *)
(***************************************************************************)
EXTENDS Broker, TLC

CONSTANTS
  NoAnswer, s1, s2,
  MaxChanges,  \* changes of a watched source
  Patience,    \* failed beats before eureka registers anew
  MaxRegs,     \* calls of register()
  MaxFaults,   \* failures, in a watch and in a registration
  ChatBodies,  \* plain answers of a chat model
  ChatScripts  \* what a chat model's provider may write

ASSUME ClientsAssumption ==
  Patience \in Nat \ {0} /\ {MaxChanges, MaxRegs, MaxFaults} \subseteq Nat

\* An answer is a list of vectors with the places of their texts; a script is a
\* list of lines, and a provider that closed its stream says nothing more.
IsList(s) == s \in Seq({s[i] : i \in DOMAIN s})
ASSUME ChatAssumption ==
  /\ \A b \in ChatBodies : IsList(b.data) /\ \A i \in DOMAIN b.data : b.data[i].index \in Nat
  /\ \A s \in ChatScripts :
       /\ IsList(s) /\ \A i \in DOMAIN s : IsList(s[i].deltas)
       /\ \A i, j \in DOMAIN s : i < j /\ s[i].kind = "done" => s[j].kind \notin {"data", "broken"}

VARIABLES
  turn,
  watching, truth, events, wire, loop, fetched, known, cache, changed, channel, parked, live, pc, got,
  excused, failures,
  registry, op, part, reg, held, slot, task, misses, heard, signals, flight, listed, lease, deaf, over,
  late, gone, faults,
  config, request, endpoint, call, answer, body, script, at, pending, torn, buffer, done, given, ended

-----------------------------------------------------------------------------
(* Brokers: two subscriptions and one upset where each has a reader of its *)
(* own; one subscription and two upsets for the pumps of mqtt and stomp,   *)
(* two subscriptions to the one filter mqtt knows, and two messages where  *)
(* one frame of stomp's may take the next with it.                         *)
BothSubs == {s1, s2}
AllInstances ==
  [engine : AllEngines \ {"mqtt", "stomp"}, subs : {BothSubs}, msgs : {{1}}, upsets : {1}]
  \cup [engine : {"mqtt", "stomp"}, subs : {{s1}}, msgs : {{1}}, upsets : {2}]
  \cup {[engine |-> "mqtt", subs |-> BothSubs, msgs |-> {1}, upsets |-> 0],
        [engine |-> "stomp", subs |-> {s1}, msgs |-> {1, 2}, upsets |-> 1]}

W == INSTANCE Watch WITH
       Engines <- {"etcd", "zookeeper", "nacos", "consul", "eureka", "kubernetes", "polaris",
                   "servicecomb", "cfg_etcd", "cfg_consul", "cfg_http", "cfg_file", "fallback"},
       engine <- watching, stream <- wire, queue <- channel, faults <- failures

R == INSTANCE Registrar WITH
       Engines <- {"etcd", "zookeeper", "eureka", "consul", "servicecomb", "nacos", "polaris", "kubernetes"},
       engine <- registry

-----------------------------------------------------------------------------
(* The chat client: endpoints of either kind, requests of each, answers in *)
(* and out of order, and scripts with and without a closing line.          *)
Cloud(url, key, org, model) ==
  [cloud |-> TRUE, url |-> url, key |-> key, organization |-> org, host |-> "", port |-> 0, model |-> model]
Local(host, port) ==
  [cloud |-> FALSE, url |-> "", key |-> "", organization |-> "", host |-> host, port |-> port, model |-> "base"]
Datum(index, vector) == [index |-> index, vector |-> vector]
L(kind, deltas, finish) == [kind |-> kind, deltas |-> deltas, finish |-> finish]
Said(d) == L("data", <<d>>, NoAnswer)
AllScripts ==
  {<<Said("he"), Said("llo"), L("data", <<>>, "stop"), L("done", <<>>, NoAnswer)>>,
   <<L("data", <<"one", "two">>, NoAnswer), L("comment", <<>>, NoAnswer), L("data", <<"three">>, "stop")>>,
   <<Said("a"), L("broken", <<>>, NoAnswer), Said("b"), L("done", <<>>, NoAnswer), L("blank", <<>>, NoAnswer)>>, <<>>}
AllBodies ==
  {[choices |-> <<>>, data |-> <<>>],
   [choices |-> <<"first", "second">>, data |-> <<Datum(1, "v1"), Datum(2, "v2"), Datum(0, "v0")>>]}
C == INSTANCE ChatStream WITH
       None <- NoAnswer,
       Configs <- {Cloud("blank", "key", "", "base"), Cloud("slashed", "", "org", ""), Local("blank", 0)},
       Requests <- [kind : {"chat", "stream", "embed"}, model : {NoAnswer, "", "named"}],
       Bodies <- ChatBodies, Scripts <- ChatScripts, got <- given, over <- ended

-----------------------------------------------------------------------------
watchVars == <<watching, truth, events, wire, loop, fetched, known, cache, changed, channel, parked, live,
               pc, got, excused, failures>>
registryVars == <<registry, op, part, reg, held, slot, task, misses, heard, signals, flight, listed, lease,
                  deaf, over, late, gone, faults>>
chatVars == <<config, request, endpoint, call, answer, body, script, at, pending, torn, buffer, done, given, ended>>
allVars == <<turn, vars, watchVars, registryVars, chatVars>>

(* A part whose turn it is not rests in one of its initial states.         *)
MCInit ==
  /\ turn \in {"broker", "watch", "registry", "chat"}
  /\ Init /\ (turn = "broker" \/ inst = [engine |-> "mqtt", subs |-> BothSubs, msgs |-> {1}, upsets |-> 0])
  /\ W!Init /\ (turn = "watch" \/ (watching = "etcd" /\ ~truth[1].here))
  /\ R!Init /\ (turn = "registry" \/ registry = "etcd")
  /\ C!ChatInit
  /\ turn = "chat" \/ (config = Local("blank", 0) /\ request = [kind |-> "chat", model |-> NoAnswer]
                       /\ body.choices = <<>>)

InBroker(step) == turn = "broker" /\ step /\ UNCHANGED <<turn, watchVars, registryVars, chatVars>>
InWatch(step) == turn = "watch" /\ step /\ UNCHANGED <<turn, vars, registryVars, chatVars>>
InRegistry(step) == turn = "registry" /\ step /\ UNCHANGED <<turn, vars, watchVars, chatVars>>
InChat(step) == turn = "chat" /\ step /\ UNCHANGED <<turn, vars, watchVars, registryVars>>

MCNext == InBroker(Next) \/ InWatch(W!Next) \/ InRegistry(R!Next) \/ InChat(C!ChatNext)

(* Tasks, servers and calls that were made go on; in a watch, whose loops  *)
(* have no end, every task and the consumer for itself.                    *)
GoesOnOutside == InBroker(GoesOn) \/ InRegistry(R!GoesOn) \/ InChat(C!ChatNext)
MCSpec ==
  /\ MCInit /\ [][MCNext]_allVars
  /\ WF_allVars(GoesOnOutside \/ InWatch(W!ConsumerGoesOn))
  /\ \A t \in W!Tasks : WF_allVars(InWatch(W!TaskGoesOn(t)))

-----------------------------------------------------------------------------
(* A running keepalive task can be stopped: the registrar's map holds it,  *)
(* unless its key was registered over it.                                  *)
RunningTasksAreMapped ==
  /\ turn = "broker" => TypeOK
  /\ turn = "watch" => W!TypeOK
  /\ turn = "registry" => R!TypeOK /\ R!RunningTasksAreMapped

(* A stream cut at line ends is the model's answer, once and in order, up  *)
(* to its first finish reason or undecodable line (past it nothing is      *)
(* judged), and the i-th vector of an embedding belongs to the i-th text.  *)
StreamReadsBack == turn = "chat" => C!StreamReadsBack /\ C!VectorsBelong

(* A watch never goes back, no handler is looked up for a message once its *)
(* unsubscribe has returned (a call spawned before may run after it), and  *)
(* a disconnected broker refuses to publish.                               *)
NothingOutOfTurn ==
  [][/\ turn = "watch" => W!NeverBackwardsStep
     /\ turn = "broker" => NothingAfterUnsubscribeStep /\ DisconnectedRefusesStep]_allVars

(* What is published while nothing breaks, and no frame is dropped half    *)
(* read, reaches whoever subscribed before; a subscription that is held    *)
(* comes back after every break, and one given up goes for good.           *)
MessagesArrive ==
  []<>(turn = "broker" => AllSeen /\ AllHeldAreBack /\ AllReleasedAreGone)

(* A consumer comes to hold the last change, what a held handle keeps      *)
(* alive is listed, what nobody keeps is not, and a chat call ends.        *)
ListsCatchUp ==
  /\ <>[](/\ turn = "watch" => W!CatchesUpHere
          /\ turn = "registry" => R!HeldIsListed /\ R!GoneIsUnlisted)
  /\ []<>(turn = "chat" => C!CallEnded)

(* "Splits complete `data:` lines out of the buffer into `pending`; a      *)
(* final unterminated line flushes too" (rushwind-ai-openai, lib.rs:428):  *)
(* where the network cuts the body should not matter.                      *)
ChunksDoNotMatter == turn = "chat" => C!ReadsBack
=============================================================================
