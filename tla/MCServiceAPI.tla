------------------------------ MODULE MCServiceAPI ------------------------------
(* The service's answers at three places, one after the other (`focus`): a   *)
(* record read while it is written, calls about tasks and calls about a map, *)
(* and a client that pages while tasks come and go.                          *)
EXTENDS TaskRecord, ServiceAnswers, TLC

CONSTANTS r1, c1, c2

VARIABLE focus

Ask(door, op, ticket, flaws) == [door |-> door, op |-> op, ticket |-> ticket, flaws |-> flaws]

AboutTasks ==
  {Ask("http", "summary", 1, {}), Ask("rpc", "truth", 1, {}),
   Ask("rpc", "sensors", 1, {"channel"}), Ask("http", "export", 2, {}),
   Ask("rpc", "result", 1, {}), Ask("rpc", "cancel", 1, {})}

AboutTheMap ==
  {Ask("http", "metadata", 1, {}), Ask("rpc", "chunk", 1, {}), Ask("rpc", "roadmap", 1, {"fresh"}),
   Ask("http", "image", 1, {}), Ask("http", "remove", 1, {}), Ask("rpc", "remove", 1, {}),
   Ask("http", "submit", 1, {}), Ask("rpc", "build", 1, {})}

MCAsks == AboutTasks \cup AboutTheMap

Asked == {calls[c].ask : c \in {d \in Caller : calls[d].at # "idle"}}

InFocus ==
  /\ focus # "sweep" => \A ticket \in DOMAIN life \ {1, 2} : life[ticket] \notin {"running", "succeeded"}
  /\ focus = "tasks" => Asked \subseteq AboutTasks /\ library = Removed /\ sweep.done
                          /\ Range(sort) \subseteq {"run"}
  /\ focus = "map"   => Asked \subseteq AboutTheMap /\ sweep.done /\ Range(life) \subseteq {"queued"}
  /\ focus = "sweep" => Asked = {} /\ library = Removed /\ flagged = {}
                          /\ \A ticket \in DOMAIN sort \ {1, 2} : sort[ticket] = "run"
                          /\ "succeeded" \notin Range(life)

MCInit ==
  /\ focus \in {"record", "tasks", "map", "sweep"}
  /\ Init /\ AnswersInit
  /\ focus # "record" => plan = [r \in Reader |-> ToDto]

MCNext ==
  /\ UNCHANGED focus
  /\ \/ /\ focus = "record" /\ Next
        /\ UNCHANGED answerVars
     \/ /\ focus # "record" /\ AnswersNext /\ InFocus'
        /\ UNCHANGED vars

MCSpec == MCInit /\ [][MCNext]_<<focus, vars, answerVars>>

Alike == Permutations({c1, c2})
================================================================================
