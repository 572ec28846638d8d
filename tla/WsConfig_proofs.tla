-------------------------- MODULE WsConfig_proofs --------------------------
(***************************************************************************)
(* What holds of WsConfig for any configuration and any URIs: the types,   *)
(* that nothing is lost, that the transport of a client is one, and what   *)
(* the configuration of a new client comes to.                             *)
(***************************************************************************)
EXTENDS WsConfig, TLAPS

-----------------------------------------------------------------------------
(* The plans                                                               *)

\* The steps of init and set_uri, and those of start.
Steps ==
  ({"take"} \X Released) \cup ({"uri", "config", "default"} \X Options)
    \cup ({"check", "user_info", "free", "auth"} \X {"", "uri", "names"})
StartSteps == {"list", "tcp", "ws", "task"} \X {""}

LEMMA TakeStep == \A r \in Released : <<"take", r>> \in Steps
BY DEF Steps

LEMMA OptionStep ==
  \A k \in {"uri", "config", "default"}, o \in Options : <<k, o>> \in Steps
BY DEF Steps

LEMMA OtherStep ==
  \A k \in {"check", "user_info", "free", "auth"}, w \in {"", "uri", "names"} : <<k, w>> \in Steps
BY DEF Steps

LEMMA StartStep == \A k \in {"list", "tcp", "ws", "task"} : <<k, "">> \in StartSteps
BY DEF StartSteps

LEMMA OptionNames ==
  {"scheme", "host", "path", "port", "password", "username", "uri", "subprotocol",
   "user_agent", "headers"} \subseteq Options
BY DEF Options, Parts

\* Tuples of steps are sequences of steps.
LEMMA Four ==
  ASSUME NEW S, NEW a \in S, NEW b \in S, NEW c \in S, NEW d \in S
  PROVE  <<a, b, c, d>> \in Seq(S) /\ Len(<<a, b, c, d>>) = 4
OBVIOUS

LEMMA Six ==
  ASSUME NEW S, NEW a \in S, NEW b \in S, NEW c \in S, NEW d \in S, NEW e \in S, NEW f \in S
  PROVE  <<a, b, c, d, e, f>> \in Seq(S) /\ Len(<<a, b, c, d, e, f>>) = 6
OBVIOUS

LEMMA Nine ==
  ASSUME NEW S, NEW a \in S, NEW b \in S, NEW c \in S, NEW d \in S, NEW e \in S,
         NEW f \in S, NEW g \in S, NEW h \in S, NEW i \in S
  PROVE  /\ <<a, b, c, d, e, f, g, h, i>> \in Seq(S)
         /\ Len(<<a, b, c, d, e, f, g, h, i>>) = 9
OBVIOUS

LEMMA Ten ==
  ASSUME NEW S, NEW a \in S, NEW b \in S, NEW c \in S, NEW d \in S, NEW e \in S,
         NEW f \in S, NEW g \in S, NEW h \in S, NEW i \in S, NEW j \in S
  PROVE  /\ <<a, b, c, d, e, f, g, h, i, j>> \in Seq(S)
         /\ Len(<<a, b, c, d, e, f, g, h, i, j>>) = 10
OBVIOUS

\* A sequence of steps after another is one.
LEMMA Concat ==
  ASSUME NEW S, NEW p \in Seq(S), NEW q \in Seq(S)
  PROVE  p \o q \in Seq(S) /\ Len(p \o q) = Len(p) + Len(q)
OBVIOUS

\* set_uri is a plan of such steps.
LEMMA UriPlanFits == UriPlan \in Seq(Steps) /\ Len(UriPlan) = 9
<1> DEFINE p1 == <<"check", "uri">>
           p2 == <<"uri", "scheme">>
           p3 == <<"uri", "host">>
           p4 == <<"uri", "path">>
           p5 == <<"uri", "port">>
           p6 == <<"user_info", "">>
           p7 == <<"uri", "password">>
           p8 == <<"uri", "username">>
           p9 == <<"free", "">>
<1>1. /\ p1 \in Steps /\ p2 \in Steps /\ p3 \in Steps /\ p4 \in Steps
      /\ p5 \in Steps /\ p6 \in Steps /\ p7 \in Steps /\ p8 \in Steps
      /\ p9 \in Steps
  BY TakeStep, OptionStep, OtherStep, OptionNames
<1>2. UriPlan = <<p1, p2, p3, p4, p5, p6, p7, p8, p9>>
  BY DEF UriPlan
<1> HIDE DEF p1, p2, p3, p4, p5, p6, p7, p8, p9
<1> QED
  BY <1>1, <1>2, Nine

\* So is set_config.
LEMMA ConfigPlanFits == ConfigPlan \in Seq(Steps) /\ Len(ConfigPlan) = 10
<1> DEFINE p1 == <<"config", "host">>
           p2 == <<"config", "port">>
           p3 == <<"config", "username">>
           p4 == <<"config", "password">>
           p5 == <<"auth", "">>
           p6 == <<"config", "uri">>
           p7 == <<"config", "path">>
           p8 == <<"config", "subprotocol">>
           p9 == <<"config", "user_agent">>
           p10 == <<"config", "headers">>
<1>1. /\ p1 \in Steps /\ p2 \in Steps /\ p3 \in Steps /\ p4 \in Steps
      /\ p5 \in Steps /\ p6 \in Steps /\ p7 \in Steps /\ p8 \in Steps
      /\ p9 \in Steps /\ p10 \in Steps
  BY TakeStep, OptionStep, OtherStep, OptionNames
<1>2. ConfigPlan = <<p1, p2, p3, p4, p5, p6, p7, p8, p9, p10>>
  BY DEF ConfigPlan
<1> HIDE DEF p1, p2, p3, p4, p5, p6, p7, p8, p9, p10
<1> QED
  BY <1>1, <1>2, Ten

\* So are the beginning and the end of init.
InitHead == << <<"take", "loop">>, <<"take", "if_name">>, <<"take", "lock">>,
               <<"take", "config">>, <<"config", "scheme">>, <<"check", "names">> >>
InitTail == << <<"default", "scheme">>, <<"take", "rx_buffer">>,
               <<"take", "tx_buffer">>, <<"take", "status_bits">> >>

LEMMA ReleasedNames ==
  {"loop", "if_name", "config", "lock", "tx_buffer", "rx_buffer", "status_bits"}
    \subseteq Released
BY DEF Released

\* The beginning.
LEMMA InitHeadFits == InitHead \in Seq(Steps) /\ Len(InitHead) = 6
<1> DEFINE p1 == <<"take", "loop">>
           p2 == <<"take", "if_name">>
           p3 == <<"take", "lock">>
           p4 == <<"take", "config">>
           p5 == <<"config", "scheme">>
           p6 == <<"check", "names">>
<1>1. /\ p1 \in Steps /\ p2 \in Steps /\ p3 \in Steps /\ p4 \in Steps
      /\ p5 \in Steps /\ p6 \in Steps
  BY TakeStep, OptionStep, OtherStep, OptionNames, ReleasedNames
<1>2. InitHead = <<p1, p2, p3, p4, p5, p6>>
  BY DEF InitHead
<1> HIDE DEF p1, p2, p3, p4, p5, p6
<1> QED
  BY <1>1, <1>2, Six

\* The end.
LEMMA InitTailFits == InitTail \in Seq(Steps) /\ Len(InitTail) = 4
<1> DEFINE p1 == <<"default", "scheme">>
           p2 == <<"take", "rx_buffer">>
           p3 == <<"take", "tx_buffer">>
           p4 == <<"take", "status_bits">>
<1>1. /\ p1 \in Steps /\ p2 \in Steps /\ p3 \in Steps /\ p4 \in Steps
  BY TakeStep, OptionStep, OtherStep, OptionNames, ReleasedNames
<1>2. InitTail = <<p1, p2, p3, p4>>
  BY DEF InitTail
<1> HIDE DEF p1, p2, p3, p4
<1> QED
  BY <1>1, <1>2, Four

\* What the elements of one sequence after another are.
LEMMA ConcatAt ==
  ASSUME NEW S, NEW p \in Seq(S), NEW q \in Seq(S)
  PROVE  /\ \A i \in 1..Len(p) : (p \o q)[i] = p[i]
         /\ \A i \in 1..Len(q) : (p \o q)[Len(p) + i] = q[i]
OBVIOUS

\* So is init, which contains them.
LEMMA InitPlanParts ==
  /\ InitPlan \in Seq(Steps) /\ Len(InitPlan) = 29
  /\ \A i \in 1..6 : InitPlan[i] = InitHead[i]
  /\ \A i \in 1..9 : InitPlan[6 + i] = UriPlan[i]
  /\ \A i \in 1..10 : InitPlan[15 + i] = ConfigPlan[i]
  /\ \A i \in 1..4 : InitPlan[25 + i] = InitTail[i]
<1> DEFINE a == InitHead \o UriPlan
           b == a \o ConfigPlan
           c == b \o InitTail
<1>0. /\ InitHead \in Seq(Steps) /\ UriPlan \in Seq(Steps)
      /\ ConfigPlan \in Seq(Steps) /\ InitTail \in Seq(Steps)
  BY InitHeadFits, UriPlanFits, ConfigPlanFits, InitTailFits
<1>1. InitPlan = c
  BY DEF InitPlan, InitHead, InitTail
<1>2. a \in Seq(Steps) /\ Len(a) = Len(InitHead) + Len(UriPlan)
  BY <1>0, Concat
<1>3. /\ \A i \in 1..Len(InitHead) : a[i] = InitHead[i]
      /\ \A i \in 1..Len(UriPlan) : a[Len(InitHead) + i] = UriPlan[i]
  BY <1>0, ConcatAt
<1> HIDE DEF a
<1>4. b \in Seq(Steps) /\ Len(b) = Len(a) + Len(ConfigPlan)
  BY <1>0, <1>2, Concat
<1>5. /\ \A i \in 1..Len(a) : b[i] = a[i]
      /\ \A i \in 1..Len(ConfigPlan) : b[Len(a) + i] = ConfigPlan[i]
  BY <1>0, <1>2, ConcatAt
<1> HIDE DEF b
<1>6. c \in Seq(Steps) /\ Len(c) = Len(b) + Len(InitTail)
  BY <1>0, <1>4, Concat
<1>7. /\ \A i \in 1..Len(b) : c[i] = b[i]
      /\ \A i \in 1..Len(InitTail) : c[Len(b) + i] = InitTail[i]
  BY <1>0, <1>4, ConcatAt
<1> HIDE DEF c
<1>8. Len(a) = 15 /\ Len(b) = 25 /\ Len(c) = 29
  BY <1>2, <1>4, <1>6, InitHeadFits, UriPlanFits, ConfigPlanFits, InitTailFits
<1>9. /\ \A i \in 1..6 : a[i] = InitHead[i]
      /\ \A i \in 1..9 : a[6 + i] = UriPlan[i]
  BY <1>3, InitHeadFits, UriPlanFits
<1>10. /\ \A i \in 1..15 : b[i] = a[i]
       /\ \A i \in 1..10 : b[15 + i] = ConfigPlan[i]
  BY <1>5, <1>8, ConfigPlanFits
<1>11. /\ \A i \in 1..25 : c[i] = b[i]
       /\ \A i \in 1..4 : c[25 + i] = InitTail[i]
  BY <1>7, <1>8, InitTailFits
<1>12. \A i \in 1..6 : c[i] = InitHead[i]
  BY <1>9, <1>10, <1>11
<1>13. \A i \in 1..9 : c[6 + i] = UriPlan[i]
  <2> SUFFICES ASSUME NEW i \in 1..9
               PROVE  c[6 + i] = UriPlan[i]
    OBVIOUS
  <2>1. 6 + i \in 1..15 /\ 6 + i \in 1..25
    OBVIOUS
  <2> QED
    BY <2>1, <1>9, <1>10, <1>11
<1>14. \A i \in 1..10 : c[15 + i] = ConfigPlan[i]
  <2> SUFFICES ASSUME NEW i \in 1..10
               PROVE  c[15 + i] = ConfigPlan[i]
    OBVIOUS
  <2>1. 15 + i \in 1..25
    OBVIOUS
  <2> QED
    BY <2>1, <1>10, <1>11
<1> QED
  BY <1>1, <1>6, <1>8, <1>11, <1>12, <1>13, <1>14

\* So is start, whose last step is the task.
LEMMA StartPlanFits ==
  /\ StartPlan \in Seq(StartSteps) /\ Len(StartPlan) = 4
  /\ \A i \in 1..4 : /\ StartPlan[i][1] = "task" => i = 4
                     /\ i = 3 => StartPlan[i][1] = "ws"
                     /\ i = 4 => StartPlan[i][1] = "task"
                     /\ StartPlan[i][1] \in {"list", "tcp", "ws", "task"}
<1> DEFINE p1 == <<"list", "">>
           p2 == <<"tcp", "">>
           p3 == <<"ws", "">>
           p4 == <<"task", "">>
<1>1. p1 \in StartSteps /\ p2 \in StartSteps /\ p3 \in StartSteps /\ p4 \in StartSteps
  BY StartStep
<1>2. StartPlan = <<p1, p2, p3, p4>>
  BY DEF StartPlan
<1>3. p1[1] = "list" /\ p2[1] = "tcp" /\ p3[1] = "ws" /\ p4[1] = "task"
  OBVIOUS
<1> HIDE DEF p1, p2, p3, p4
<1>4. StartPlan \in Seq(StartSteps) /\ Len(StartPlan) = 4
  BY <1>1, <1>2, Four
<1>5. StartPlan[1] = p1 /\ StartPlan[2] = p2 /\ StartPlan[3] = p3 /\ StartPlan[4] = p4
  BY <1>2
<1>6. \A i \in 1..4 : i \in {1, 2, 3, 4}
  OBVIOUS
<1> QED
  BY <1>3, <1>4, <1>5, <1>6

\* At a step of a call: what it is about is what its kind asks for.
LEMMA StepFits ==
  ASSUME call \in {"init", "set_uri", "start"}, at \in 1..Len(Plan)
  PROVE  /\ Len(Plan) \in Nat \ {0}
         /\ Now("take") => What \in Released
         /\ Now("uri") \/ Now("config") \/ Now("default") => What \in Options
         /\ \A k \in {"list", "tcp", "ws", "task"} : Now(k) => call = "start"
         /\ call = "start" => /\ Len(Plan) = 4 /\ (at = 4 => Now("task"))
                              /\ (at = 3 => Now("ws")) /\ (Now("task") => at = 4)
                              /\ \E k \in {"list", "tcp", "ws", "task"} : Now(k)
<1>1. CASE call # "start"
  <2>1. Plan \in Seq(Steps) /\ Len(Plan) \in Nat \ {0}
    <3>1. CASE call = "init"
      BY <3>1, InitPlanParts DEF Plan
    <3>2. CASE call = "set_uri"
      BY <3>2, UriPlanFits DEF Plan
    <3> QED
      BY <1>1, <3>1, <3>2
  <2>2. Plan[at] \in Steps
    BY <2>1
  <2>3. Plan[at][1] \notin {"list", "tcp", "ws", "task"}
    BY <2>2 DEF Steps
  <2>4. /\ Now("take") => What \in Released
        /\ Now("uri") \/ Now("config") \/ Now("default") => What \in Options
    BY <2>2 DEF Steps, Now, What
  <2> QED
    BY <1>1, <2>1, <2>3, <2>4 DEF Now
<1>2. CASE call = "start"
  <2>1. Plan = StartPlan
    BY <1>2 DEF Plan
  <2>2. at \in 1..4 /\ Len(Plan) = 4
    BY <2>1, StartPlanFits
  <2>3. /\ Plan[at][1] = "task" => at = 4
        /\ at = 3 => Plan[at][1] = "ws"
        /\ at = 4 => Plan[at][1] = "task"
        /\ Plan[at][1] \in {"list", "tcp", "ws", "task"}
    BY <2>1, <2>2, StartPlanFits
  <2> QED
    BY <1>2, <2>2, <2>3 DEF Now
<1> QED
  BY <1>1, <1>2

-----------------------------------------------------------------------------
(* Types                                                                   *)

\* A step that goes on leaves the call at a step of its plan, or done.
LEMMA ProceedFits ==
  ASSUME TypeOK, call # "none", Proceed
  PROVE  CallOK'
<1>1. call \in {"init", "set_uri", "start"} /\ at \in 1..Len(Plan) /\ Len(Plan) \in Nat
  BY StepFits DEF TypeOK, CallOK
<1>2. CASE at < Len(Plan)
  <2>1. at' = at + 1 /\ client' = client /\ call' = call
    BY <1>2 DEF Proceed
  <2>2. Plan' = Plan
    BY <2>1 DEF Plan
  <2>3. at' \in 1..Len(Plan)
    BY <1>1, <1>2, <2>1
  <2> QED
    BY <2>1, <2>2, <2>3, <1>1 DEF TypeOK, CallOK
<1>3. CASE ~(at < Len(Plan))
  <2>1. at' = 0 /\ call' = "none" /\ client' = After
    BY <1>3 DEF Proceed
  <2>2. After \in {"fresh", "running", "ready"}
    BY DEF After
  <2> QED
    BY <2>1, <2>2 DEF CallOK
<1> QED
  BY <1>2, <1>3

\* So does one that gives up, and it leaves the store well typed.
LEMMA GivesUpFits ==
  ASSUME TypeOK, NEW leak \in SUBSET (Options \cup {"user_info"}),
         GivesUp(leak), short' \in BOOLEAN
  PROVE  TypeOK'
<1>0. TypeOK /\ short' \in BOOLEAN
  OBVIOUS
<1>1. Nothing \in [Options -> {"none"} \cup Origins]
  BY DEF Nothing
<1>2. Unfreed \subseteq Options
  BY DEF Unfreed
<1>3. CASE call = "init"
  <2>1. Gone /\ UNCHANGED inputs
    BY <1>3 DEF GivesUp, Destroyed, Restarted
  <2>2. held' \subseteq Released /\ lost' \subseteq Options \cup {"user_info"}
    BY <1>3, <1>0, <1>2 DEF GivesUp, Destroyed, Restarted, TypeOK, StoreOK
  <2> QED
    BY <2>1, <2>2, <1>0, <1>1 DEF Gone, TypeOK, CallOK, StoreOK, inputs
<1>4. CASE call # "init"
  <2>1. /\ at' = 0 /\ call' = "none" /\ client' = "ready"
        /\ lost' = lost \cup leak
        /\ UNCHANGED inputs /\ UNCHANGED <<cfg, auth, held, conn>>
    BY <1>4 DEF GivesUp
  <2> QED
    BY <2>1, <1>0 DEF TypeOK, CallOK, StoreOK, inputs, conn
<1> QED
  BY <1>3, <1>4

LEMMA NoMemoryFits ==
  ASSUME TypeOK, NoMemory
  PROVE  TypeOK'
<1>1. GivesUp({}) /\ short' \in BOOLEAN
  BY DEF NoMemory
<1> QED
  BY <1>1, GivesUpFits

\* The types are an invariant.
LEMMA TypeStep ==
  ASSUME TypeOK, [Next]_vars
  PROVE  TypeOK'
<1> USE DEF inputs, store, conn, Origins
<1>0. TypeOK
  OBVIOUS
<1>1. ASSUME Now("take") \/ Now("check") \/ Now("uri") \/ Now("config") \/ Now("default")
               \/ Now("user_info") \/ Now("free") \/ Now("auth") \/ Now("list")
               \/ Now("tcp") \/ Now("ws") \/ Now("task")
      PROVE  /\ call # "none"
             /\ Now("take") => What \in Released
             /\ Now("uri") \/ Now("config") \/ Now("default") => What \in Options
  <2>1. call # "none"
    BY <1>1 DEF Now
  <2>2. call \in {"init", "set_uri", "start"} /\ at \in 1..Len(Plan)
    BY <2>1, <1>0 DEF TypeOK, CallOK
  <2> QED
    BY <2>1, <2>2, StepFits
<1>2. CASE Take
  <2>1. CallOK'
    BY <1>2, <1>1, ProceedFits DEF Take
  <2>2. held' \subseteq Released
    BY <1>2, <1>1, <1>0 DEF Take, TypeOK, StoreOK
  <2> QED
    BY <1>2, <2>1, <2>2, <1>0 DEF Take, TypeOK, StoreOK
<1>3. CASE TakeFails
  BY <1>3, NoMemoryFits DEF TakeFails
<1>4. CASE Check
  <2>1. CallOK'
    BY <1>4, <1>1, ProceedFits DEF Check
  <2> QED
    BY <1>4, <2>1, <1>0 DEF Check, TypeOK, StoreOK
<1>5. CASE CheckFails
  <2>1. GivesUp({}) /\ short' \in BOOLEAN
    BY <1>5, <1>0 DEF CheckFails, TypeOK, StoreOK
  <2> QED
    BY <2>1, GivesUpFits
<1>6. CASE SetOption
  <2>1. Now("uri") \/ Now("config") \/ Now("default")
    BY <1>6 DEF SetOption, Has
  <2>2. CallOK'
    BY <1>6, <1>1, <2>1, ProceedFits DEF SetOption
  <2>3. Origin \in {"uri", "new", "config", "default"} /\ Leaks \subseteq Options
    BY DEF Origin, Source, Leaks, Options, Parts
  <2>4. cfg' \in [Options -> {"none"} \cup Origins]
    BY <1>6, <1>1, <2>1, <2>3, <1>0 DEF SetOption, TypeOK, StoreOK
  <2> QED
    BY <1>6, <2>2, <2>3, <2>4, <1>0 DEF SetOption, TypeOK, StoreOK
<1>7. CASE OptionFails
  <2>1. UserInfoLeaks \subseteq Options \cup {"user_info"} /\ Leaks \subseteq Options
    BY DEF UserInfoLeaks, Leaks, Options, Parts
  <2>2. CASE call = "init"
    <3>1. GivesUp(Leaks \cup UserInfoLeaks) /\ short' \in BOOLEAN
      BY <1>7, <2>2 DEF OptionFails
    <3> QED
      BY <3>1, <2>1, GivesUpFits
  <2>3. CASE call # "init"
    <3>1. /\ cfg' = [cfg EXCEPT ![What] = "none"]
          /\ lost' = lost \cup UserInfoLeaks /\ short' = TRUE
          /\ at' = 0 /\ call' = "none" /\ client' = "ready"
          /\ UNCHANGED <<inputs, auth, held, conn>>
      BY <1>7, <2>3 DEF OptionFails
    <3>2. cfg' \in [Options -> {"none"} \cup Origins]
      BY <3>1, <1>0 DEF TypeOK, StoreOK
    <3> QED
      BY <3>1, <3>2, <2>1, <1>0 DEF TypeOK, CallOK, StoreOK
  <2> QED
    BY <2>2, <2>3
<1>8. CASE Pass
  <2>1. CallOK'
    BY <1>8, <1>1, ProceedFits DEF Pass
  <2> QED
    BY <1>8, <2>1, <1>0 DEF Pass, TypeOK, StoreOK
<1>9. CASE UserInfo
  <2>1. CallOK'
    BY <1>9, <1>1, ProceedFits DEF UserInfo
  <2> QED
    BY <1>9, <2>1, <1>0 DEF UserInfo, TypeOK, StoreOK
<1>10. CASE UserInfoFails
  BY <1>10, NoMemoryFits DEF UserInfoFails
<1>11. CASE MakeAuth
  <2>1. CallOK'
    BY <1>11, <1>1, ProceedFits DEF MakeAuth
  <2>2. auth' \in {NoAuth} \cup Origins \X Origins
    <3>1. cfg["username"] \in {"none"} \cup Origins /\ cfg["password"] \in {"none"} \cup Origins
      BY <1>0 DEF TypeOK, StoreOK, Options, Parts
    <3>2. CASE Credentials
      <4>1. cfg["username"] \in Origins /\ cfg["password"] \in Origins
        BY <3>1, <3>2 DEF Credentials
      <4>2. auth' = <<cfg["username"], cfg["password"]>>
        BY <1>11, <3>2 DEF MakeAuth
      <4> HIDE DEF Origins
      <4> QED
        BY <4>1, <4>2
    <3>3. CASE ~Credentials
      BY <1>11, <3>3, <1>0 DEF MakeAuth, TypeOK, StoreOK
    <3> QED
      BY <3>2, <3>3
  <2> QED
    BY <1>11, <2>1, <2>2, <1>0 DEF MakeAuth, TypeOK, StoreOK
<1>12. CASE AuthFails
  BY <1>12, NoMemoryFits DEF AuthFails
<1>13. CASE BuildList
  <2>1. CallOK'
    BY <1>13, <1>1, ProceedFits DEF BuildList
  <2>2. list' \in {"none", "part", "whole"}
    BY <1>13, <1>0 DEF BuildList, TypeOK, StoreOK
  <2> QED
    BY <1>13, <2>1, <2>2, <1>0 DEF BuildList, TypeOK, StoreOK
<1>14. CASE BuildFails
  BY <1>14, <1>0 DEF BuildFails, TypeOK, CallOK, StoreOK
<1>15. CASE BeginTask
  <2>1. CallOK'
    BY <1>15, <1>1, ProceedFits DEF BeginTask
  <2>2. transport' \in {"none", "ext", "list"}
    BY <1>15 DEF BeginTask
  <2>3. cfg' \in [Options -> {"none"} \cup Origins]
    BY <1>15, <1>0 DEF BeginTask, TypeOK, StoreOK
  <2> QED
    BY <1>15, <2>1, <2>2, <2>3, <1>0 DEF BeginTask, TypeOK, StoreOK
<1>16. CASE TaskFails
  <2>1. GivesUp({}) /\ short' \in BOOLEAN
    BY <1>16, <1>0 DEF TaskFails, TypeOK, StoreOK
  <2> QED
    BY <2>1, GivesUpFits
<1>17. CASE CallInit
  <2>1. Plan' = InitPlan /\ call' = "init" /\ at' = 1 /\ client' = "making"
    BY <1>17 DEF CallInit, Begin, Plan
  <2>2. at' \in 1..Len(Plan')
    BY <2>1, InitPlanParts
  <2>3. /\ given' \subseteq Givable \cup {"uri"} /\ parts' \in Uris \cup {{}}
        /\ again' = FALSE /\ lost' = {} /\ short' = FALSE /\ held' = {}
        /\ UNCHANGED <<cfg, auth, conn>>
    BY <1>17 DEF CallInit
  <2> QED
    BY <2>1, <2>2, <2>3, <1>0 DEF TypeOK, CallOK, StoreOK
<1>18. CASE CallSetUri
  <2>1. Plan' = UriPlan /\ call' = "set_uri" /\ at' = 1 /\ client' = "ready"
    BY <1>18 DEF CallSetUri, Begin, Plan
  <2>2. at' \in 1..Len(Plan')
    BY <2>1, UriPlanFits
  <2> QED
    BY <1>18, <2>1, <2>2, <1>0 DEF CallSetUri, TypeOK, CallOK, StoreOK
<1>19. CASE AppendHeader
  <2>1. cfg' \in [Options -> {"none"} \cup Origins]
    BY <1>19, <1>0 DEF AppendHeader, TypeOK, StoreOK
  <2> QED
    BY <1>19, <2>1, <1>0 DEF AppendHeader, Stopped, TypeOK, CallOK, StoreOK
<1>20. CASE CallStart
  <2>1. Plan' = StartPlan /\ call' = "start" /\ at' = 1 /\ client' = "ready"
    BY <1>20 DEF CallStart, Begin, Plan
  <2>2. at' \in 1..Len(Plan')
    BY <2>1, StartPlanFits
  <2> QED
    BY <1>20, <2>1, <2>2, <1>0 DEF CallStart, TypeOK, CallOK, StoreOK
<1>21. CASE Stop
  <2>1. call = "none" \/ call # "none"
    OBVIOUS
  <2> QED
    BY <1>21, <1>0 DEF Stop, TypeOK, CallOK, StoreOK, Plan
<1>22. CASE Destroy
  <2>1. Nothing \in [Options -> {"none"} \cup Origins]
    BY DEF Nothing
  <2>2. Unfreed \subseteq Options
    BY DEF Unfreed
  <2> QED
    BY <1>22, <2>1, <2>2, <1>0 DEF Destroy, Destroyed, Gone, TypeOK, CallOK, StoreOK
<1>23. CASE UNCHANGED vars
  BY <1>23, <1>0 DEF vars, TypeOK, CallOK, StoreOK, Plan
<1> QED
  BY <1>2, <1>3, <1>4, <1>5, <1>6, <1>7, <1>8, <1>9, <1>10, <1>11, <1>12, <1>13, <1>14,
     <1>15, <1>16, <1>17, <1>18, <1>19, <1>20, <1>21, <1>22, <1>23 DEF Next, Step

\* The types, for any options that may be given and any URIs.
THEOREM ConfigTypeCorrect == Spec => []TypeOK
<1>1. Init => TypeOK
  BY DEF Init, TypeOK, CallOK, StoreOK, Nothing
<1>2. TypeOK /\ [Next]_vars => TypeOK'
  BY TypeStep
<1> QED
  BY <1>1, <1>2, PTL DEF Spec

-----------------------------------------------------------------------------
(* Nothing is lost                                                         *)

\* Destroying frees every string, and everything that init may have taken.
LEMMA DestroyedFrees ==
  ASSUME TypeOK, NEW leak, Destroyed(leak)
  PROVE  held' = {} /\ lost' = lost \cup leak
<1>1. Unfreed = {}
  BY DEF Unfreed, Options, Parts, FreedStrings
<1> QED
  BY <1>1 DEF Destroyed, TypeOK, StoreOK

LEMMA GivesUpLoses ==
  ASSUME TypeOK, NothingLost, GivesUp({}), short' = short \/ short' = TRUE
  PROVE  NothingLost'
<1>1. CASE call = "init"
  <2>1. held' = {} /\ (lost' = lost \/ lost' = {}) /\ given' = given
    BY <1>1, DestroyedFrees DEF GivesUp, Restarted, inputs
  <2> QED
    BY <2>1 DEF NothingLost
<1>2. CASE call # "init"
  <2>1. client' = "ready" /\ lost' = lost /\ given' = given
    BY <1>2 DEF GivesUp, inputs
  <2> QED
    BY <2>1 DEF NothingLost
<1> QED
  BY <1>1, <1>2

LEMMA NoMemoryLoses ==
  ASSUME TypeOK, NothingLost, NoMemory
  PROVE  NothingLost'
<1>1. GivesUp({}) /\ short' = TRUE
  BY DEF NoMemory
<1> QED
  BY <1>1, GivesUpLoses

\* A client in a call is there when the step is done.
LEMMA ProceedKeeps ==
  ASSUME TypeOK, Proceed, call # "none"
  PROVE  client' # "none"
<1>1. After # "none"
  BY DEF After
<1> QED
  BY <1>1 DEF Proceed, TypeOK, CallOK

LEMMA LossStep ==
  ASSUME TypeOK, NothingLost, [Next]_vars
  PROVE  NothingLost'
<1> USE DEF inputs, store, conn
<1>0. TypeOK /\ NothingLost
  OBVIOUS
<1>1. \A k : Now(k) => call # "none"
  BY DEF Now
<1>2. ASSUME Proceed, UNCHANGED <<given, lost, short>>, call # "none"
      PROVE  NothingLost'
  <2>1. client' # "none"
    BY <1>2, ProceedKeeps
  <2> QED
    BY <1>2, <2>1, <1>0 DEF NothingLost
<1>3. CASE Take
  BY <1>3, <1>1, <1>2 DEF Take
<1>4. CASE TakeFails
  BY <1>4, NoMemoryLoses DEF TakeFails
<1>5. CASE Check
  BY <1>5, <1>1, <1>2 DEF Check
<1>6. CASE CheckFails
  BY <1>6, GivesUpLoses DEF CheckFails
<1>7. CASE SetOption
  <2>1. call # "none"
    BY <1>7, <1>1 DEF SetOption, Has
  <2>2. client' # "none"
    BY <1>7, <2>1, ProceedKeeps DEF SetOption
  <2>3. /\ lost' = lost \cup Leaks /\ UNCHANGED <<given, short>>
    BY <1>7 DEF SetOption
  <2>4. Leaks # {} => Leaks = {"host"} /\ "host" \in given
    BY <1>7 DEF Leaks, SetOption, Has, Now
  <2> QED
    BY <2>2, <2>3, <2>4, <1>0 DEF NothingLost
<1>8. CASE OptionFails
  <2>1. /\ Leaks = {} \/ (Leaks = {"host"} /\ "host" \in given)
        /\ UserInfoLeaks = {} \/ UserInfoLeaks = {"user_info"}
    BY <1>8 DEF Leaks, OptionFails, Has, Now, UserInfoLeaks
  <2>2. short' = TRUE
    BY <1>8 DEF OptionFails
  <2>3. CASE call = "init"
    <3>1. GivesUp(Leaks \cup UserInfoLeaks)
      BY <1>8, <2>3 DEF OptionFails
    <3>2. /\ held' = {} /\ given' = given
          /\ lost' = lost \cup (Leaks \cup UserInfoLeaks) \/ lost' = {}
      BY <3>1, <2>3, <1>0, DestroyedFrees DEF GivesUp, Restarted
    <3> QED
      BY <3>2, <2>1, <2>2, <1>0 DEF NothingLost
  <2>4. CASE call # "init"
    <3>1. lost' = lost \cup UserInfoLeaks /\ client' = "ready" /\ given' = given
      BY <1>8, <2>4 DEF OptionFails
    <3> QED
      BY <3>1, <2>1, <2>2, <1>0 DEF NothingLost
  <2> QED
    BY <2>3, <2>4
<1>9. CASE Pass
  <2>1. call # "none"
    BY <1>9, <1>1 DEF Pass
  <2> QED
    BY <1>9, <2>1, <1>2 DEF Pass
<1>10. CASE UserInfo
  <2>1. call # "none"
    BY <1>10, <1>1 DEF UserInfo
  <2> QED
    BY <1>10, <2>1, <1>2 DEF UserInfo
<1>11. CASE UserInfoFails
  BY <1>11, NoMemoryLoses DEF UserInfoFails
<1>12. CASE MakeAuth
  BY <1>12, <1>1, <1>2 DEF MakeAuth
<1>13. CASE AuthFails
  BY <1>13, NoMemoryLoses DEF AuthFails
<1>14. CASE BuildList
  <2>1. call # "none"
    BY <1>14, <1>1 DEF BuildList
  <2> QED
    BY <1>14, <2>1, <1>2 DEF BuildList
<1>15. CASE BuildFails
  BY <1>15, <1>0 DEF BuildFails, NothingLost
<1>16. CASE BeginTask
  BY <1>16, <1>1, <1>2 DEF BeginTask
<1>17. CASE TaskFails
  BY <1>17, GivesUpLoses DEF TaskFails
<1>18. CASE CallInit
  BY <1>18 DEF CallInit, NothingLost
<1>19. CASE CallSetUri
  BY <1>19, <1>0 DEF CallSetUri, NothingLost
<1>20. CASE AppendHeader
  BY <1>20, <1>0 DEF AppendHeader, NothingLost
<1>21. CASE CallStart
  BY <1>21, <1>0 DEF CallStart, NothingLost
<1>22. CASE Stop
  BY <1>22, <1>0 DEF Stop, NothingLost
<1>23. CASE Destroy
  <2>1. held' = {} /\ lost' = lost /\ UNCHANGED <<given, short>>
    BY <1>23, DestroyedFrees DEF Destroy
  <2> QED
    BY <2>1, <1>0 DEF NothingLost
<1>24. CASE UNCHANGED vars
  BY <1>24, <1>0 DEF vars, NothingLost
<1> QED
  BY <1>3, <1>4, <1>5, <1>6, <1>7, <1>8, <1>9, <1>10, <1>11, <1>12, <1>13, <1>14,
     <1>15, <1>16, <1>17, <1>18, <1>19, <1>20, <1>21, <1>22, <1>23, <1>24 DEF Next, Step

\* Whatever allocation fails in whatever call, a client that is gone has given
\* back what was allocated for it, the two known losses excepted.
THEOREM NothingIsLost == Spec => []NothingLost
<1>1. Init => NothingLost
  BY DEF Init, NothingLost
<1>2. TypeOK /\ NothingLost /\ [Next]_vars => NothingLost'
  BY LossStep
<1> QED
  BY <1>1, <1>2, ConfigTypeCorrect, PTL DEF Spec

-----------------------------------------------------------------------------
(* The transport of a client                                               *)

\* While start is at work there is no transport but an external one, and the
\* list is whole when the task is created.
StartInv ==
  /\ client \in {"none", "making"} => transport = "none"
  /\ client = "running" => call = "none"
  /\ call = "start" => /\ transport = IF External THEN "ext" ELSE "none"
                       /\ at = 4 => External \/ list = "whole"

TransportInv == StartInv /\ TransportLives

\* A step of init or set_uri changes neither.
LEMMA OtherStepKeeps ==
  ASSUME TypeOK, TransportInv, call \in {"init", "set_uri"}, Proceed,
         UNCHANGED <<inputs, conn>>
  PROVE  TransportInv'
<1>1. client' \in {"making", "fresh", "ready"} /\ (client' = "making" => client = "making")
  BY DEF Proceed, After, TypeOK, CallOK
<1>2. call' # "start" /\ transport' = transport /\ list' = list
  BY DEF Proceed, conn
<1> QED
  BY <1>1, <1>2 DEF TransportInv, StartInv, TransportLives

\* Nor does a call that gives up, which may end without a client.
LEMMA GivesUpKeeps ==
  ASSUME TransportInv, NEW leak, GivesUp(leak)
  PROVE  TransportInv'
<1>1. CASE call = "init"
  BY <1>1 DEF GivesUp, Destroyed, Restarted, Gone, TransportInv, StartInv, TransportLives
<1>2. CASE call # "init"
  BY <1>2 DEF GivesUp, conn, TransportInv, StartInv, TransportLives
<1> QED
  BY <1>1, <1>2

LEMMA TransportStep ==
  ASSUME TypeOK, TransportInv, [Next]_vars
  PROVE  TransportInv'
<1> USE DEF inputs, store, conn
<1>0. TypeOK /\ TransportInv
  OBVIOUS
<1>1. ASSUME NEW k, Now(k)
      PROVE  call \in {"init", "set_uri", "start"} /\ at \in 1..Len(Plan)
  BY <1>1, <1>0 DEF Now, TypeOK, CallOK
<1>2. ASSUME NEW k \in {"take", "check", "uri", "config", "default", "user_info", "free",
                        "auth"}, Now(k)
      PROVE  call \in {"init", "set_uri"}
  BY <1>1, <1>2, StepFits DEF Now
<1>3. ASSUME NEW k \in {"list", "tcp", "ws", "task"}, Now(k)
      PROVE  /\ call = "start" /\ Len(Plan) = 4 /\ at \in 1..4
             /\ (at = 3 => Now("ws")) /\ (Now("task") => at = 4) /\ (at = 4 => Now("task"))
  BY <1>1, <1>3, StepFits DEF Now
<1>4. CASE Take
  BY <1>4, <1>2, OtherStepKeeps DEF Take
<1>5. CASE TakeFails
  BY <1>5, GivesUpKeeps DEF TakeFails, NoMemory
<1>6. CASE Check
  BY <1>6, <1>2, OtherStepKeeps DEF Check
<1>7. CASE CheckFails
  BY <1>7, GivesUpKeeps DEF CheckFails
<1>8. CASE SetOption
  <2>1. call \in {"init", "set_uri"}
    BY <1>8, <1>2 DEF SetOption, Has
  <2> QED
    BY <1>8, <2>1, OtherStepKeeps DEF SetOption
<1>9. CASE OptionFails
  <2>1. CASE call = "init"
    BY <1>9, <2>1, GivesUpKeeps DEF OptionFails
  <2>2. CASE call # "init"
    BY <1>9, <2>2, <1>0 DEF OptionFails, TransportInv, StartInv, TransportLives
  <2> QED
    BY <2>1, <2>2
<1>10. CASE Pass
  <2>1. call \in {"init", "set_uri"}
    BY <1>10, <1>2 DEF Pass
  <2> QED
    BY <1>10, <2>1, OtherStepKeeps DEF Pass
<1>11. CASE UserInfo
  <2>1. call \in {"init", "set_uri"}
    BY <1>11, <1>2 DEF UserInfo
  <2> QED
    BY <1>11, <2>1, OtherStepKeeps DEF UserInfo
<1>12. CASE UserInfoFails
  BY <1>12, GivesUpKeeps DEF UserInfoFails, NoMemory
<1>13. CASE MakeAuth
  BY <1>13, <1>2, OtherStepKeeps DEF MakeAuth
<1>14. CASE AuthFails
  BY <1>14, GivesUpKeeps DEF AuthFails, NoMemory
<1>15. CASE BuildList
  <2>1. /\ call = "start" /\ Len(Plan) = 4 /\ at \in 1..4
        /\ (at = 3 => Now("ws")) /\ at # 4
    <3>1. PICK k \in {"list", "tcp", "ws"} : Now(k)
      BY <1>15 DEF BuildList
    <3>2. ~Now("task")
      BY <3>1 DEF Now
    <3> QED
      BY <3>1, <3>2, <1>3
  <2>2. at' = at + 1 /\ UNCHANGED <<client, call, inputs, transport>>
    BY <1>15, <2>1 DEF BuildList, Proceed
  <2>3. client = "ready" /\ External' = External
    BY <2>1, <2>2, <1>0 DEF TypeOK, CallOK, External
  <2>4. at' = 4 => External \/ list' = "whole"
    BY <1>15, <2>1, <2>2 DEF BuildList
  <2> QED
    BY <2>1, <2>2, <2>3, <2>4, <1>0 DEF TransportInv, StartInv, TransportLives
<1>16. CASE BuildFails
  <2>1. call = "start" /\ ~External
    BY <1>16, <1>3 DEF BuildFails
  <2>2. transport' = "none" /\ client' = "ready" /\ call' = "none"
    BY <1>16, <2>1, <1>0 DEF BuildFails, TransportInv, StartInv
  <2> QED
    BY <2>2 DEF TransportInv, StartInv, TransportLives
<1>17. CASE BeginTask
  <2>1. call = "start" /\ Len(Plan) = 4 /\ at = 4
    BY <1>17, <1>3 DEF BeginTask
  <2>2. call' = "none" /\ client' = "running" /\ list' = list
    BY <1>17, <2>1 DEF BeginTask, Proceed, After
  <2>3. transport' = (IF External THEN "ext" ELSE "list") /\ (External \/ list = "whole")
    BY <1>17, <2>1, <1>0 DEF BeginTask, TransportInv, StartInv
  <2>4. cfg'["port"] # "none"
    BY <1>17, <1>0 DEF BeginTask, TypeOK, StoreOK, Options, Parts
  <2> QED
    BY <2>2, <2>3, <2>4 DEF TransportInv, StartInv, TransportLives
<1>18. CASE TaskFails
  BY <1>18, GivesUpKeeps DEF TaskFails
<1>19. CASE CallInit
  BY <1>19, <1>0 DEF CallInit, Begin, TransportInv, StartInv, TransportLives
<1>20. CASE CallSetUri
  BY <1>20, <1>0 DEF CallSetUri, Begin, TransportInv, StartInv, TransportLives
<1>21. CASE AppendHeader
  BY <1>21, <1>0 DEF AppendHeader, Stopped, TransportInv, StartInv, TransportLives
<1>22. CASE CallStart
  BY <1>22, <1>0 DEF CallStart, Begin, External, TransportInv, StartInv, TransportLives
<1>23. CASE Stop
  BY <1>23, <1>0 DEF Stop, TransportInv, StartInv, TransportLives
<1>24. CASE Destroy
  BY <1>24 DEF Destroy, Destroyed, Gone, TransportInv, StartInv, TransportLives
<1>25. CASE UNCHANGED vars
  BY <1>25, <1>0 DEF vars, External, TransportInv, StartInv, TransportLives
<1> QED
  BY <1>4, <1>5, <1>6, <1>7, <1>8, <1>9, <1>10, <1>11, <1>12, <1>13, <1>14, <1>15,
     <1>16, <1>17, <1>18, <1>19, <1>20, <1>21, <1>22, <1>23, <1>24, <1>25 DEF Next, Step

\* The transport never points into a list that is destroyed or half made, and a
\* client that runs has a transport and a port, whatever fails in between.
THEOREM TransportIsAlive == Spec => []TransportLives
<1>1. Init => TransportInv
  BY DEF Init, TransportInv, StartInv, TransportLives
<1>2. TypeOK /\ TransportInv /\ [Next]_vars => TransportInv'
  BY TransportStep
<1>3. TransportInv => TransportLives
  BY DEF TransportInv
<1> QED
  BY <1>1, <1>2, <1>3, ConfigTypeCorrect, PTL DEF Spec

-----------------------------------------------------------------------------
(* What the configuration of a new client comes to                         *)

\* The steps of init that set an option from the URI, from the configuration.
UriAt(o) ==
  CASE o = "scheme" -> 8 [] o = "host" -> 9 [] o = "path" -> 10 [] o = "port" -> 11
    [] o = "password" -> 13 [] o = "username" -> 14
ConfigAt(o) ==
  CASE o = "scheme" -> 5 [] o = "host" -> 16 [] o = "port" -> 17 [] o = "username" -> 18
    [] o = "password" -> 19 [] o = "uri" -> 21 [] o = "path" -> 22
    [] o = "subprotocol" -> 23 [] o = "user_agent" -> 24 [] o = "headers" -> 25

\* The URI, or the configuration, has set an option before step n of init.
FromUri(o, n)    == o \in parts /\ UriAt(o) < n
FromConfig(o, n) == o \in given /\ ConfigAt(o) < n

\* What the steps before step n have made of the configuration.  The
\* authentication is made at step 20, and no later step replaces the user or
\* the password that it has.
MergedBefore(n) ==
  /\ \A o \in Options \ {"scheme"} :
       cfg[o] = IF FromConfig(o, n) THEN "config" ELSE IF FromUri(o, n) THEN "uri" ELSE "none"
  /\ cfg["scheme"] = IF FromUri("scheme", n) THEN "uri"
                     ELSE IF FromConfig("scheme", n) THEN "config"
                     ELSE IF 26 < n THEN "default" ELSE "none"
  /\ auth = IF 20 < n /\ {"username", "password"} \subseteq given \cup parts
            THEN <<cfg["username"], cfg["password"]>> ELSE NoAuth

MergeInv ==
  /\ client = "none" => cfg = Nothing /\ auth = NoAuth
  /\ call = "init" => again = FALSE /\ MergedBefore(at)
  /\ Merged


\* The order of those steps: no two options have the same, and the configuration
\* comes after the URI but for the scheme.
LEMMA Positions ==
  /\ \A o \in Options : ConfigAt(o) \in {5, 16, 17, 18, 19, 21, 22, 23, 24, 25}
  /\ \A o \in Parts : UriAt(o) \in {8, 9, 10, 11, 13, 14}
  /\ \A o, p \in Options : ConfigAt(o) = ConfigAt(p) => o = p
  /\ \A o, p \in Parts : UriAt(o) = UriAt(p) => o = p
  /\ \A o \in Parts \ {"scheme"} : UriAt(o) < ConfigAt(o)
<1>1. \A o \in Options : ConfigAt(o) \in {5, 16, 17, 18, 19, 21, 22, 23, 24, 25}
  BY DEF ConfigAt, Options, Parts
<1>2. \A o \in Parts : UriAt(o) \in {8, 9, 10, 11, 13, 14}
  BY DEF UriAt, Options, Parts
<1>3. \A o, p \in Options : ConfigAt(o) = ConfigAt(p) => o = p
  BY DEF ConfigAt, Options, Parts
<1>4. \A o, p \in Parts : UriAt(o) = UriAt(p) => o = p
  BY DEF UriAt, Options, Parts
<1>5. \A o \in Parts \ {"scheme"} : UriAt(o) < ConfigAt(o)
  BY DEF UriAt, ConfigAt, Options, Parts
<1> QED
  BY <1>1, <1>2, <1>3, <1>4, <1>5

\* The elements of set_uri and set_config.
LEMMA UriPlanIs ==
  /\ UriPlan[1][1] = "check" /\ UriPlan[2] = <<"uri", "scheme">>
  /\ UriPlan[3] = <<"uri", "host">> /\ UriPlan[4] = <<"uri", "path">>
  /\ UriPlan[5] = <<"uri", "port">> /\ UriPlan[6][1] = "user_info"
  /\ UriPlan[7] = <<"uri", "password">> /\ UriPlan[8] = <<"uri", "username">>
  /\ UriPlan[9][1] = "free"
<1> DEFINE p6 == <<"user_info", "">>
           p9 == <<"free", "">>
<1>1. UriPlan = << <<"check", "uri">>, <<"uri", "scheme">>, <<"uri", "host">>,
                   <<"uri", "path">>, <<"uri", "port">>, p6, <<"uri", "password">>,
                   <<"uri", "username">>, p9 >>
  BY DEF UriPlan
<1>2. p6[1] = "user_info" /\ p9[1] = "free"
  OBVIOUS
<1> HIDE DEF p6, p9
<1> QED
  BY <1>1, <1>2

LEMMA ConfigPlanIs ==
  /\ ConfigPlan[1] = <<"config", "host">> /\ ConfigPlan[2] = <<"config", "port">>
  /\ ConfigPlan[3] = <<"config", "username">> /\ ConfigPlan[4] = <<"config", "password">>
  /\ ConfigPlan[5][1] = "auth" /\ ConfigPlan[6] = <<"config", "uri">>
  /\ ConfigPlan[7] = <<"config", "path">> /\ ConfigPlan[8] = <<"config", "subprotocol">>
  /\ ConfigPlan[9] = <<"config", "user_agent">> /\ ConfigPlan[10] = <<"config", "headers">>
<1> DEFINE p5 == <<"auth", "">>
<1>1. ConfigPlan = << <<"config", "host">>, <<"config", "port">>, <<"config", "username">>,
                      <<"config", "password">>, p5, <<"config", "uri">>, <<"config", "path">>,
                      <<"config", "subprotocol">>, <<"config", "user_agent">>,
                      <<"config", "headers">> >>
  BY DEF ConfigPlan
<1>2. p5[1] = "auth"
  OBVIOUS
<1> HIDE DEF p5
<1> QED
  BY <1>1, <1>2

\* They are the steps of the plan.
LEMMA UriSteps ==
  ASSUME NEW n \in {8, 9, 10, 11, 13, 14}
  PROVE  InitPlan[n][1] = "uri" /\ InitPlan[n][2] \in Parts /\ UriAt(InitPlan[n][2]) = n
<1>1. \A i \in 1..9 : InitPlan[6 + i] = UriPlan[i]
  BY InitPlanParts
<1>2. n - 6 \in 1..9 /\ 6 + (n - 6) = n
  OBVIOUS
<1>3. InitPlan[n] = UriPlan[n - 6]
  BY <1>1, <1>2
<1> QED
  BY <1>3, UriPlanIs DEF UriAt, Parts

LEMMA ConfigSteps ==
  ASSUME NEW n \in {5, 16, 17, 18, 19, 21, 22, 23, 24, 25}
  PROVE  InitPlan[n][1] = "config" /\ InitPlan[n][2] \in Options /\ ConfigAt(InitPlan[n][2]) = n
<1>1. CASE n = 5
  <2>1. InitPlan[5] = InitHead[5]
    BY InitPlanParts
  <2> QED
    BY <1>1, <2>1 DEF InitHead, ConfigAt, Options, Parts
<1>2. CASE n # 5
  <2>1. \A i \in 1..10 : InitPlan[15 + i] = ConfigPlan[i]
    BY InitPlanParts
  <2>2. n - 15 \in 1..10 /\ 15 + (n - 15) = n
    BY <1>2
  <2>3. InitPlan[n] = ConfigPlan[n - 15]
    BY <2>1, <2>2
  <2> QED
    BY <1>2, <2>3, ConfigPlanIs DEF ConfigAt, Options, Parts
<1> QED
  BY <1>1, <1>2

\* The others set no option but the scheme's default.
LEMMA OtherSteps ==
  /\ InitPlan[20][1] = "auth" /\ InitPlan[26] = <<"default", "scheme">>
  /\ \A n \in {1, 2, 3, 4, 6, 7, 12, 15, 27, 28, 29} :
       InitPlan[n][1] \in {"take", "check", "user_info", "free"}
  /\ InitPlan[29][1] = "take"
<1>1. \A n \in {1, 2, 3, 4, 6} : InitPlan[n][1] \in {"take", "check"}
  <2>1. /\ InitPlan[1] = InitHead[1] /\ InitPlan[2] = InitHead[2]
        /\ InitPlan[3] = InitHead[3] /\ InitPlan[4] = InitHead[4]
        /\ InitPlan[6] = InitHead[6]
    BY InitPlanParts
  <2> QED
    BY <2>1 DEF InitHead
<1>2. /\ InitPlan[6 + 1] = UriPlan[1] /\ InitPlan[6 + 6] = UriPlan[6]
      /\ InitPlan[6 + 9] = UriPlan[9] /\ InitPlan[15 + 5] = ConfigPlan[5]
      /\ InitPlan[25 + 1] = InitTail[1] /\ InitPlan[25 + 2] = InitTail[2]
      /\ InitPlan[25 + 3] = InitTail[3] /\ InitPlan[25 + 4] = InitTail[4]
  BY InitPlanParts
<1>3. /\ InitPlan[7][1] = "check" /\ InitPlan[12][1] = "user_info" /\ InitPlan[15][1] = "free"
  BY <1>2, UriPlanIs
<1>4. InitPlan[20][1] = "auth"
  BY <1>2, ConfigPlanIs
<1>5. /\ InitPlan[26] = <<"default", "scheme">> /\ InitPlan[27][1] = "take"
      /\ InitPlan[28][1] = "take" /\ InitPlan[29][1] = "take"
  BY <1>2 DEF InitTail
<1> QED
  BY <1>1, <1>3, <1>4, <1>5

\* What it takes for the n-th step of init to be of kind k, about w.
Fits(n, k, w) ==
  /\ \A o \in Options : ConfigAt(o) = n <=> k = "config" /\ o = w
  /\ \A o \in Parts : UriAt(o) = n <=> k = "uri" /\ o = w
  /\ k = "uri" => w \in Parts
  /\ k = "config" => w \in Options
  /\ n = 20 <=> k = "auth"
  /\ n = 26 <=> k = "default"
  /\ k = "default" => w = "scheme"
  /\ n = 29 => k = "take"
  /\ k \notin {"list", "tcp", "ws", "task"}

\* It is so of every step.
LEMMA InitStepFits ==
  ASSUME NEW n \in 1..29
  PROVE  Fits(n, InitPlan[n][1], InitPlan[n][2])
<1>1. CASE n \in {8, 9, 10, 11, 13, 14}
  BY <1>1, UriSteps, Positions DEF Fits
<1>2. CASE n \in {5, 16, 17, 18, 19, 21, 22, 23, 24, 25}
  BY <1>2, ConfigSteps, Positions DEF Fits
<1>3. CASE n = 20
  BY <1>3, OtherSteps, Positions DEF Fits
<1>4. CASE n = 26
  BY <1>4, OtherSteps, Positions DEF Fits
<1>5. CASE n \in {1, 2, 3, 4, 6, 7, 12, 15, 27, 28, 29}
  BY <1>5, OtherSteps, Positions DEF Fits
<1> QED
  BY <1>1, <1>2, <1>3, <1>4, <1>5

\* What is done at the step where init is.
LEMMA InitStep ==
  ASSUME TypeOK, call = "init"
  PROVE  /\ at \in 1..29 /\ Len(Plan) = 29 /\ After = "fresh"
         /\ Fits(at, Plan[at][1], What)
<1>1. Plan = InitPlan /\ Len(InitPlan) = 29
  BY InitPlanParts DEF Plan
<1>2. at \in 1..29 /\ Len(Plan) = 29 /\ After = "fresh"
  BY <1>1 DEF TypeOK, CallOK, After
<1> QED
  BY <1>1, <1>2, InitStepFits DEF What

\* Option o has a source of this kind, and the step at hand sets it from there.
SetHere(kind, source, o) == o \in source /\ Now(kind) /\ What = o

\* What the step at hand adds to those before.
LEMMA StepAdds ==
  ASSUME TypeOK, call = "init", NEW n, n = at + 1, UNCHANGED <<given, parts>>
  PROVE  /\ \A o \in Options :
              FromConfig(o, n)' <=> FromConfig(o, at) \/ SetHere("config", given, o)
         /\ \A o \in Options : FromUri(o, n)' <=> FromUri(o, at) \/ SetHere("uri", parts, o)
         /\ 26 < n <=> 26 < at \/ Now("default")
         /\ 20 < n <=> 20 < at \/ Now("auth")
<1>1. at \in 1..29 /\ Fits(at, Plan[at][1], What)
  BY InitStep
<1>2. parts \subseteq Parts /\ Parts \subseteq Options
  BY UriParts DEF TypeOK, StoreOK, Options
<1>3. \A k : Now(k) <=> Plan[at][1] = k
  BY DEF Now
<1>4. \A o \in Options : FromConfig(o, n)' <=> FromConfig(o, at) \/ SetHere("config", given, o)
  <2> SUFFICES ASSUME NEW o \in Options
               PROVE  FromConfig(o, n)' <=> FromConfig(o, at) \/ SetHere("config", given, o)
    OBVIOUS
  <2>1. ConfigAt(o) \in Nat /\ (ConfigAt(o) = at <=> Now("config") /\ What = o)
    BY <1>1, <1>3, Positions DEF Fits
  <2>2. FromConfig(o, n)' <=> o \in given /\ ConfigAt(o) < n
    BY DEF FromConfig
  <2> QED
    BY <1>1, <2>1, <2>2 DEF FromConfig, SetHere
<1>5. \A o \in Options : FromUri(o, n)' <=> FromUri(o, at) \/ SetHere("uri", parts, o)
  <2> SUFFICES ASSUME NEW o \in Options
               PROVE  FromUri(o, n)' <=> FromUri(o, at) \/ SetHere("uri", parts, o)
    OBVIOUS
  <2>1. FromUri(o, n)' <=> o \in parts /\ UriAt(o) < n
    BY DEF FromUri
  <2>2. CASE o \in Parts
    <3>1. UriAt(o) \in Nat /\ (UriAt(o) = at <=> Now("uri") /\ What = o)
      BY <2>2, <1>1, <1>3, Positions DEF Fits
    <3> QED
      BY <1>1, <2>1, <3>1 DEF FromUri, SetHere
  <2>3. CASE o \notin Parts
    BY <1>2, <2>1, <2>3 DEF FromUri, SetHere
  <2> QED
    BY <2>2, <2>3
<1>6. /\ at = 20 <=> Now("auth")
      /\ at = 26 <=> Now("default")
  BY <1>1, <1>3 DEF Fits
<1> QED
  BY <1>1, <1>4, <1>5, <1>6

\* A step that sets no option and makes no authentication, where it would have
\* to, leaves what the plan has come to.
LEMMA Leaves ==
  ASSUME TypeOK, MergeInv, call = "init", NEW n, n = at + 1,
         UNCHANGED <<given, parts, cfg, auth>>, ~Now("auth"),
         Now("uri") => What \notin parts, Now("config") => What \notin given,
         Now("default") => cfg["scheme"] # "none"
  PROVE  MergedBefore(n)'
<1>1. MergedBefore(at)
  BY DEF MergeInv
<1>2. /\ \A o \in Options : /\ FromConfig(o, n)' <=> FromConfig(o, at)
                            /\ FromUri(o, n)' <=> FromUri(o, at)
      /\ 26 < n <=> 26 < at \/ Now("default")
      /\ 20 < n <=> 20 < at
  BY StepAdds DEF SetHere
<1>3. "scheme" \in Options
  BY OptionNames
<1>4. \A o \in Options \ {"scheme"} :
        cfg'[o] = IF FromConfig(o, n)' THEN "config" ELSE IF FromUri(o, n)' THEN "uri" ELSE "none"
  BY <1>1, <1>2 DEF MergedBefore
<1>5. cfg'["scheme"] = IF FromUri("scheme", n)' THEN "uri"
                       ELSE IF FromConfig("scheme", n)' THEN "config"
                       ELSE IF 26 < n THEN "default" ELSE "none"
  BY <1>1, <1>2, <1>3 DEF MergedBefore
<1>6. auth' = IF 20 < n /\ {"username", "password"} \subseteq given' \cup parts'
              THEN <<cfg'["username"], cfg'["password"]>> ELSE NoAuth
  BY <1>1, <1>2 DEF MergedBefore
<1> QED
  BY <1>4, <1>5, <1>6 DEF MergedBefore

\* A step that sets an option.
LEMMA Sets ==
  ASSUME TypeOK, MergeInv, call = "init", NEW n, n = at + 1, SetOption
  PROVE  MergedBefore(n)'
<1>1. MergedBefore(at) /\ again = FALSE
  BY DEF MergeInv
<1>2. /\ cfg' = [cfg EXCEPT ![What] = Origin] /\ auth' = auth
      /\ UNCHANGED <<given, parts>> /\ Has
  BY DEF SetOption, inputs
<1>3. at \in 1..29 /\ Fits(at, Plan[at][1], What)
  BY InitStep
<1>4. \A k : Now(k) <=> Plan[at][1] = k
  BY DEF Now
<1>5. /\ \A o \in Options : FromConfig(o, n)' <=> FromConfig(o, at) \/ SetHere("config", given, o)
      /\ \A o \in Options : FromUri(o, n)' <=> FromUri(o, at) \/ SetHere("uri", parts, o)
      /\ 26 < n <=> 26 < at \/ Now("default")
      /\ 20 < n <=> 20 < at \/ Now("auth")
  BY <1>2, StepAdds
<1>6. ~Now("auth")
  BY <1>2, <1>4 DEF Has
<1>7. cfg \in [Options -> {"none"} \cup Origins] /\ parts \subseteq Parts /\ Parts \subseteq Options
  BY UriParts DEF TypeOK, StoreOK, Options
<1>8. What \in Options
  BY <1>2, <1>3, <1>4, <1>7, OptionNames DEF Has, Fits
<1>9. /\ cfg'[What] = Origin
      /\ \A o \in Options \ {What} : cfg'[o] = cfg[o]
  BY <1>2, <1>7, <1>8
<1>10. Now("uri") => Origin = "uri" /\ What \in parts
  BY <1>1, <1>2, <1>4 DEF Origin, Source, Has
<1>11. Now("config") => Origin = "config" /\ What \in given
  BY <1>2, <1>4 DEF Origin, Has
<1>12. Now("default") => Origin = "default" /\ What = "scheme" /\ cfg["scheme"] = "none"
  BY <1>2, <1>3, <1>4 DEF Origin, Has, Fits
<1>13. Now("uri") \/ Now("config") \/ Now("default")
  BY <1>2 DEF Has
<1>14. Now("uri") => UriAt(What) = at
  BY <1>3, <1>4 DEF Fits
<1>15. Now("config") => ConfigAt(What) = at
  BY <1>3, <1>4, <1>8 DEF Fits
<1>16. \A o \in Options \ {"scheme"} :
         cfg'[o] = IF FromConfig(o, n)' THEN "config" ELSE IF FromUri(o, n)' THEN "uri" ELSE "none"
  <2> SUFFICES ASSUME NEW o \in Options \ {"scheme"}
               PROVE  cfg'[o] = IF FromConfig(o, n)' THEN "config"
                                ELSE IF FromUri(o, n)' THEN "uri" ELSE "none"
    OBVIOUS
  <2>1. CASE o # What
    BY <2>1, <1>1, <1>5, <1>9 DEF MergedBefore, SetHere
  <2>2. CASE o = What /\ Now("config")
    BY <2>2, <1>5, <1>9, <1>11 DEF SetHere
  <2>3. CASE o = What /\ Now("uri")
    <3>1. ~FromConfig(o, at) /\ ~Now("config")
      BY <2>3, <1>3, <1>4, <1>7, <1>10, <1>14, Positions DEF FromConfig
    <3> QED
      BY <2>3, <3>1, <1>5, <1>9, <1>10 DEF SetHere
  <2>4. CASE o = What /\ Now("default")
    BY <2>4, <1>12
  <2> QED
    BY <2>1, <2>2, <2>3, <2>4, <1>13
<1>17. cfg'["scheme"] = IF FromUri("scheme", n)' THEN "uri"
                        ELSE IF FromConfig("scheme", n)' THEN "config"
                        ELSE IF 26 < n THEN "default" ELSE "none"
  <2>1. CASE What # "scheme"
    <3>1. ~Now("default")
      BY <2>1, <1>12
    <3> QED
      BY <2>1, <3>1, <1>1, <1>5, <1>9, OptionNames DEF MergedBefore, SetHere
  <2>2. CASE What = "scheme" /\ Now("config")
    <3>1. ~FromUri("scheme", at) /\ ~Now("uri")
      BY <2>2, <1>4, <1>15 DEF FromUri, UriAt, ConfigAt
    <3> QED
      BY <2>2, <3>1, <1>5, <1>8, <1>9, <1>11 DEF SetHere
  <2>3. CASE What = "scheme" /\ Now("uri")
    BY <2>3, <1>5, <1>8, <1>9, <1>10 DEF SetHere
  <2>4. CASE What = "scheme" /\ Now("default")
    <3>1. ~FromUri("scheme", at) /\ ~FromConfig("scheme", at)
      BY <2>4, <1>1, <1>12 DEF MergedBefore
    <3>2. ~Now("uri") /\ ~Now("config")
      BY <2>4, <1>4
    <3> QED
      BY <2>4, <3>1, <3>2, <1>5, <1>8, <1>9, <1>12 DEF SetHere
  <2> QED
    BY <2>1, <2>2, <2>3, <2>4, <1>13
<1>18. auth' = IF 20 < n /\ {"username", "password"} \subseteq given' \cup parts'
               THEN <<cfg'["username"], cfg'["password"]>> ELSE NoAuth
  <2>1. CASE 20 < at
    <3>1. What \notin {"username", "password"}
      BY <2>1, <1>12, <1>13, <1>14, <1>15 DEF UriAt, ConfigAt
    <3>2. cfg'["username"] = cfg["username"] /\ cfg'["password"] = cfg["password"]
      BY <3>1, <1>9, OptionNames
    <3> QED
      BY <2>1, <3>2, <1>1, <1>2, <1>5 DEF MergedBefore
  <2>2. CASE ~(20 < at)
    BY <2>2, <1>1, <1>2, <1>5, <1>6 DEF MergedBefore
  <2> QED
    BY <2>1, <2>2
<1> QED
  BY <1>16, <1>17, <1>18 DEF MergedBefore

\* The step that makes the authentication: the user and the password are what
\* they will be.
LEMMA MakesAuth ==
  ASSUME TypeOK, MergeInv, call = "init", NEW n, n = at + 1, MakeAuth
  PROVE  MergedBefore(n)'
<1>1. MergedBefore(at)
  BY DEF MergeInv
<1>2. /\ cfg' = cfg /\ UNCHANGED <<given, parts>> /\ Now("auth")
      /\ auth' = IF Credentials THEN <<cfg["username"], cfg["password"]>> ELSE auth
  BY DEF MakeAuth, inputs
<1>3. at = 20
  BY <1>2, InitStep DEF Fits, Now
<1>4. ~Now("uri") /\ ~Now("config") /\ ~Now("default")
  BY <1>2 DEF Now
<1>5. /\ \A o \in Options : /\ FromConfig(o, n)' <=> FromConfig(o, at)
                            /\ FromUri(o, n)' <=> FromUri(o, at)
      /\ n = 21
  BY <1>2, <1>3, <1>4, StepAdds DEF SetHere
<1>6. /\ cfg["username"] # "none" <=> "username" \in given \cup parts
      /\ cfg["password"] # "none" <=> "password" \in given \cup parts
  <2>1. \A o \in {"username", "password"} :
          /\ FromConfig(o, at) <=> o \in given
          /\ FromUri(o, at) <=> o \in parts
    BY <1>3 DEF FromConfig, FromUri, ConfigAt, UriAt
  <2> QED
    BY <2>1, <1>1, OptionNames DEF MergedBefore
<1>7. auth = NoAuth
  BY <1>1, <1>3 DEF MergedBefore
<1>8. Credentials <=> {"username", "password"} \subseteq given \cup parts
  BY <1>6 DEF Credentials
<1>9. auth' = IF 20 < n /\ {"username", "password"} \subseteq given' \cup parts'
              THEN <<cfg'["username"], cfg'["password"]>> ELSE NoAuth
  BY <1>2, <1>5, <1>7, <1>8
<1>10. \A o \in Options \ {"scheme"} :
         cfg'[o] = IF FromConfig(o, n)' THEN "config" ELSE IF FromUri(o, n)' THEN "uri" ELSE "none"
  BY <1>1, <1>2, <1>5 DEF MergedBefore
<1>11. cfg'["scheme"] = IF FromUri("scheme", n)' THEN "uri"
                        ELSE IF FromConfig("scheme", n)' THEN "config"
                        ELSE IF 26 < n THEN "default" ELSE "none"
  BY <1>1, <1>2, <1>3, <1>5, OptionNames DEF MergedBefore
<1> QED
  BY <1>9, <1>10, <1>11 DEF MergedBefore

\* What all 29 steps come to.
LEMMA AllMerged ==
  ASSUME MergedBefore(30)', parts' \subseteq Parts
  PROVE  Merged'
<1>1. \A o \in Options : FromConfig(o, 30)' <=> o \in given'
  BY Positions DEF FromConfig
<1>2. \A o \in Options : FromUri(o, 30)' <=> o \in parts'
  BY Positions DEF FromUri
<1>3. \A o \in Options \ {"scheme"} :
        cfg'[o] = CASE o \in given' -> "config" [] o \in parts' \ given' -> "uri"
                    [] OTHER -> "none"
  BY <1>1, <1>2 DEF MergedBefore
<1>4. cfg'["scheme"] = CASE "scheme" \in parts' -> "uri"
                         [] "scheme" \in given' \ parts' -> "config" [] OTHER -> "default"
  BY <1>1, <1>2, OptionNames DEF MergedBefore
<1> QED
  BY <1>3, <1>4 DEF MergedBefore, Merged

\* A step of init that goes on.
LEMMA InitProceeds ==
  ASSUME TypeOK, MergeInv, call = "init", Proceed, UNCHANGED inputs,
         NEW n, n = at + 1, MergedBefore(n)'
  PROVE  MergeInv'
<1>1. at \in 1..29 /\ Len(Plan) = 29 /\ After = "fresh"
  BY InitStep
<1>2. again = FALSE /\ client = "making" /\ parts \subseteq Parts
  BY UriParts DEF MergeInv, TypeOK, CallOK, StoreOK
<1>3. again' = FALSE /\ parts' = parts
  BY <1>2 DEF inputs
<1>4. CASE at < 29
  <2>1. at' = n /\ client' = "making" /\ call' = "init"
    BY <1>1, <1>2, <1>4 DEF Proceed
  <2>2. MergedBefore(at)'
    BY <2>1 DEF MergedBefore, FromUri, FromConfig
  <2> QED
    BY <1>3, <2>1, <2>2 DEF MergeInv, Merged
<1>5. CASE at = 29
  <2>1. client' = "fresh" /\ call' = "none" /\ n = 30
    BY <1>1, <1>5 DEF Proceed
  <2>2. Merged'
    BY <1>2, <1>3, <2>1, AllMerged
  <2> QED
    BY <2>1, <2>2 DEF MergeInv
<1> QED
  BY <1>1, <1>4, <1>5

\* Steps of other calls, and of the application, leave no fresh client.
LEMMA NotFresh ==
  ASSUME client' \in {"ready", "running"}, call' # "init"
  PROVE  MergeInv'
BY DEF MergeInv, Merged

LEMMA OtherProceeds ==
  ASSUME TypeOK, call \in {"set_uri", "start"}, Proceed
  PROVE  MergeInv'
<1>1. After \in {"ready", "running"}
  BY DEF After
<1>2. client = "ready"
  BY DEF TypeOK, CallOK
<1> QED
  BY <1>1, <1>2, NotFresh DEF Proceed

\* A call that gives up leaves none, or a client that is not new.
LEMMA GivesUpMerges ==
  ASSUME NEW leak, GivesUp(leak)
  PROVE  MergeInv'
<1>1. CASE call = "init"
  <2>1. client' = "none" /\ call' = "none" /\ cfg' = Nothing /\ auth' = NoAuth
    BY <1>1 DEF GivesUp, Destroyed, Restarted, Gone
  <2> QED
    BY <2>1 DEF MergeInv, Merged
<1>2. CASE call # "init"
  BY <1>2, NotFresh DEF GivesUp
<1> QED
  BY <1>1, <1>2

LEMMA MergeStep ==
  ASSUME TypeOK, MergeInv, [Next]_vars
  PROVE  MergeInv'
<1> USE DEF inputs, store, conn
<1>0. TypeOK /\ MergeInv
  OBVIOUS
<1>a. PICK n : n = at + 1
  OBVIOUS
<1>1. ASSUME NEW k, Now(k)
      PROVE  call \in {"init", "set_uri", "start"}
  BY <1>1, <1>0 DEF Now, TypeOK, CallOK
<1>2. ASSUME NEW k \in {"list", "tcp", "ws", "task"}, Now(k)
      PROVE  call = "start"
  <2>1. at \in 1..Len(Plan)
    BY <1>1, <1>2, <1>0 DEF TypeOK, CallOK
  <2> QED
    BY <1>1, <1>2, <2>1, StepFits
<1>3. ASSUME NEW k \in {"take", "check", "user_info", "free"}, Now(k), Proceed,
             UNCHANGED <<inputs, cfg, auth>>
      PROVE  MergeInv'
  <2>1. CASE call = "init"
    <3>1. ~Now("auth") /\ ~Now("uri") /\ ~Now("config") /\ ~Now("default")
      BY <1>3 DEF Now
    <3>2. MergedBefore(n)'
      BY <1>3, <2>1, <3>1, <1>a, Leaves
    <3> QED
      BY <1>3, <2>1, <3>2, <1>a, InitProceeds
  <2>2. CASE call # "init"
    BY <1>1, <1>3, <2>2, OtherProceeds
  <2> QED
    BY <2>1, <2>2
<1>4. CASE Take
  BY <1>4, <1>3 DEF Take
<1>5. CASE TakeFails
  BY <1>5, GivesUpMerges DEF TakeFails, NoMemory
<1>6. CASE Check
  BY <1>6, <1>3 DEF Check
<1>7. CASE CheckFails
  BY <1>7, GivesUpMerges DEF CheckFails
<1>8. CASE SetOption
  <2>1. call \in {"init", "set_uri", "start"}
    BY <1>8, <1>1 DEF SetOption, Has
  <2>2. CASE call = "init"
    <3>1. MergedBefore(n)'
      BY <1>8, <2>2, <1>a, Sets
    <3> QED
      BY <1>8, <2>2, <3>1, <1>a, InitProceeds DEF SetOption
  <2>3. CASE call # "init"
    BY <1>8, <2>1, <2>3, OtherProceeds DEF SetOption
  <2> QED
    BY <2>2, <2>3
<1>9. CASE OptionFails
  <2>1. CASE call = "init"
    BY <1>9, <2>1, GivesUpMerges DEF OptionFails
  <2>2. CASE call # "init"
    BY <1>9, <2>2, NotFresh DEF OptionFails
  <2> QED
    BY <2>1, <2>2
<1>10. CASE Pass
  <2>1. call \in {"init", "set_uri", "start"}
    BY <1>10, <1>1 DEF Pass
  <2>2. CASE call = "init"
    <3>1. ~Now("auth")
      BY <1>10 DEF Pass, Now
    <3>2. /\ Now("uri") => What \notin parts
          /\ Now("config") => What \notin given
          /\ Now("default") => cfg[What] # "none"
      BY <1>10 DEF Pass, Has
    <3>3. Now("default") => What = "scheme"
      BY <2>2, InitStep DEF Fits, Now
    <3>4. MergedBefore(n)'
      BY <1>10, <2>2, <3>1, <3>2, <3>3, <1>a, Leaves DEF Pass
    <3> QED
      BY <1>10, <2>2, <3>4, <1>a, InitProceeds DEF Pass
  <2>3. CASE call # "init"
    BY <1>10, <2>1, <2>3, OtherProceeds DEF Pass
  <2> QED
    BY <2>2, <2>3
<1>11. CASE UserInfo
  BY <1>11, <1>3 DEF UserInfo
<1>12. CASE UserInfoFails
  BY <1>12, GivesUpMerges DEF UserInfoFails, NoMemory
<1>13. CASE MakeAuth
  <2>1. CASE call = "init"
    <3>1. MergedBefore(n)'
      BY <1>13, <2>1, <1>a, MakesAuth
    <3> QED
      BY <1>13, <2>1, <3>1, <1>a, InitProceeds DEF MakeAuth
  <2>2. CASE call # "init"
    BY <1>13, <1>1, <2>2, OtherProceeds DEF MakeAuth
  <2> QED
    BY <2>1, <2>2
<1>14. CASE AuthFails
  BY <1>14, GivesUpMerges DEF AuthFails, NoMemory
<1>15. CASE BuildList
  BY <1>15, <1>2, OtherProceeds DEF BuildList
<1>16. CASE BuildFails
  BY <1>16, NotFresh DEF BuildFails
<1>17. CASE BeginTask
  BY <1>17, <1>2, OtherProceeds DEF BeginTask
<1>18. CASE TaskFails
  BY <1>18, GivesUpMerges DEF TaskFails
<1>19. CASE CallInit
  <2>1. /\ client' = "making" /\ call' = "init" /\ at' = 1 /\ again' = FALSE
        /\ cfg' = Nothing /\ auth' = NoAuth
    BY <1>19, <1>0 DEF CallInit, Begin, MergeInv
  <2>2. \A o \in Options : ~FromConfig(o, at)'
    BY <2>1, Positions DEF FromConfig
  <2>3. \A o \in Options : ~FromUri(o, at)'
    <3>1. parts' \subseteq Parts
      BY <1>19, UriParts DEF CallInit
    <3> QED
      BY <2>1, <3>1, Positions DEF FromUri
  <2>4. MergedBefore(at)'
    BY <2>1, <2>2, <2>3, OptionNames DEF MergedBefore, Nothing
  <2> QED
    BY <2>1, <2>4 DEF MergeInv, Merged
<1>20. CASE CallSetUri
  BY <1>20, NotFresh DEF CallSetUri, Begin
<1>21. CASE AppendHeader
  BY <1>21, NotFresh DEF AppendHeader, Stopped
<1>22. CASE CallStart
  BY <1>22, NotFresh DEF CallStart, Begin
<1>23. CASE Stop
  BY <1>23, <1>0, NotFresh DEF Stop, TypeOK, CallOK
<1>24. CASE Destroy
  BY <1>24 DEF Destroy, Destroyed, Gone, MergeInv, Merged
<1>25. CASE UNCHANGED vars
  BY <1>25, <1>0 DEF vars, MergeInv, MergedBefore, FromUri, FromConfig, Merged
<1> QED
  BY <1>4, <1>5, <1>6, <1>7, <1>8, <1>9, <1>10, <1>11, <1>12, <1>13, <1>14, <1>15, <1>16,
     <1>17, <1>18, <1>19, <1>20, <1>21, <1>22, <1>23, <1>24, <1>25 DEF Next, Step

\* A client that init has made has of each option what the configuration gives,
\* else what the URI has, but the URI's scheme first; and the authentication of
\* the user and the password that it ended with, wherever those came from.
THEOREM ConfigIsMerged == Spec => []Merged
<1>1. Init => MergeInv
  BY DEF Init, MergeInv, Merged
<1>2. TypeOK /\ MergeInv /\ [Next]_vars => MergeInv'
  BY MergeStep
<1>3. MergeInv => Merged
  BY DEF MergeInv
<1> QED
  BY <1>1, <1>2, <1>3, ConfigTypeCorrect, PTL DEF Spec
=============================================================================
