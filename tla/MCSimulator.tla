----------------------------- MODULE MCSimulator -----------------------------
(* Configuration files for Simulator: the one in conf/, and changes of it. *)
EXTENDS Simulator, TLC

CONSTANTS conf, d

MCFiles   == {conf}
MCTexts   == {"0", "1", "2", "3", "64", "65", "1,5,8", "2,4,8", "1,5", "8",
              "2,0,8", "-64,-256,4", ",", "0,1,2", "1,2,2", "x"}
MCTokens  == [t \in MCTexts |->
  CASE t = "1,5,8" -> <<1, 5, 8>> [] t = "2,4,8" -> <<2, 4, 8>>
    [] t = "1,5" -> <<1, 5>>      [] t = "8" -> <<8>>
    [] t = "2,0,8" -> <<2, 0, 8>> [] t = "-64,-256,4" -> <<-64, -256, 4>>
    [] t = "," -> <<>>            [] t = "0,1,2" -> <<0, 1, 2>>
    [] t = "1,2,2" -> <<1, 2, 2>> [] t = "0" -> <<0>> [] t = "1" -> <<1>>
    [] t = "2" -> <<2>>           [] t = "3" -> <<3>> [] t = "64" -> <<64>>
    [] t = "65" -> <<65>>         [] t = "x" -> <<0>>]
MCNumber  == [t \in MCTexts |->
  CASE t = "0" -> 0 [] t = "1" -> 1 [] t = "2" -> 2 [] t = "3" -> 3
    [] t = "8" -> 8 [] t = "64" -> 64 [] t = "65" -> 65 [] OTHER -> NaN]
MCTrimmed == [t \in MCTexts |-> t]
MCGarbage == {-1, 0, 3}
MCIntModulus == 1024

Set(p, t) == [kind |-> "set", parameter |-> p, value |-> t]

(* conf/cfg.cache at this commit, and with another type.                   *)
Shipped == << Set("arch", "1"), Set("type", "0"), Set("level", "3"),
              Set("linesize", "64"), Set("lvsize", "1,5,8"), Set("sw", "2,4,8"),
              Set("hierarchy", "0,1,2"), Set("policy", "1,2,2") >>
Accepted == [Shipped EXCEPT ![2] = Set("type", "1")]
NoLine   == [kind |-> "skip"]

AWorld(files, lines) ==
  [main |-> conf, files |-> files, lines |-> conf :> lines,
   members |-> [x \in Dirs |-> {}]]

(* Each line changed in the ways that matter to main, or left out, and two *)
(* of the lines main splits changed together.                              *)
Lists == {"1,5,8", "2,4,8", "1,5", "8", "2,0,8", "-64,-256,4", ",", "0,1,2"}
Changes ==
  << {"1", "2"}, {"0", "1", "2"}, {"0", "2", "3", "x"}, {"0", "64", "65"},
     Lists, Lists, {"0,1,2"}, {"1,2,2"} >>
LineOf(i, t) == IF t = NULL THEN NoLine ELSE Set(Accepted[i].parameter, t)

OneChange ==
  UNION {{[Accepted EXCEPT ![i] = LineOf(i, t)] : t \in Changes[i] \cup {NULL}}
           : i \in DOMAIN Accepted}
ThreeChanges ==
  {[Accepted EXCEPT ![3] = LineOf(3, v), ![5] = LineOf(5, l), ![6] = LineOf(6, s)] :
     v \in {"2", "3"}, l \in Lists, s \in Lists}

ManyLines == {Shipped} \cup OneChange \cup ThreeChanges
Included == [kind |-> "include", glob |-> [form |-> "slash", path |-> d, match |-> {}]]
Many == {AWorld({conf}, l) : l \in ManyLines \cup {Accepted \o <<Included>>}}
          \cup {AWorld({}, Accepted)}
MCWorlds == [w \in Many |-> w]

(* The shipped file, and the accepted one.                                 *)
ShippedWorld  == [w \in {"shipped"} |-> AWorld({conf}, Shipped)]
AcceptedWorld == [w \in {"accepted"} |-> AWorld({conf}, Accepted)]
=============================================================================
