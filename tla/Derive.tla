------------------------------- MODULE Derive -------------------------------
(***************************************************************************)
(* gsp_ball_data_derive of src/src/gs_misc.c: the one derivation, of one   *)
(* representation of the spin from the other.  A ball is a record: the     *)
(* fields present with their values in halves, and the set of the derived. *)
(*                                                                         *)
(* The trigonometry is exact on the axes, where this definition is to be   *)
(* used: a pair has a zero in it, an axis is a multiple of 90 degrees.     *)
(***************************************************************************)
EXTENDS Integers, TLC

Magnitude(h) == IF h < 0 THEN -h ELSE h

hypot(back, side) == Magnitude(back) + Magnitude(side)

(* atan2 in degrees, as halves. *)
atan2(side, back) ==
  CASE side > 0 -> 180
    [] side < 0 -> -180
    [] side = 0 /\ back < 0 -> 360
    [] OTHER -> 0

Quarter(axis) == (axis \div 180) % 4

cos(axis) == [q \in 0..3 |-> IF q = 0 THEN 1 ELSE IF q = 2 THEN -1 ELSE 0][Quarter(axis)]
sin(axis) == [q \in 0..3 |-> IF q = 1 THEN 1 ELSE IF q = 3 THEN -1 ELSE 0][Quarter(axis)]

HasPair(b) == {"BackSpin", "SideSpin"} \subseteq DOMAIN b.v

(* Mutant: any zero total is a placeholder. *)
any_zero(b) == "TotalSpin" \in DOMAIN b.v /\ b.v["TotalSpin"] = 0

(* The one zero that says "unmeasured". *)
Placeholder(b) ==
  /\ "TotalSpin" \in DOMAIN b.v /\ b.v["TotalSpin"] = 0
  /\ HasPair(b) /\ (b.v["BackSpin"] # 0 \/ b.v["SideSpin"] # 0)

HasTotal(b) == "TotalSpin" \in DOMAIN b.v /\ ~Placeholder(b)
HasAxis(b)  == "SpinAxis" \in DOMAIN b.v /\ ~Placeholder(b)

(* Fields that become present, with their values. *)
Derived(b, new) == [v |-> new @@ b.v, derived |-> b.derived \cup DOMAIN new]

FromPair(b) ==
  Derived(b,
    [k \in (IF HasTotal(b) THEN {} ELSE {"TotalSpin"}) \cup (IF HasAxis(b) THEN {} ELSE {"SpinAxis"}) |->
       IF k = "TotalSpin" THEN hypot(b.v["BackSpin"], b.v["SideSpin"])
       ELSE atan2(b.v["SideSpin"], b.v["BackSpin"])])

FromPolar(b) ==
  Derived(b,
    [k \in {"BackSpin", "SideSpin"} \ DOMAIN b.v |->
       b.v["TotalSpin"] * (IF k = "BackSpin" THEN cos(b.v["SpinAxis"]) ELSE sin(b.v["SpinAxis"]))])

(* The two representations differ by more than one percent: both axes are  *)
(* exact here, so by anything.                                             *)
Disagree(b) ==
  100 * hypot(b.v["TotalSpin"] * cos(b.v["SpinAxis"]) - b.v["BackSpin"],
              b.v["TotalSpin"] * sin(b.v["SpinAxis"]) - b.v["SideSpin"])
    > Magnitude(b.v["TotalSpin"])

gsp_ball_data_derive(b) ==
  CASE HasPair(b) /\ HasTotal(b) /\ HasAxis(b) ->
         [status |-> IF Disagree(b) THEN "PENDING" ELSE "OK", ball |-> b]
    [] HasPair(b) /\ ~(HasTotal(b) /\ HasAxis(b)) -> [status |-> "OK", ball |-> FromPair(b)]
    [] ~HasPair(b) /\ HasTotal(b) /\ HasAxis(b)   -> [status |-> "OK", ball |-> FromPolar(b)]
    [] OTHER                                      -> [status |-> "OK", ball |-> b]
=============================================================================
