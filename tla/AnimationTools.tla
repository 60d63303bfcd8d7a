--------------------------- MODULE AnimationTools ---------------------------
(***************************************************************************)
(* Animations and what they show, bse/animation_tools.cpp: sampling,       *)
(* posing a scene, retargeting and playing backwards.                      *)
(*                                                                         *)
(* Times are floats of Precision bits, counted in units of the smallest    *)
(* one that occurs, so that sums of them are rounded as a processor rounds.*)
(* A transform is a record of numbers; between two keys its parts are      *)
(* fractions, where the code rounds and turns rotations along an arc.      *)
(***************************************************************************)
EXTENDS SceneModel

CONSTANTS
  Precision,  \* bits of a float's significand: 24 in the code
  Epsilon     \* kEpsilon, in these units: keys no further apart are one step

ASSUME AnimationAssumption == Precision \in Nat \ {0} /\ Epsilon \in Nat

(* Round to nearest, ties to even.                                         *)
Rounded(n) ==
  LET unit  == CHOOSE u \in {2 ^ k : k \in 0..16} : u * 2 ^ (Precision - 1) <= n /\ n < u * 2 ^ Precision
      below == n \div unit
      rest  == 2 * (n % unit)
  IN IF n < 2 ^ Precision THEN n
     ELSE IF rest < unit \/ (rest = unit /\ below % 2 = 0) THEN below * unit ELSE (below + 1) * unit

ClampTime(time, duration) == IF time < 0 THEN 0 ELSE IF time > duration THEN duration ELSE time

Fraction(num, den) == [num |-> num, den |-> den]
Exactly(transform) == [part \in DOMAIN transform |-> Fraction(transform[part], 1)]

(* InterpolateTransform at passed out of span: between keys that are close *)
(* the earlier one is shown.                                               *)
Between(left, right, passed, span) ==
  IF span <= Epsilon THEN Exactly(left)
  ELSE [part \in DOMAIN left |->
          Fraction(left[part] * span + (right[part] - left[part]) * passed, span)]

NotFound(channel) == [target |-> channel.target, found |-> FALSE, transform |-> << >>]
Sampled(channel, transform) == [target |-> channel.target, found |-> TRUE, transform |-> transform]

(* Variant: a key belongs to neither of its sides.                         *)
StrictlyAround(keys, time) == {i \in 1..Len(keys) - 1 : keys[i].time < time /\ time < keys[i + 1].time}
Around(keys, time) == {i \in 1..Len(keys) - 1 : keys[i].time <= time /\ time <= keys[i + 1].time}

(* The first pair of neighbours around the time, whether keys are in order *)
(* or not.                                                                 *)
SampleChannel(channel, time) ==
  LET keys   == channel.keys
      within == Around(keys, time)
      i      == CHOOSE k \in within : \A l \in within : k <= l
  IN IF keys = << >> THEN NotFound(channel)
     ELSE IF time <= keys[1].time THEN Sampled(channel, Exactly(keys[1].transform))
     ELSE IF time >= keys[Len(keys)].time THEN Sampled(channel, Exactly(keys[Len(keys)].transform))
     ELSE IF within = {} THEN NotFound(channel)
     ELSE Sampled(channel, Between(keys[i].transform, keys[i + 1].transform,
                                   time - keys[i].time, keys[i + 1].time - keys[i].time))

SampleAnimation(animation, time) ==
  Mapped(animation.channels, LAMBDA c : SampleChannel(c, ClampTime(time, animation.duration)))

(* ValidateScene's check of the keys.                                      *)
KeysOrdered(keys, duration) ==
  /\ \A i \in 1..Len(keys) : keys[i].time \in 0..duration
  /\ \A i \in 1..Len(keys) - 1 : keys[i].time <= keys[i + 1].time
KeysInRange(animation) ==
  \A channel \in Range(animation.channels) : KeysOrdered(channel.keys, animation.duration)

NoPose == [ok |-> FALSE]

(* The scene is checked with its new transforms, none of which matters to  *)
(* ValidateScene.  A channel of target 0 passes there, but not here.       *)
ApplyAnimationPose(s, animation, time) ==
  LET samples == SelectSeq(SampleAnimation(animation, time), LAMBDA x : x.found)
      Pose(nodes, sample) == UpdateFirst(nodes, sample.target, LAMBDA n : [n EXCEPT !.local = sample.transform])
      rest == Mapped(s.nodes, LAMBDA n : [n EXCEPT !.local = Exactly(@)])
      posed[i \in 0..Len(samples)] == IF i = 0 THEN rest ELSE Pose(posed[i - 1], samples[i])
  IN IF ValidateScene(s) /\ \A x \in Range(samples) : x.target \in Ids(s.nodes)
       THEN [ok |-> TRUE, nodes |-> posed[Len(samples)]] ELSE NoPose

(* Only if some channel has the old target.                                *)
RetargetAnimation(animation, old, new) ==
  LET Retargeted(c) == IF c.target = old THEN [c EXCEPT !.target = new] ELSE c
  IN {[animation EXCEPT !.channels = Mapped(@, Retargeted)] :
        c \in {x \in Range(animation.channels) : x.target = old}}

ReverseAnimation(animation) ==
  LET Later(key) == [key EXCEPT !.time = Rounded(animation.duration - @)]
      Reversed(keys) == [i \in 1..Len(keys) |-> Later(keys[Len(keys) + 1 - i])]
  IN [animation EXCEPT !.channels = Mapped(@, LAMBDA c : [c EXCEPT !.keys = Reversed(@)])]
=============================================================================
