------------------------------ MODULE MCIntake ------------------------------
(* A form with a number, an address, a remark and a misnamed leaf, and a     *)
(* covering letter of two pieces; one place of a usual submission is         *)
(* unusual, or both pieces of the letter are.                                *)
EXTENDS Intake, TLC

Usual == [p \in Place |-> IF p = "vsnr" THEN "identity" ELSE "plain"]

But(p, shapes) == {[Usual EXCEPT ![p] = s] : s \in shapes}

MCSubmission ==
  {Usual} \cup But("vsnr", {"absent", "imitation", "foreign"})
  \cup But("anschrift", {"absent", "foreign"})
  \cup But("bemerkung", {"absent", "identity", "imitation", "foreign"})
  \cup But("a.b", {"identity"})
  \cup {[f EXCEPT !["text2"] = s] : f \in But("text1", {"identity"}),
          s \in {"plain", "seam", "imitation", "foreign"}}

RequestSymmetry == Permutations(Request)
=============================================================================
