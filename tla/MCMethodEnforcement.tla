------------------------ MODULE MCMethodEnforcement -------------------------
(* Instances of MethodEnforcement for TLC.                                  *)
EXTENDS MethodEnforcement

Offer(signal, priority, shape) == [signal |-> signal, priority |-> priority, shape |-> shape]

(* What p1 offers for any constraint: nothing; mappers that collide, or do  *)
(* not, at each signal of a method; handlers at several signals, in the     *)
(* wrong order; handlers that only @PreEnforce, or neither, admits.         *)
Offers ==
    { << >>,
      << Offer("output", 0, "mapper") >>,
      << Offer("decision", 0, "runner"), Offer("output", 1, "mapper") >>,
      << Offer("output", 0, "consumer"), Offer("error", 0, "mapper") >>,
      << Offer("input", 0, "mapper") >>,
      << Offer("input", 1, "mapper"), Offer("decision", 0, "runner") >>,
      << Offer("output", 0, "runner"), Offer("input", 0, "consumer") >> }

(* For c1 also: a failure; a claim that collides with itself or with the    *)
(* replacement of the resource; handlers that are not admissible.  p2       *)
(* competes for c1 or fails.                                               *)
MCAnswers ==
    [p1 |-> [c1 |-> Offers \cup
                    { Throws,
                      << Offer("output", ResourceSubstitutionPriority, "mapper") >>,
                      << Offer("output", 0, "consumer"), Offer("output", 1, "runner"),
                         Offer("output", 0, "mapper"), Offer("output", 0, "mapper") >>,
                      << Offer("decision", 0, "mapper") >>,
                      << Offer("decision", 0, "runner"), Offer("complete", 0, "runner") >> },
             c2 |-> Offers],
     p2 |-> [c1 |-> { << >>, Throws, << Offer("output", 0, "mapper") >> },
             c2 |-> { << >> }]]

MCObligations == { << >>, << "c1" >>, << "c1", "c2" >>, << "c1", "c1" >> }
MCAdvice == { << >>, << "c2" >> }

=============================================================================
