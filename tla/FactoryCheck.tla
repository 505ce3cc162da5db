---------------------------- MODULE FactoryCheck ----------------------------
(***************************************************************************)
(* What `check_factory_state` looks at, one aspect of the tag per stage,   *)
(* and which differences from the factory state it refuses or reports.     *)
(***************************************************************************)
EXTENDS Naturals, Sequences

\* Deviation: the keys that protect nothing in the factory state are left out.
StagesUpToKey2 == <<"cc", "version", "ndef", "key0", "ccSettings", "ndefSettings",
                    "propSettings", "tamper", "uid", "signature", "key2", "prop">>

Stages == <<"cc", "version", "ndef", "key0", "ccSettings", "ndefSettings",
            "propSettings", "tamper", "uid", "signature", "key2", "prop",
            "key1", "key3", "key4">>

\* Settings that cannot be undone: reported, never refused.
Lasting == {"randomId", "lrp", "armed"}

\* The tag must be as delivered in all of these.
Required == {"cc", "version", "ndef", "ccSettings", "ndefSettings", "propSettings",
             "signature", "prop", "key0", "key1", "key2", "key3", "key4"}

Aspect == Required \union Lasting

\* A chip, by how it differs from the factory state and whether it has a loop
\* to detect tampering.
Chips == {c \in [odd: {{}} \union {{a} : a \in Aspect} \union SUBSET Lasting,
                 loop: BOOLEAN] : "armed" \in c.odd => c.loop}

\* The stages a chip goes through: the tamper status is read only where the
\* version says that there is a loop.
StageOf(i)     == Stages[i]
IsLast(i)      == i = Len(Stages)
Skipped(i, c)  == StageOf(i) = "tamper" /\ ~c.loop
Refuses(i, c)  == StageOf(i) \in c.odd

\* What the result tells of the chip, and `strictly`.
Report(c)   == c.odd \intersect Lasting
Strictly(r) == r = {}
=============================================================================
