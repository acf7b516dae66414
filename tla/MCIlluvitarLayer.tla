-------------------------- MODULE MCIlluvitarLayer --------------------------
(* Small instances of IlluvitarLayer for TLC. *)
EXTENDS IlluvitarLayer

\* "53,1", "31" and "5.3": the first two are portraits, the last is not.
PortraitBlueprints == {<<5, 3, Separator, 1>>, <<3, 1>>, <<5, Separator, 3>>}
\* "53,20,31,42,53,68", as the tests of PortraitLayer write it, and
\* "3,20,31,42,53,68", as the comment of its _mint describes it.
SixFields(tier) ==
    tier \o <<Separator, 2, 0, Separator, 3, 1, Separator, 4, 2, Separator, 5, 3, Separator, 6, 8>>
SixFieldBlueprints == {SixFields(<<5, 3>>), SixFields(<<3>>)}
\* "532", as the tests of AccessoryLayer write it.
AccessoryBlueprints == {<<5, 3, 2>>}
=============================================================================
