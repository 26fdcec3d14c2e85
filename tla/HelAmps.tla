-------------------------------- MODULE HelAmps --------------------------------
(***************************************************************************)
(* The helicity amplitudes of the two matrix elements, HelAmps_sm.cc and   *)
(* calculate_wavefunctions(), up to what decides which of the helicity     *)
(* combinations contribute: a fermion is the set of its chiralities that   *)
(* are not null, "L" for the components 2 and 3, "R" for 4 and 5; a boson  *)
(* or an amplitude is TRUE when it is not null.  A phase-space point can   *)
(* make an amplitude vanish that is TRUE here, never the other way round.  *)
(***************************************************************************)
EXTENDS Integers, Sequences

\* External particles, of helicity nhel, incoming (nsf = -1) or outgoing.
ixxxxx(massive, nhel, nsf) ==
    IF massive THEN {"L", "R"} ELSE IF nhel * nsf = 1 THEN {"R"} ELSE {"L"}
oxxxxx(massive, nhel, nsf) ==
    IF massive THEN {"L", "R"} ELSE IF nhel * nsf = 1 THEN {"L"} ELSE {"R"}
vxxxxx(nhel) == nhel # 0

\* The left-handed coupling of the W: a boson, an amplitude and the two fermions.
FFV2_3(F1, F2)         == "L" \in F1 /\ "R" \in F2
FFV2_0(F1, F2, V3)     == V3 /\ "L" \in F1 /\ "R" \in F2
FFV2_2(F1, V3, massive) ==
    {h \in {"L", "R"} : V3 /\ "L" \in F1 /\ (h = "L" \/ massive)}
FFV2_1(F2, V3, massive) ==
    {h \in {"L", "R"} : V3 /\ "R" \in F2 /\ (h = "R" \/ massive)}

\* The vector coupling of the gluon and the photon.
Joined(F1, F2)      == ("L" \in F1 /\ "R" \in F2) \/ ("R" \in F1 /\ "L" \in F2)
FFV1P0_3(F1, F2)    == Joined(F1, F2)
FFV1_0(F1, F2, V3)  == V3 /\ Joined(F1, F2)
FFV1_2(F1, V3, massive) == {h \in {"L", "R"} : V3 /\ (h \in F1 \/ (massive /\ F1 # {}))}
FFV1_1(F2, V3, massive) == {h \in {"L", "R"} : V3 /\ (h \in F2 \/ (massive /\ F2 # {}))}

\* The couplings of the Z, sums of one to the left and one to both chiralities.
FFV3_3(F1, F2)   == Joined(F1, F2)
FFV5_3(F1, F2)   == Joined(F1, F2)
FFV2_3_3(F1, F2) == FFV2_3(F1, F2) \/ FFV3_3(F1, F2)
FFV2_5_3(F1, F2) == FFV2_3(F1, F2) \/ FFV5_3(F1, F2)

\* Three bosons.
VVV1P0_1(V2, V3)   == V2 /\ V3
VVV1_0(V1, V2, V3) == V1 /\ V2 /\ V3

-----------------------------------------------------------------------------
(* The diagrams.  hel is a row of the table of helicities.                 *)

\* gg and uux -> ttx, fully leptonic: amp[0..3]; MB may be null, MT is not.
TopAmplitudes(hel, massiveB) ==
    LET w0 == vxxxxx(hel[1])
        w1 == vxxxxx(hel[2])
        w4 == FFV2_3(ixxxxx(FALSE, hel[3], -1), oxxxxx(FALSE, hel[4], 1))
        w6 == FFV2_1(oxxxxx(massiveB, hel[5], 1), w4, TRUE)
        w9 == FFV2_3(ixxxxx(FALSE, hel[7], -1), oxxxxx(FALSE, hel[6], 1))
        w11 == FFV2_2(ixxxxx(massiveB, hel[8], -1), w9, TRUE)
        w17 == FFV1P0_3(ixxxxx(FALSE, hel[1], 1), oxxxxx(FALSE, hel[2], -1))
    IN  <<FFV1_0(w11, w6, VVV1P0_1(w0, w1)), FFV1_0(w11, FFV1_1(w6, w0, TRUE), w1),
          FFV1_0(FFV1_2(w11, w0, TRUE), w6, w1), FFV1_0(w11, w6, w17)>>

\* uux and ddx -> WW, fully leptonic: amp[0..5].
WWAmplitudes(hel) ==
    LET w0 == ixxxxx(FALSE, hel[1], 1)
        w1 == oxxxxx(FALSE, hel[2], -1)
        w4 == FFV2_3(ixxxxx(FALSE, hel[3], -1), oxxxxx(FALSE, hel[4], 1))
        w7 == FFV2_3(ixxxxx(FALSE, hel[6], -1), oxxxxx(FALSE, hel[5], 1))
        Photon == FFV1P0_3(w0, w1)
    IN  <<VVV1_0(Photon, w7, w4), VVV1_0(w7, w4, FFV2_5_3(w0, w1)),
          FFV2_0(FFV2_2(w0, w4, FALSE), w1, w7),
          VVV1_0(Photon, w7, w4), VVV1_0(w7, w4, FFV2_3_3(w0, w1)),
          FFV2_0(FFV2_2(w0, w7, FALSE), w1, w4)>>

\* Which amplitudes the colour flows of each subprocess are made of.
matrix_1_gg(amp)    == amp[1] \/ amp[2] \/ amp[3]
matrix_1_uux(amp)   == amp[4]
matrix_1_WWuux(amp) == amp[1] \/ amp[2] \/ amp[3]
matrix_1_WWddx(amp) == amp[4] \/ amp[5] \/ amp[6]

\* Row ihel of the table of all combinations of n helicities, from -1 -1 .. -1
\* to 1 1 .. 1, the last one fastest.
Pow2[n \in Nat] == IF n = 0 THEN 1 ELSE 2 * Pow2[n - 1]
helicities(n, ihel) ==
    [j \in 1..n |-> IF (ihel \div Pow2[n - j]) % 2 = 0 THEN -1 ELSE 1]
=============================================================================
