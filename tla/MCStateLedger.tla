---------------------------- MODULE MCStateLedger ----------------------------
EXTENDS StateLedger
CONSTANTS e1, rate, yield, approval, s1, s2, high, low

\* yield is an alias of rate.
MCCanonKey == [k \in Keys |-> IF k = yield THEN rate ELSE k]

S(e, k, s, asof, conf, v) ==
    [entity |-> e, key |-> k, source |-> s,
     row |-> [asof |-> asof, conf |-> conf, value |-> v]]

\* A second source ties with the first one by an alias of the key; the first
\* one, extracted again, drifts to a later date.
MCBatches ==
    {<<S(e1, rate, s1, 1, 2, high), S(e1, approval, s1, 1, 1, low)>>,
     <<S(e1, yield, s2, 1, 2, low)>>,
     <<S(e1, rate, s1, 2, 2, high)>>}

\* Texts that sort as the dates they denote.
MCDates == [a \in AsOfs |-> a]
=============================================================================
