-------------------------------- MODULE MCRules --------------------------------
(* Rules on small instances: for each component a set of inputs that holds every *)
(* branch and every boundary.                                                    *)
EXTENDS Rules, TLC

\* Two sets of rules over the same fields, so that thirds appear in the coverage and a release
\* changes which fields are relevant.
MCEvidenceRules ==
    {[primary |-> {"f1", "f2", "f3"}, supporting |-> {"f4"}],
     [primary |-> {"f2"}, supporting |-> {"f1", "f3"}]}

-----------------------------------------------------------------------------
\* Forms of two practices; importance, readiness, urgency and opportunity share a level, and
\* among the forms are some that must be refused.
MCForm ==
    LET Blank == [f \in 1 .. 6 |-> -1]
        Deferral(d, r, h) == [mode |-> "defer", level |-> Blank, deferred |-> d, reason |-> r,
                              horizon |-> h]
    IN  {[mode |-> "provide", level |-> <<a, l, l, l, l, b>>, deferred |-> -1, reason |-> FALSE,
          horizon |-> -1] : a, b \in {0, 4}, l \in {0, 1, 4}}
        \cup {Deferral(d, r, h) : d \in {-1, 1, 6}, r \in BOOLEAN, h \in {-1, 366}}
        \cup {[mode |-> "not_applicable", level |-> Blank, deferred |-> -1, reason |-> FALSE,
               horizon |-> h] : h \in {-1, 1}}
        \cup {[mode |-> "provide", level |-> [Blank EXCEPT ![1] = 4], deferred |-> -1,
               reason |-> FALSE, horizon |-> -1]}

\* Capacities: unknown, deferred, none, some, much.
MCCapacity == {-1, -3, 0, 2, 4}

-----------------------------------------------------------------------------
\* Two levers, two competencies that weigh them differently, and five practices of which one is
\* not available.
MCWeight == << (1 :> 70) @@ (2 :> 30), (2 :> 100) >>
MCParentOf == <<1, 1, 2, 2, 2>>

-----------------------------------------------------------------------------
\* One run of every kind, and cohorts of two participants who answered once or twice.
Run(source, answers, timed, total, quality, flags, method, day) ==
    [version |-> "1.1", source |-> source, answers |-> answers, timed |-> timed, total |-> total,
     quality |-> quality, flags |-> flags, method |-> method, day |-> day]
Alone ==
    {<< <<Run(s, [i \in items |-> v], t, total, q, f, m, 3)>> >> :
        s \in {"application", "share_code", "pilot_seed"},
        items \in {{"c1"}, {"c1", "c2"}, {"c1", "c2", "k1"}, {"c1", "c2", "k1", "k2"}},
        v \in {"1", "NA"}, t \in {{}, {"c1", "c2"}, {"c1", "c2", "k1"}},
        total \in {"adds up", "null"}, q \in {"adds up", "off"},
        f \in {<<>>, <<"fast">>, <<"fast", "fast">>, <<"other">>}, m \in {"full interval", "reading time"}}
Contributors ==
    LET Plain(v, day) == Run("share_code", [c1 |-> "1", c2 |-> v], {"c2"}, "null", "off", <<>>, "full interval", day)
    IN  {<<Plain(v, 2)>> : v \in {"1", "NA"}}
        \cup {<<Plain(v, d), Plain(u, 2)>> : v, u \in {"1", "2", "NA"}, d \in 1 .. 3}

MCInputs == Alone \cup (Contributors \X Contributors)

-----------------------------------------------------------------------------
\* Actions with a rule of each kind and role; two facts of an action vary together.
Rule(kind, role, weight) ==
    [kind |-> kind, role |-> role, weight |-> weight, allowed |-> {"firsthand_self_report"}]
Yes(role, weight) == Rule("boolean", role, weight) @@ [expected |-> TRUE]
Count(role, weight, direction, minimum, target, maximum) ==
    Rule("count", role, weight)
      @@ [direction |-> direction, minimum |-> minimum, target |-> target, maximum |-> maximum]
Attested(role, weight, consent) ==
    Rule("attestation", role, weight) @@ [attestations |-> {"known"}, consent |-> consent]
TypedAction(measurements, competency) ==
    [rules |-> measurements, competency |-> competency,
     transfer |-> IF competency = {} THEN "protocol_only" ELSE "context_bound"]
MCActions ==
    { TypedAction([a |-> Yes("primary", 6), b |-> Count("supporting", 5, "at_least", 0, 2, 3),
                   c |-> Yes("adverse", 0)], {"a", "b"}),
      TypedAction([a |-> Rule("artifact", "primary", 7) @@ [criteria |-> {"x", "y"}],
                   b |-> Rule("bounded_frequency", "primary", 3)
                           @@ [direction |-> "at_most", minimum |-> 0, target |-> 6, maximum |-> 12]],
                  {"a"}),
      TypedAction([a |-> Attested("primary", 10, TRUE), b |-> Count("context", 0, "at_least", 1, 1, 1)], {}),
      TypedAction([a |-> Count("primary", 5, "at_most", 0, 1, 3), b |-> Yes("adverse", 0)], {"a", "b"}),
      TypedAction([a |-> Rule("ordinal", "primary", 5) @@ [levels |-> [low |-> 0, high |-> 12]]], {"a"}),
      TypedAction([a |-> Count("primary", 5, "at_most", 0, 1, 3), b |-> Attested("supporting", 2, FALSE)],
                  {"a", "b"}) }
MCFacts ==
    {f \in [attempted : BOOLEAN, completed : BOOLEAN, text : BOOLEAN, index : {1, 5},
            direction : {"supports", "mixed", "unknown", "inconclusive"},
            support : {"self_directed", "guided"}, context : {"first_record", "varied_context"}] :
        (f.context = "first_record") = (f.index = 1) /\ (f.support = "guided") = (f.index = 5)}
TypedValues(r) ==
    CASE r.kind = "boolean" -> [truth : {TRUE, FALSE, None}]
      [] r.kind = "count" -> [amount : (0 .. 4) \cup {None}]
      [] r.kind = "bounded_frequency" ->
           {[numerator |-> 1, denominator |-> 3], [numerator |-> 3, denominator |-> 4],
            [numerator |-> 2, denominator |-> 1], [numerator |-> None, denominator |-> 2]}
      [] r.kind = "ordinal" -> [level : {"low", "high", None}]
      [] r.kind = "attestation" -> [attestation_id : {"known", None}, consent_confirmed : BOOLEAN]
      [] OTHER -> [criteria_met : SUBSET r.criteria]

MCValues == [r \in UNION {{a.rules[m] : m \in DOMAIN a.rules} : a \in MCActions} |-> TypedValues(r)]

-----------------------------------------------------------------------------
\* Events that differ from a plain one in what a policy looks at.
Plain == [performance |-> 100, mass |-> 55, direction |-> "supports", adverse |-> FALSE,
          withheld |-> FALSE, provenance |-> {"firsthand_self_report"}, kinds |-> {"boolean"},
          qualified |-> FALSE, context |-> "s1", transfer |-> "cross_context_candidate", age |-> 0,
          maxAge |-> None]
MCCandidate ==
    {Plain,
     [Plain EXCEPT !.context = "s2", !.performance = 33, !.maxAge = 1],
     [Plain EXCEPT !.provenance = {"reviewed_artifact"}, !.kinds = {"artifact"}, !.transfer = "context_bound"],
     [Plain EXCEPT !.provenance = {"qualified_attestation"}, !.kinds = {"attestation"},
                   !.qualified = TRUE, !.context = "s2"],
     [Plain EXCEPT !.adverse = TRUE, !.provenance = {"objective_indicator"}, !.kinds = {"objective"}],
     [Plain EXCEPT !.direction = "contradicts", !.mass = 37],
     [Plain EXCEPT !.direction = "mixed", !.performance = 67, !.age = 1, !.maxAge = 2],
     [Plain EXCEPT !.withheld = TRUE, !.performance = None, !.provenance = {}, !.kinds = {}]}

MCPolicy ==
    {"SP-NON-SCORED-REFLECTION", "SP-CORROBORATION-REQUIRED", "SP-ARTIFACT-OBJECTIVE-PREFERRED",
     "SP-QUALIFIED-EVIDENCE-REQUIRED", "SP-SELF-REPORT-ELIGIBLE"}
MCShare == [l1 |-> [weight |-> 70, total |-> 900], l2 |-> [weight |-> 30, total |-> 5000]]
MCBaseline == [l1 |-> [alpha |-> 100, beta |-> 200], l2 |-> [alpha |-> 35, beta |-> 35]]

-----------------------------------------------------------------------------
\* Payloads the browser makes, and each of them with one thing changed; two submissions.
MCCore == <<"c1", "c2">>
Encoding == INSTANCE Assessment WITH Lever <- Levers, Core <- MCCore, MaxPosts <- 0, Posted <- {}
Scored(estimate, raw, alpha, beta, mass) ==
    [estimate |-> estimate, raw |-> raw, alpha |-> alpha, beta |-> beta, mass |-> mass]
Payload(s, source, items) ==
    LET responses == [i \in items |-> IF i \in {"c2", "k1"} THEN "NA" ELSE "4"] IN
    [submission |-> s, source |-> source, version |-> "1.1", responses |-> responses,
     timed |-> items, total |-> "adds up", quality |-> "adds up", flags |-> <<>>, method |-> "full interval",
     code |-> Encoding!Encode(responses, "adds up"), ranking |-> <<1, 2>>,
     levers |-> <<Scored(8205, 100, 3500 + 12500, 3500, 125), Scored(None, None, 3500, 3500, 0)>>]
Made(s) ==
    {Payload(s, "application", items) :
        items \in {{"c1", "c2"}, {"c1", "c2", "k1", "o1"}, {"c1", "c2", "k2", "k1"}, {"c2", "k1"}, {"c1", "x"}}}
    \cup {Payload(s, "share_code", {"c1", "c2", "k1"})}
Changed(p) ==
    {p, [p EXCEPT !.source = "share_code", !.timed = {}, !.total = "null", !.quality = "off"],
     [p EXCEPT !.total = "off"], [p EXCEPT !.quality = "missing"],
     [p EXCEPT !.flags = <<"fast">>], [p EXCEPT !.flags = <<"other">>], [p EXCEPT !.flags = <<"fast", "fast">>],
     [p EXCEPT !.method = "reading time"], [p EXCEPT !.timed = {"c1"}],
     [p EXCEPT !.code.prefix = "GGA1"], [p EXCEPT !.code.core = <<"4">>],
     [p EXCEPT !.code.extras = [c1 |-> "4"] @@ @], [p EXCEPT !.responses = [i \in DOMAIN @ |-> "5"]],
     [p EXCEPT !.levers[1].alpha = @ + 3], [p EXCEPT !.levers[1].estimate = 8208],
     [p EXCEPT !.levers[2].alpha = 9000], [p EXCEPT !.levers[1] = Scored(3500, 0, 3500, 6500, 30)],
     [p EXCEPT !.levers[1] = Scored(8205, 100, 45000, 9844, 415)], [p EXCEPT !.ranking = <<1, 1>>],
     [p EXCEPT !.levers[1] = Scored(4996, 100, 3498, 3502, 0)]}

MCPosted == UNION {Changed(p) : p \in Made("s1")} \cup Made("s2")

-----------------------------------------------------------------------------
\* The contract of the repository, another one, and two that must be refused; a catalog with
\* weights that need rounding, one that leaves a lever out, one whose weights are no shares.
Shares == [canonical |-> 5000, equal |-> 5000, lever |-> 5000, family |-> 2500, domain |-> 2500,
           ownLever |-> 5000, ownFamily |-> 2500, ownDomain |-> 2500, floor |-> 6000,
           confidence |-> 4000, inherited |-> 5000, needExponent |-> 3, remainingExponent |-> 1,
           ownExponent |-> 1]
Catalog(domain, weights) == [family |-> <<"f1", "f1", "f2">>, domain |-> domain, weights |-> weights]

MCPolicies ==
    {Shares, [Shares EXCEPT !.needExponent = 2, !.canonical = 9999, !.equal = 1],
     [Shares EXCEPT !.ownLever = 6000], [Shares EXCEPT !.ownExponent = 0]}
MCCatalogs ==
    {Catalog(<<"d1", "d1", "d2">>,
             << (1 :> 6667) @@ (2 :> 3333), (2 :> 1) @@ (3 :> 9999),
                (1 :> 5000) @@ (2 :> 2500) @@ (3 :> 2500) >>),
     Catalog(<<"d1">>, << (1 :> 6000) @@ (2 :> 4000) >>),
     Catalog(<<"d1">>, << (1 :> 6000) @@ (3 :> 3000) >>)}
MCAssessments ==
    [1 .. 3 -> {[estimate |-> None, confidence |-> 0], [estimate |-> 2100, confidence |-> 0],
                [estimate |-> 2100, confidence |-> 6100], [estimate |-> 9000, confidence |-> 6100]}]
=============================================================================
