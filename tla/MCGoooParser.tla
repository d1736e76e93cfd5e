---------------------------- MODULE MCGoooParser ----------------------------
(* Files for GoooParser: a least program and a least meta file, and what they *)
(* become when lines are put in, taken out and swapped.                       *)
EXTENDS GoooParser, SequencesExt

Says1(w, t) == [word |-> w, space |-> TRUE, text |-> t]

Program ==
  <<Says1("case", "name"), Says1("program", "name"), Says1("namespace", "name"),
    Says1("obligation", "declared"), Says1("output", "quoted")>>

Meta ==
  <<Says1("program", "name"), Says1("namespace", "name"),
    Says1("precedence", "REFUTED > UNKNOWN > CLOSED"),
    Says1("receipt_schema", "name"), Says1("receipt_policy", "immutable-pass-only"),
    Says1("impact_policy", "name"), Says1("claim", "quoted"), Says1("obligation", "declared"),
    Says1("edge", "arrow"), Says1("activity", "name")>>
  \o [i \in 1 .. 7 |-> Says1("indicator", ExpectedIndicators[i])]
  \o <<Says1("delta_definition", "after-minus-before"),
       Says1("improvement_policy", "indicator-vector-only"),
       Says1("unchanged_claim", "NOT_CLAIMED"), Says1("regression_claim", "REFUTED")>>

MCText ==
  {"", "after-minus-before", "indicator-vector-only", "NOT_CLAIMED", "REFUTED",
   "REFUTED > UNKNOWN > CLOSED", "immutable-pass-only", "CLOSED", "UNKNOWN", "name", "quoted",
   "arrow", "declared", "foreign", "commit", "commit # why", "quo#ted", "quo", "# why", "long"}
   \union Range(ExpectedIndicators)

MCBeforeHash ==
  [t \in MCText |-> CASE t = "commit # why" -> "commit" [] t = "quo#ted" -> "quo"
                      [] t = "# why" -> "" [] OTHER -> t]

MCWellFormed == [
  claim |-> {"quoted"}, obligation |-> {"declared", "foreign"}, edge |-> {"arrow"},
  indicator |-> Range(ExpectedIndicators), output |-> {"quoted"}]

Declared == [contract |-> "c", fixture |-> "f", toolchain |-> "t", runner |-> "r"]
MCObligationOf == [t \in MCText |-> IF t = "declared" THEN Declared ELSE [Declared EXCEPT !.contract = "d"]]
MCGivenMeta == [namespace |-> "name", obligation |-> Declared, forbidden |-> {"commit"}]

More ==
  {Says1("decision", t) : t \in {"CLOSED", "UNKNOWN", "name"}}
  \union {Says1("effect", t) : t \in {"commit", "commit # why", "name"}}
  \union {Says1("impact", t) : t \in {"name", "# why"}}
  \union {Says1("obligation", t) : t \in {"declared", "foreign", "name"}}
  \union {Says1("output", "quo#ted"), Says1("namespace", "foreign"), Says1("other", "name"),
          Says1("other", "long"), [Says1("effect", "commit") EXCEPT !.space = FALSE]}

MoreMeta ==
  {Says1("indicator", "selected"), Says1("edge", "name"), Says1("claim", "quoted"),
   Says1("unchanged_claim", "REFUTED"), Says1("unchanged_claim", "NOT_CLAIMED"),
   Says1("receipt_state", "name"), Says1("receipt_schema", "# why")}

Inserted(files, lines) ==
  UNION {{InsertAt(f, i, l) : i \in 1 .. Len(f) + 1, l \in lines} : f \in files}
Removed(files) == UNION {{RemoveAt(f, i) : i \in DOMAIN f} : f \in files}
Swapped(files) ==
  UNION {{[f EXCEPT ![i] = f[i + 1], ![i + 1] = f[i]] : i \in 1 .. Len(f) - 1} : f \in files}

Programs == LET once == {Program} \union Inserted({Program}, More) \union Removed({Program})
            IN  once \union Inserted(once, More)
Metas == LET once == {Meta} \union Inserted({Meta}, MoreMeta) \union Removed({Meta}) \union Swapped({Meta})
         IN  once \union Removed(once) \union {Append(f, l) : f \in once, l \in MoreMeta}

MCFiles == Programs \union Metas
=============================================================================
