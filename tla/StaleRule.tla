----------------------------- MODULE StaleRule ------------------------------
(***************************************************************************)
(* When a secret counts as stale: the time of its last modification as     *)
(* RetrieveModifiedTime reads it from the metadata, and the comparison of  *)
(* updateSecretStatuses, in the arithmetic of time.Duration.               *)
(***************************************************************************)
EXTENDS Integers, FiniteSetsExt

CONSTANTS
  Day,          \* 24 hours, in ticks of the clock
  MaxDuration   \* the largest Duration (2^63 - 1 ns, 106751 days), in ticks

ASSUME StaleDayAssumption == Day \in Nat \ {0}
ASSUME MaxDurationAssumption == MaxDuration \in Nat

\* The result of an integer operation that overflows.
Wrap(d) == ((d + MaxDuration + 1) % (2 * (MaxDuration + 1))) - (MaxDuration + 1)

\* Duration.Abs: the smallest Duration has no opposite.
Magnitude(d) ==
  CASE d >= 0 -> d
    [] d < 0 /\ d >= 0 - MaxDuration -> 0 - d
    [] d < 0 - MaxDuration -> MaxDuration

Threshold(days) == Wrap(days * Day)

\* Variant: the last day counts already.
IsStaleEarly(age, days) == Magnitude(age) >= Magnitude(Threshold(days))

IsStale(age, days) == Magnitude(age) > Magnitude(Threshold(days))

(***************************************************************************)
(* managedFields has an entry for each manager of the object's fields, of  *)
(* the operation and the time of its last write.  The API server sorts     *)
(* the entries by operation, "Apply" before "Update", then by time.        *)
(***************************************************************************)
FieldEntries(fields, op) == {f \in fields : f.op = op}

LatestOf(entries) == Max({f.time : f \in entries})

LastEntryTime(fields) ==
  IF FieldEntries(fields, "Update") # {}
    THEN LatestOf(FieldEntries(fields, "Update"))
    ELSE LatestOf(fields)

\* Variant: the first entry.
RetrieveFirstTime(fields, created) ==
  IF fields = {} THEN created ELSE Min({f.time : f \in fields})

RetrieveModifiedTime(fields, created) ==
  IF fields = {} THEN created ELSE LastEntryTime(fields)

=============================================================================
