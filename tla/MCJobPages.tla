------------------------------- MODULE MCJobPages -------------------------------
(* Instances of JobPages for TLC. *)
EXTENDS JobPages

CONSTANTS u1, u2, derived, pinned

TwoUsers == {u1, u2}

TwoPaths == {derived, pinned}

\* The HTTP handler passes no path; other callers may choose one.
AnyCaller == {NoPath, pinned}

\* A client may send any number, the dashboard sends none.
AnyLimit == {-1, 0, 2}

================================================================================
