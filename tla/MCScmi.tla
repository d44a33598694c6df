------------------------------- MODULE MCScmi -------------------------------
(***************************************************************************)
(* Constants for the run of ScmiDataEvents: process P with two sysfs       *)
(* collectors and an ioctl collector, process Q with one that shares       *)
(* events with the first of P.                                             *)
(***************************************************************************)
EXTENDS ScmiDataEvents

CONSTANTS P, Q, p1, p2, p3, q1, s1, s2, s3, a, b, x, y

Process == [c \in Collectors |-> IF c = q1 THEN Q ELSE P]
Socket == [c \in Collectors |-> IF c \in {p1, q1} THEN s1 ELSE IF c = p2 THEN s2 ELSE s3]
WantedBy == [c \in Collectors |-> CASE c = p1 -> {a, b} [] c = q1 -> {a}
                                    [] c = p2 -> {x}    [] c = p3 -> {y}]
\* Some files are on before anybody collects.
SomeOn == {<<"stamp", b>>, <<"enable", x>>}
TogetherOrAlone == {{p1, q1}, {p1, p2}, {p2, q1}, {p3}}
TelemetryReadOnly == {<<"telemetry", s2>>}
=============================================================================
