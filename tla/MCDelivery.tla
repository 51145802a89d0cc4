------------------------------ MODULE MCDelivery ------------------------------
(* Instances of Delivery small enough for TLC.                             *)
EXTENDS Delivery, TLC

CONSTANTS alice, bob, carol, s1, s2, k1, k2, k3, m1, m2

\* Alice and bob talk in both messages; carol is only in the second.
Members == [m \in Message |-> IF m = m1 THEN {alice, bob} ELSE {bob, carol}]
Owners == [k \in Socket |-> IF k = k1 THEN alice ELSE IF k = k2 THEN bob ELSE carol]
TwoTabs == [k \in Socket |-> IF k = k3 THEN carol ELSE alice]
OneServer == [k \in Socket |-> s1]
TwoServers == [k \in Socket |-> IF k = k1 THEN s1 ELSE s2]
=============================================================================
