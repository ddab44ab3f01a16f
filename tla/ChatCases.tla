------------------------------ MODULE ChatCases ------------------------------
(* The numbers that write in the instance of Chat. *)
Person(user, menu, secretary) ==
    [user |-> user, menu |-> menu, secretary |-> secretary, admin |-> FALSE, passkey |-> FALSE, web |-> {},
     named |-> TRUE, devices |-> 0, codes |-> {}, plans |-> 0, rollout |-> FALSE, phone |-> FALSE, topics |-> {1}]
TheNumbers ==
  { Person(FALSE, TRUE, FALSE),
    [Person(TRUE, TRUE, TRUE) EXCEPT !.codes = {9}, !.topics = {}, !.web = {"codes"}],
    [Person(TRUE, TRUE, FALSE) EXCEPT !.devices = 2, !.topics = {}, !.web = {"devices"}],
    [Person(TRUE, TRUE, TRUE) EXCEPT !.plans = 1, !.named = FALSE, !.web = {"plans"}],
    [Person(TRUE, FALSE, FALSE) EXCEPT !.codes = {1, 9}, !.web = {"codes"}],
    [Person(TRUE, FALSE, FALSE) EXCEPT !.admin = TRUE, !.passkey = TRUE],
    [Person(FALSE, TRUE, FALSE) EXCEPT !.admin = TRUE, !.topics = {1,2}] }
===============================================================================
