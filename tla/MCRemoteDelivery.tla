-------------------------- MODULE MCRemoteDelivery --------------------------
(* Small instances of RemoteDelivery. *)
EXTENDS RemoteDelivery

Base == [relays |-> <<>>, path |-> <<>>, fwd |-> <<>>, gws |-> <<>>, gwConfig |-> "unset",
         literal |-> FALSE, exists |-> TRUE, mx |-> <<>>, a |-> TRUE, smart |-> 0,
         roots |-> 2, auth |-> "none"]

Entry(h, o) == [host |-> h, option |-> o]
Mx(c, h) == [cost |-> c, host |-> h]

\* A domain with four mail exchangers, one more than the table holds; two of
\* those have the same preference.  In one configuration below, where three fit,
\* they have the same name.
Exchangers == [Base EXCEPT !.mx = <<Mx(1, "b"), Mx(0, "a"), Mx(1, "c"), Mx(0, "d")>>]

\* One configuration for each route, and for each thing a lookup may find.
MCConfigs ==
    {[Base EXCEPT !.relays = <<<<Entry("a", "use"), Entry("b", "force")>>>>, !.auth = "plain"],
     [Base EXCEPT !.path = <<"a">>, !.gwConfig = "use", !.auth = "cram-md5"],
     [Base EXCEPT !.fwd = <<<<Entry("a", "unset"), Entry("b", "off")>>>>, !.gwConfig = "force"],
     [Base EXCEPT !.fwd = <<<<>>>>],
     [Base EXCEPT !.gws = <<<<Entry("a", "unset"), Entry("b", "force")>>>>],
     [Base EXCEPT !.gws = <<<<Entry("a", "off"), Entry("b", "use")>>>>, !.gwConfig = "force"],
     [Base EXCEPT !.literal = TRUE, !.auth = "login"],
     [Base EXCEPT !.auth = "broken"],
     Exchangers,
     [Exchangers EXCEPT !.smart = 2, !.mx = <<Mx(1, "b"), Mx(0, "a"), Mx(1, "b")>>, !.gwConfig = "force"],
     [Base EXCEPT !.a = FALSE],
     [Base EXCEPT !.smart = 2],
     [Base EXCEPT !.exists = FALSE, !.a = FALSE],
     [Base EXCEPT !.exists = FALSE, !.a = FALSE, !.smart = 2],
     [Base EXCEPT !.roots = 1]}

\* Of DefaultSMTPGateways and SmtpGwConfig that disagree.
Weakened ==
    {[Base EXCEPT !.gws = <<<<Entry("a", "force")>>>>, !.gwConfig = "use"]}
=============================================================================
