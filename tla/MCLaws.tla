------------------------------- MODULE MCLaws -------------------------------
(* Small inputs for the rules; the sets a .cfg cannot write.               *)
EXTENDS Laws

\* Links of a tree: two wide ones, one narrow, one that was not read.
LinksOfATree == <<8, 4, NotRead, 2>>

\* A card, the ports of a board and what the other ports hold, as generation and
\* lanes: something better, something worse and something unread of each.
CardsOfABoard  == {<<3, 8>>, <<3, 1>>, <<3, NotRead>>}
PortsOfABoard  == {<<1, 8>>, <<3, 4>>, <<NotRead, 8>>}
OthersOnABoard == {<<3, 4>>, <<3, 8>>, <<NotRead, 8>>}
RunsOfACard    == {<<1, 8>>, <<1, 1>>, <<3, 0>>}
CeilingsAbove  == {Unlimited, 3000}
DemandsOnACard == {<<>>, <<500, NotRead>>, <<3000>>}
\* Devices a list of PCI devices can name: one of each vendor.
DevicesOfTwoVendors == {<<1, 1>>, <<2, 1>>}
=============================================================================
