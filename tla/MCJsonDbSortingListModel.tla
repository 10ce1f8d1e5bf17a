---------------------- MODULE MCJsonDbSortingListModel ----------------------
(* A small instance of JsonDbSortingListModel for TLC. *)
EXTENDS JsonDbSortingListModel

MCUuid == 1..4
MCPartition == 1..2
MCHome == <<1, 1, 1, 2>>
MCContent == 1..3
MCSortValue == <<1, 2, 3>>
MCRank == <<1, 1, 2>>
MCFirst == {<<3, 1, 1, 3>>}
MCLimit == {-1, 1, 2}
=============================================================================
