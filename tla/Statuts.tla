------------------------------ MODULE Statuts ------------------------------
(* The statuses of a mayor's card, which the store of a browser and the card on screen share  *)
(* (common.tsx): a closed list, and the one of a mayor nobody has written anything about.     *)
CONSTANTS Statuses, ToContact

ASSUME StatutsAssumption == ToContact \in Statuses
=============================================================================
