SPECIFICATION Spec
CONSTANTS
  MaxClients = 4
  Nobody = Nobody
  Main = Main
  WaitingRoom = 2
  Barbers = 2
  Chairs = 1
  Programs = {"zad1", "zad2"}
  StaleStart = TRUE
  MayDoze = TRUE
  MaxInterrupts = 1
INVARIANTS TypeOK WithinCapacity RingFaithful
PROPERTIES PlacesConserved ImplementsShop
CHECK_DEADLOCK FALSE
