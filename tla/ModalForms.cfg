\* Three forms, nested and side by side.
SPECIFICATION Spec
CONSTANTS
  Forms = {f1, f2, f3}
  Main = Main
  Desktop = Desktop
CHECK_DEADLOCK FALSE
INVARIANTS
  TypeOK
  ModalIsModal
  EnabledWhenDone
